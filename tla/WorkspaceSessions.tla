-------------------------- MODULE WorkspaceSessions --------------------------
(***************************************************************************)
(* Multi-session persistence of one browser tab: the session index and the *)
(* per-session records in IndexedDB (src/core/sessions.ts), and the code   *)
(* of src/main.ts that reads and writes them - boot, the debounced         *)
(* auto-save, New / Switch / Rename / Delete session, opening a file, and  *)
(* Start fresh.                                                            *)
(*                                                                         *)
(* An async function of the source is a task.  Each `await' of an          *)
(* IndexedDB request is a program point of the task, and the step taken    *)
(* there is the request together with the JavaScript that runs when it     *)
(* completes.  Every request opens the same database, so IndexedDB serves  *)
(* them in the order they were issued: `queue'.  Other awaits (dropping    *)
(* DuckDB relations, loading a chunk, mounting sources) complete at any    *)
(* time.                                                                   *)
(***************************************************************************)
EXTENDS Naturals, Sequences, FiniteSets

CONSTANTS
  SessionIds,     (* what crypto.randomUUID() can return                   *)
  None,           (* null: no session, no record, an empty workspace       *)
  Handlers,       (* tasks that run one click handler each                 *)
  Savers,         (* tasks that run one persistSnapshot each               *)
  StartSessions,  (* the sessions a previous visit left in the index       *)
  Ops,            (* what the user and the browser do in this instance     *)
  MaxRev,         (* bound: number of edits                                *)
  MaxUnloads      (* bound: number of times the tab goes away              *)

ASSUME NoneAssumption == None \notin SessionIds
ASSUME StartAssumption == StartSessions \subseteq SessionIds
ASSUME BoundsAssumption == MaxRev \in Nat /\ MaxUnloads \in Nat

VARIABLES
  index,          (* IDB sessions/index                                    *)
  snapshot,       (* IDB sessions/<id>/snapshot                            *)
  results,        (* IDB result-snapshots/<id>: whose rows are stored      *)
  legacy,         (* IDB workbook/current exists                           *)
  active,         (* _activeSession                                        *)
  live,           (* workbook + notebook + semantic stores of the tab      *)
  wasNonEmpty,    (* _sessionWasNonEmpty                                   *)
  timer,          (* _autoSaveTimer is pending                             *)
  applying,       (* the apply that suspends auto-save, or None            *)
  booted,         (* installAutoSave has run                               *)
  warning,        (* _autoSaveWarningActive                                *)
  task,           (* the running async functions                           *)
  queue,          (* IndexedDB requests in the order they were issued      *)
  rev, unloads,   (* bounded counters                                      *)
  issued,         (* ids handed out so far: a UUID is never repeated       *)
  deleted,        (* sessions the user was told are deleted                *)
  cleared,        (* the session a Start fresh reload has just emptied     *)
  unrestored      (* nothing of the last file applied was brought back     *)

idb  == <<index, snapshot, results, legacy>>
tab  == <<active, live, wasNonEmpty, timer, applying, booted, warning>>
hist == <<rev, unloads, issued, deleted, cleared, unrestored>>
vars == <<idb, tab, task, queue, hist>>

Tasks == Handlers \cup Savers

(* A workspace is told apart by the sessions it was made in, its revision, *)
(* whether the semantic stores (measures, selections, segments ...) still  *)
(* hold its definitions, and whether it is whole: a restore brings back    *)
(* only a part of a workspace when a source has to be reconnected.         *)
Content == [owners: SUBSET SessionIds, rev: Nat, stores: BOOLEAN,
            whole: BOOLEAN]
Record  == Content \cup {None}

Work(sessions, n) ==
  [owners |-> sessions, rev |-> n, stores |-> TRUE, whole |-> TRUE]

Part(c) == [c EXCEPT !.whole = FALSE]

ASSUME ContentAssumption == None \notin Content

(* SessionsIndex; names and timestamps are left out. *)
Index      == [active: SessionIds \cup {None}, sessions: SUBSET SessionIds]
EmptyIndex == [active |-> None, sessions |-> {}]

Writes   == {"putSnapshot", "saveWriteIndex", "putResults", "clearSnapshot",
             "clearResults", "setActiveWrite", "createWrite", "renameWrite",
             "deleteArtifacts", "deleteWrite", "freshArtifacts",
             "bootPut", "bootForget", "bootWrite"}
Reads    == {"saveReadIndex", "setActiveRead", "switchRead", "createRead",
             "renameRead", "deleteCheck", "deleteRead", "deleteNext",
             "freshRead", "bootRead", "bootLegacy", "loadSettings",
             "readSnapshot", "readResults"}
IdbSteps == Writes \cup Reads

BootSteps == {"bootRead", "bootLegacy", "bootPut", "bootForget", "bootWrite"}
Loading   == {"applyWait", "applyDrop", "applyMount"}
Steps    == IdbSteps \cup Loading \cup {"idle", "drop", "reload"}

TaskOps == {"none", "boot", "save", "new", "switch", "rename", "delete",
              "fresh", "open"}
TaskRec  == [op: TaskOps, pc: Steps, after: {"idle", "setActiveRead", "drop"},
             id: SessionIds \cup {None}, sid: SessionIds \cup {None},
             idx: Index, file: Record, rows: Record, was: BOOLEAN]
IdleTask == [op |-> "none", pc |-> "idle", after |-> "idle", id |-> None,
             sid |-> None, idx |-> EmptyIndex, file |-> None,
             rows |-> None, was |-> FALSE]

Call(op, pc) == [IdleTask EXCEPT !.op = op, !.pc = pc]

TypeOK ==
  /\ index \in Index
  /\ snapshot \in [SessionIds -> Record]
  /\ results \in [SessionIds -> Record]
  /\ active \in SessionIds \cup {None}
  /\ live \in Record
  /\ {legacy, wasNonEmpty, timer, booted, warning} \subseteq BOOLEAN
  /\ applying \in Tasks \cup {None}
  /\ task \in [Tasks -> TaskRec]
  /\ queue \in Seq(Tasks)
  /\ rev \in Nat /\ unloads \in Nat
  /\ issued \subseteq SessionIds /\ deleted \subseteq SessionIds
  /\ cleared \in SessionIds \cup {None} /\ unrestored \in BOOLEAN

(***************************************************************************)
(* Scheduling.                                                             *)
(***************************************************************************)

(* Task t is at program point pc and, when that is an IndexedDB request,   *)
(* its request is the oldest one.                                          *)
At(t, pc) ==
  /\ task[t].pc = pc
  /\ pc \in IdbSteps => queue # <<>> /\ Head(queue) = t

(* Task t goes on as r; an IndexedDB request it makes there is queued.     *)
Continue(t, r) ==
  LET rest == IF task[t].pc \in IdbSteps THEN Tail(queue) ELSE queue
  IN  /\ task' = [task EXCEPT ![t] = IF r.pc = "idle" THEN IdleTask ELSE r]
      /\ queue' = IF r.pc \in IdbSteps THEN Append(rest, t) ELSE rest

Goto(t, pc) == Continue(t, [task[t] EXCEPT !.pc = pc])
Return(t)   == Continue(t, IdleTask)

(* scheduleSave: a subscriber of the workbook and of the notebook.         *)
ScheduleSave ==
  timer' = (timer \/ (booted /\ applying = None))

(***************************************************************************)
(* persistSnapshot.  It runs as a task of its own when the timer fires or  *)
(* the page is hidden, and inline in the handlers that await it: `after'   *)
(* is where the caller goes on.  The content is serialised, and the        *)
(* session id read, when it is called; the id is read again after every    *)
(* await.                                                                  *)
(***************************************************************************)
PersistSnapshotSkipsEmpty(t, caller) ==
  \* Mutant: an empty workspace is never written.
  IF live = None
  THEN /\ Goto(t, caller.after)
       /\ UNCHANGED <<wasNonEmpty, warning>>
  ELSE /\ Continue(t, [caller EXCEPT !.pc = "putSnapshot", !.sid = active,
                                     !.file = live])
       /\ wasNonEmpty' = TRUE
       /\ UNCHANGED warning

PersistSnapshot(t, caller) ==
  IF live = None
  THEN /\ Continue(t, IF wasNonEmpty /\ active # None
                      THEN [caller EXCEPT !.pc = "clearSnapshot", !.sid = active]
                      ELSE [caller EXCEPT !.pc = caller.after])
       /\ wasNonEmpty' = FALSE
       /\ warning' = warning
  ELSE /\ Continue(t, IF active # None
                      THEN [caller EXCEPT !.pc = "putSnapshot", !.sid = active,
                                          !.file = live]
                      ELSE [caller EXCEPT !.pc = caller.after])
       /\ wasNonEmpty' = TRUE
       /\ warning' = (warning \/ active = None)

(* saveSnapshot: the record, then a read-modify-write of the index (it     *)
(* moves the session's `modified', which is left out: what matters is      *)
(* that it writes back the list it read).                                  *)
PutSnapshot(t) ==
  /\ At(t, "putSnapshot")
  /\ snapshot' = [snapshot EXCEPT ![task[t].sid] = task[t].file]
  /\ Goto(t, "saveReadIndex")
  /\ UNCHANGED <<index, results, legacy, tab, hist>>

SaveReadIndex(t) ==
  /\ At(t, "saveReadIndex")
  /\ Continue(t, [task[t] EXCEPT !.pc = "saveWriteIndex", !.idx = index])
  /\ UNCHANGED <<idb, tab, hist>>

SaveWriteIndex(t) ==
  /\ At(t, "saveWriteIndex")
  /\ index' = task[t].idx
  /\ IF active # None
     THEN /\ Continue(t, [task[t] EXCEPT !.pc = "putResults", !.sid = active,
                                         !.idx = EmptyIndex, !.rows = live])
          /\ warning' = warning
     ELSE /\ Goto(t, task[t].after)
          /\ warning' = TRUE
  /\ UNCHANGED <<snapshot, results, legacy, active, live, wasNonEmpty, timer,
                 applying, booted, hist>>

(* saveResultSnapshots, and the end of the successful path. *)
PutResults(t) ==
  /\ At(t, "putResults")
  /\ results' = [results EXCEPT ![task[t].sid] = task[t].rows]
  /\ warning' = FALSE
  /\ Goto(t, task[t].after)
  /\ UNCHANGED <<index, snapshot, legacy, active, live, wasNonEmpty, timer,
                 applying, booted, hist>>

ClearSnapshot(t) ==
  /\ At(t, "clearSnapshot")
  /\ snapshot' = [snapshot EXCEPT ![task[t].sid] = None]
  /\ IF active # None
     THEN Continue(t, [task[t] EXCEPT !.pc = "clearResults", !.sid = active])
     ELSE Goto(t, task[t].after)
  /\ UNCHANGED <<index, results, legacy, tab, hist>>

ClearResults(t) ==
  /\ At(t, "clearResults")
  /\ results' = [results EXCEPT ![task[t].sid] = None]
  /\ Goto(t, task[t].after)
  /\ UNCHANGED <<index, snapshot, legacy, tab, hist>>

(* A write of persistSnapshot is rejected (quota).  The save path raises   *)
(* the storage warning, and what was to be written is given up; the clear  *)
(* path only logs.                                                         *)
PersistFails(t) ==
  /\ "fail" \in Ops
  /\ \E pc \in {"putSnapshot", "saveWriteIndex", "putResults"} : At(t, pc)
  /\ warning' = TRUE
  /\ Continue(t, [task[t] EXCEPT !.pc = task[t].after, !.file = None])
  /\ UNCHANGED <<idb, active, live, wasNonEmpty, timer, applying, booted, hist>>

(* The debounce timer fires. *)
TimerFires(t) ==
  /\ timer /\ booted
  /\ task[t].pc = "idle"
  /\ timer' = FALSE
  /\ PersistSnapshot(t, Call("save", "idle"))
  /\ UNCHANGED <<idb, active, live, applying, booted, hist>>

(* pagehide: the pending save is flushed.  The page may come back (bfcache *)
(* or a cancelled navigation) or unload at any later step.                 *)
PageHide(t) ==
  /\ "hide" \in Ops /\ booted
  /\ task[t].pc = "idle"
  /\ timer' = FALSE
  /\ PersistSnapshot(t, Call("save", "idle"))
  /\ UNCHANGED <<idb, active, live, applying, booted, hist>>

(***************************************************************************)
(* The user.  Handlers are wired before anything is restored: "early" in   *)
(* Ops is a user who does not wait for the boot to end.                    *)
(***************************************************************************)
HandsOn == booted \/ "early" \in Ops

Here == {active} \ {None}

(* A source is mounted, a cell added or changed.  A change belongs to the  *)
(* session that is active.                                                 *)
Edit ==
  /\ "edit" \in Ops /\ HandsOn /\ rev < MaxRev
  /\ rev' = rev + 1
  /\ live' = IF live = None
             THEN Work(Here, rev + 1)
             ELSE [live EXCEPT !.rev = rev + 1, !.owners = @ \cup Here]
  /\ ScheduleSave
  /\ UNCHANGED <<idb, active, wasNonEmpty, applying, booted, warning, task,
                 queue, unloads, issued, deleted, cleared, unrestored>>

(* The last source or cell is removed. *)
RemoveAll ==
  /\ "edit" \in Ops /\ HandsOn /\ rev < MaxRev
  /\ live # None
  /\ rev' = rev + 1
  /\ live' = None
  /\ ScheduleSave
  /\ UNCHANGED <<idb, active, wasNonEmpty, applying, booted, warning, task,
                 queue, unloads, issued, deleted, cleared, unrestored>>

(***************************************************************************)
(* Session handlers.  Those that tear the workspace down await             *)
(* dropCurrentWorkspaceArtifacts, which leaves the sources and cells on    *)
(* screen but has emptied the semantic stores when it returns.             *)
(***************************************************************************)

(* The session menu is drawn when ensureActiveSession has returned, and    *)
(* Start fresh is offered at the end of the boot; Open file has no guard.  *)
Clicks(t, op) ==
  /\ op \in Ops /\ HandsOn /\ task[t].pc = "idle"
  /\ \/ op = "open"
     \/ op = "fresh" /\ booted
     \/ op # "fresh" /\ \A u \in Tasks : task[u].pc \notin BootSteps

WithoutStores(c) == IF c = None THEN None ELSE [c EXCEPT !.stores = FALSE]

(* Session menu, New: flush, drop, createSession, clear.  Bound: as often  *)
(* as there are ids left.                                                  *)
NewSession(t) ==
  /\ Clicks(t, "new") /\ issued # SessionIds
  /\ PersistSnapshot(t, [Call("new", "idle") EXCEPT !.after = "drop"])
  /\ UNCHANGED <<idb, active, live, timer, applying, booted, hist>>

NewDropped(t) ==
  /\ task[t].op = "new" /\ At(t, "drop")
  /\ live' = WithoutStores(live)
  /\ Goto(t, "createRead")
  /\ UNCHANGED <<idb, active, wasNonEmpty, timer, applying, booted, warning,
                 hist>>

CreateRead(t) ==
  /\ At(t, "createRead")
  /\ \E id \in SessionIds \ issued :
       /\ issued' = issued \cup {id}
       /\ Continue(t, [task[t] EXCEPT !.pc = "createWrite", !.id = id,
                                      !.idx = index])
  /\ UNCHANGED <<idb, tab, rev, unloads, deleted, cleared, unrestored>>

CreateWriteKeepsWorkspace(t) ==
  \* Mutant: the workbook is not cleared.
  LET id == task[t].id
  IN  /\ At(t, "createWrite")
      /\ index' = [active |-> id, sessions |-> task[t].idx.sessions \cup {id}]
      /\ active' = id
      /\ Return(t)
      /\ UNCHANGED <<snapshot, results, legacy, live, wasNonEmpty, timer,
                     applying, booted, warning, hist>>

CreateWrite(t) ==
  LET id == task[t].id
  IN  /\ At(t, "createWrite")
      /\ index' = [active |-> id, sessions |-> task[t].idx.sessions \cup {id}]
      /\ active' = id
      /\ live' = None
      /\ ScheduleSave
      /\ Return(t)
      /\ UNCHANGED <<snapshot, results, legacy, wasNonEmpty, applying, booted,
                     warning, hist>>

(* Session menu, Switch: flush the outgoing session, move the pointer in   *)
(* the index, adopt it, drop, clear, restore.  The menu was rendered after *)
(* an earlier read of the index, so it may offer any session issued.       *)
SwitchSessionUnflushed(t) ==
  \* Mutant: the outgoing session is not persisted first.
  /\ Clicks(t, "switch")
  /\ \E id \in issued \ {active} :
       Continue(t, [Call("switch", "setActiveRead")
                      EXCEPT !.id = id, !.file = live])
  /\ UNCHANGED <<idb, tab, hist>>

SwitchSession(t) ==
  /\ Clicks(t, "switch")
  /\ \E id \in issued \ {active} :
       PersistSnapshot(t, [Call("switch", "idle")
                             EXCEPT !.after = "setActiveRead", !.id = id,
                                    !.file = live])
  /\ UNCHANGED <<idb, active, live, timer, applying, booted, hist>>

SetActiveRead(t) ==
  /\ At(t, "setActiveRead")
  /\ IF task[t].id \in index.sessions
     THEN Continue(t, [task[t] EXCEPT !.pc = "setActiveWrite", !.idx = index])
     ELSE Return(t)
  /\ UNCHANGED <<idb, tab, hist>>

SetActiveWrite(t) ==
  /\ At(t, "setActiveWrite")
  /\ index' = [task[t].idx EXCEPT !.active = task[t].id]
  /\ Goto(t, "switchRead")
  /\ UNCHANGED <<snapshot, results, legacy, tab, hist>>

SwitchRead(t) ==
  /\ At(t, "switchRead")
  /\ active' = IF task[t].id \in index.sessions THEN task[t].id ELSE None
  /\ Goto(t, "drop")
  /\ UNCHANGED <<idb, live, wasNonEmpty, timer, applying, booted, warning,
                 hist>>

(* restoreFromActiveSession starts by loading the settings. *)
Restore(t) == Continue(t, Call(task[t].op, "loadSettings"))

SwitchDropped(t) ==
  /\ task[t].op = "switch" /\ At(t, "drop")
  /\ live' = None
  /\ ScheduleSave
  /\ Restore(t)
  /\ UNCHANGED <<idb, active, wasNonEmpty, applying, booted, warning, hist>>

(* Session menu, Rename: a read-modify-write of the index. *)
RenameSession(t) ==
  /\ Clicks(t, "rename")
  /\ Continue(t, Call("rename", "renameRead"))
  /\ UNCHANGED <<idb, tab, hist>>

RenameRead(t) ==
  /\ At(t, "renameRead")
  /\ Continue(t, [task[t] EXCEPT !.pc = "renameWrite", !.idx = index])
  /\ UNCHANGED <<idb, tab, hist>>

RenameWrite(t) ==
  /\ At(t, "renameWrite")
  /\ index' = task[t].idx
  /\ Return(t)
  /\ UNCHANGED <<snapshot, results, legacy, tab, hist>>

(* Session menu, Delete: the handler's own guard, then deleteSession, then *)
(* the next session when the deleted one was on screen.                    *)
DeleteSession(t) ==
  /\ Clicks(t, "delete")
  /\ \E id \in issued :
       Continue(t, [Call("delete", "deleteCheck") EXCEPT !.id = id])
  /\ UNCHANGED <<idb, tab, hist>>

DeleteCheck(t) ==
  /\ At(t, "deleteCheck")
  /\ IF Cardinality(index.sessions) > 1 /\ task[t].id \in index.sessions
     THEN Continue(t, [task[t] EXCEPT !.pc = "deleteRead",
                                      !.was = (active = task[t].id)])
     ELSE Return(t)
  /\ UNCHANGED <<idb, tab, hist>>

DeleteRead(t) ==
  /\ At(t, "deleteRead")
  /\ IF Cardinality(index.sessions) > 1
     THEN Continue(t, [task[t] EXCEPT !.pc = "deleteArtifacts", !.idx = index])
     ELSE Return(t)
  /\ UNCHANGED <<idb, tab, hist>>

(* clearSessionArtifacts attempts every removal and throws when one was    *)
(* rejected: `gone' are the records that were removed.                     *)
ClearSessionArtifacts(t, id, next) ==
  \E gone \in SUBSET {"snapshot", "results"} :
    /\ "fail" \notin Ops => gone = {"snapshot", "results"}
    /\ snapshot' = IF "snapshot" \in gone
                   THEN [snapshot EXCEPT ![id] = None] ELSE snapshot
    /\ results' = IF "results" \in gone
                  THEN [results EXCEPT ![id] = None] ELSE results
    /\ IF gone = {"snapshot", "results"} THEN Goto(t, next) ELSE Return(t)

DeleteArtifacts(t) ==
  /\ At(t, "deleteArtifacts")
  /\ ClearSessionArtifacts(t, task[t].id, "deleteWrite")
  /\ UNCHANGED <<index, legacy, tab, hist>>

DeleteWriteKeepsPointer(t) ==
  \* Mutant: activeId is left alone.
  LET id == task[t].id
  IN  /\ At(t, "deleteWrite")
      /\ index' = [task[t].idx EXCEPT !.sessions = @ \ {id}]
      /\ deleted' = deleted \cup {id}
      /\ IF task[t].was THEN Goto(t, "deleteNext") ELSE Return(t)
      /\ UNCHANGED <<snapshot, results, legacy, tab, rev, unloads, issued,
                     cleared, unrestored>>

DeleteWrite(t) ==
  LET id        == task[t].id
      remaining == task[t].idx.sessions \ {id}
  IN  /\ At(t, "deleteWrite")
      /\ \E head \in remaining :
           index' = [active   |-> IF task[t].idx.active = id
                                  THEN head ELSE task[t].idx.active,
                     sessions |-> remaining]
      /\ deleted' = deleted \cup {id}
      /\ IF task[t].was THEN Goto(t, "deleteNext") ELSE Return(t)
      /\ UNCHANGED <<snapshot, results, legacy, tab, rev, unloads, issued,
                     cleared, unrestored>>

DeleteNext(t) ==
  /\ At(t, "deleteNext")
  /\ IF index.active \in index.sessions
     THEN Continue(t, [task[t] EXCEPT !.pc = "drop", !.sid = index.active])
     ELSE Return(t)
  /\ UNCHANGED <<idb, tab, hist>>

DeleteDropped(t) ==
  /\ task[t].op = "delete" /\ At(t, "drop")
  /\ active' = task[t].sid
  /\ live' = None
  /\ ScheduleSave
  /\ Restore(t)
  /\ UNCHANGED <<idb, wasNonEmpty, applying, booted, warning, hist>>

(* "Start fresh": clear every record of the active session, reload. *)
StartFresh(t) ==
  /\ Clicks(t, "fresh")
  /\ active # None
  /\ Continue(t, [Call("fresh", "freshRead") EXCEPT !.id = active])
  /\ UNCHANGED <<idb, tab, hist>>

FreshRead(t) ==
  /\ At(t, "freshRead")
  /\ Goto(t, "freshArtifacts")
  /\ UNCHANGED <<idb, tab, hist>>

FreshArtifacts(t) ==
  /\ At(t, "freshArtifacts")
  /\ ClearSessionArtifacts(t, task[t].id, "reload")
  /\ UNCHANGED <<index, legacy, tab, hist>>

(***************************************************************************)
(* restoreFromActiveSession and applyLoadedFile.                           *)
(***************************************************************************)

(* It then reads the active id and asks for its snapshot; without an       *)
(* active session it throws, which is caught.                              *)
LoadSettings(t) ==
  /\ At(t, "loadSettings")
  /\ IF active # None
     THEN /\ Continue(t, [Call(task[t].op, "readSnapshot") EXCEPT !.sid = active])
          /\ booted' = booted
     ELSE Return(t) /\ booted' = (booted \/ task[t].op = "boot")
  /\ UNCHANGED <<idb, active, live, wasNonEmpty, timer, applying, warning,
                 hist>>

ReadSnapshot(t) ==
  LET found == snapshot[task[t].sid]
      boots == task[t].op = "boot"
  IN  /\ At(t, "readSnapshot")
      /\ IF found = None
         THEN Return(t) /\ booted' = (booted \/ boots)
         ELSE /\ Continue(t, [task[t] EXCEPT !.pc = "applyWait", !.file = found])
              /\ booted' = booted
      /\ UNCHANGED <<idb, active, live, wasNonEmpty, timer, applying, warning,
                     hist>>

(* Open file, or a shared link: not silent. *)
OpenFile(t) ==
  /\ Clicks(t, "open")
  /\ rev < MaxRev
  /\ rev' = rev + 1
  /\ Continue(t, [Call("open", "applyWait") EXCEPT !.file = Work({}, rev + 1)])
  /\ UNCHANGED <<idb, tab, unloads, issued, deleted, cleared, unrestored>>

(* The chain serialises the calls, the save that ends an explicit one      *)
(* included; the pending save is cancelled and auto-save suspended.        *)
ApplyStart(t) ==
  /\ At(t, "applyWait")
  /\ applying = None
  /\ \A x \in Tasks : task[x].op = "open" => task[x].pc = "applyWait"
  /\ applying' = t
  /\ timer' = FALSE
  /\ Goto(t, "applyDrop")
  /\ UNCHANGED <<idb, active, live, wasNonEmpty, booted, warning, hist>>

(* The sources are cleared; the cells stay until the file's replace them,  *)
(* and count as gone here.                                                 *)
ApplyDropped(t) ==
  /\ At(t, "applyDrop")
  /\ live' = None
  /\ Goto(t, "applyMount")
  /\ UNCHANGED <<idb, active, wasNonEmpty, timer, applying, booted, warning,
                 hist>>

(* A file is brought back as a whole, but for the sources that have to be  *)
(* reconnected, or not at all.  Sources that were mounted meanwhile stay   *)
(* beside it; cells that were edited meanwhile are replaced.               *)
BroughtBack(c) == IF "reconnect" \in Ops THEN {c, Part(c), None} ELSE {c}

Joined(c) ==
  IF live = None THEN {c}
  ELSE {c, IF c = None THEN live
           ELSE [c EXCEPT !.owners = @ \cup live.owners, !.rev = live.rev]}

(* A silent apply is followed by hydrateResultSnapshots of the session     *)
(* that is active then; an explicit one by persistSnapshot.                *)
ApplyRestored(t) ==
  /\ At(t, "applyMount") /\ task[t].op # "open"
  /\ \E c \in BroughtBack(task[t].file) :
       live' \in Joined(c) /\ wasNonEmpty' = (c # None)
  /\ unrestored' = (live' = None)
  /\ applying' = None
  /\ IF active # None
     THEN /\ Continue(t, [Call(task[t].op, "readResults") EXCEPT !.sid = active])
          /\ booted' = booted
     ELSE Return(t) /\ booted' = (booted \/ task[t].op = "boot")
  /\ UNCHANGED <<idb, active, timer, warning, rev, unloads, issued, deleted,
                 cleared>>

ApplyOpenedUnsaved(t) ==
  \* Mutant: an opened file is not persisted.
  /\ At(t, "applyMount") /\ task[t].op = "open"
  /\ \E c \in BroughtBack([task[t].file EXCEPT !.owners = Here]) :
       live' \in Joined(c) /\ wasNonEmpty' = (c # None)
  /\ unrestored' = (live' = None)
  /\ applying' = None
  /\ Return(t)
  /\ UNCHANGED <<idb, active, timer, booted, warning, rev, unloads, issued, deleted,
                 cleared>>

ApplyOpened(t) ==
  /\ At(t, "applyMount") /\ task[t].op = "open"
  /\ \E c \in BroughtBack([task[t].file EXCEPT !.owners = Here]) :
       live' \in Joined(c)
  /\ wasNonEmpty' = (live' # None)
  /\ unrestored' = (live' = None)
  /\ applying' = None
  /\ IF live' # None /\ active # None
     THEN Continue(t, [Call("open", "putSnapshot")
                         EXCEPT !.sid = active, !.file = live'])
     ELSE Return(t)
  /\ warning' = (warning \/ (live' # None /\ active = None))
  /\ UNCHANGED <<idb, active, timer, booted, rev, unloads, issued, deleted,
                 cleared>>

(* A chunk of code that applyLoadedFile or dropCurrentWorkspaceArtifacts   *)
(* imports cannot be loaded: the caller gives up where it is.  A pending   *)
(* save that the apply has cancelled stays cancelled.                      *)
LoadFails(t) ==
  /\ "fail" \in Ops
  /\ \E pc \in Loading \cup {"drop"} : At(t, pc)
  /\ applying' = IF applying = t THEN None ELSE applying
  /\ booted' = (booted \/ task[t].op = "boot")
  /\ Return(t)
  /\ UNCHANGED <<idb, active, live, wasNonEmpty, timer, warning, hist>>

(* Rows are merged into the cells they belong to, which reloads the        *)
(* notebook when there is such a cell.                                     *)
ReadResults(t) ==
  /\ At(t, "readResults")
  /\ \E merged \in BOOLEAN :
       /\ merged => live # None /\ results[task[t].sid] # None
       /\ timer' = (timer \/ (merged /\ booted /\ applying = None))
  /\ booted' = (booted \/ task[t].op = "boot")
  /\ Return(t)
  /\ UNCHANGED <<idb, active, live, wasNonEmpty, applying, warning, hist>>

(***************************************************************************)
(* Boot and unload.                                                        *)
(***************************************************************************)

(* ensureActiveSession.  A stale activeId falls back to a listed session.  *)
BootRead(t) ==
  /\ At(t, "bootRead")
  /\ cleared' = None
  /\ IF index.sessions = {}
     THEN Goto(t, "bootLegacy") /\ active' = active
     ELSE IF index.active \in index.sessions
     THEN Restore(t) /\ active' = index.active
     ELSE /\ active' = active
          /\ \E first \in index.sessions :
               Continue(t, [task[t] EXCEPT
                              !.pc = "bootWrite", !.id = first,
                              !.idx = [index EXCEPT !.active = first]])
  /\ UNCHANGED <<idb, live, wasNonEmpty, timer, applying, booted, warning,
                 rev, unloads, issued, deleted, unrestored>>

BootLegacy(t) ==
  /\ At(t, "bootLegacy")
  /\ \E id \in SessionIds \ issued :
       /\ issued' = issued \cup {id}
       /\ Continue(t, [task[t] EXCEPT
                         !.pc = IF legacy THEN "bootPut" ELSE "bootWrite",
                         !.id = id,
                         !.idx = [active |-> id, sessions |-> {id}]])
  /\ UNCHANGED <<idb, tab, rev, unloads, deleted, cleared, unrestored>>

BootPut(t) ==
  /\ At(t, "bootPut")
  /\ snapshot' = [snapshot EXCEPT ![task[t].id] =
                    Work({task[t].id}, 0)]
  /\ Goto(t, "bootForget")
  /\ UNCHANGED <<index, results, legacy, tab, hist>>

BootForget(t) ==
  /\ At(t, "bootForget")
  /\ legacy' = FALSE
  /\ Goto(t, "bootWrite")
  /\ UNCHANGED <<index, snapshot, results, tab, hist>>

BootWrite(t) ==
  /\ At(t, "bootWrite")
  /\ index' = task[t].idx
  /\ active' = task[t].id
  /\ Restore(t)
  /\ UNCHANGED <<snapshot, results, legacy, live, wasNonEmpty, timer, applying,
                 booted, warning, hist>>

Booting(t) == [x \in Tasks |-> IF x = t THEN Call("boot", "bootRead")
                                         ELSE IdleTask]

(* The tab is closed, crashes or reloads, and is opened again: everything  *)
(* but IndexedDB is lost, requests that have not been served included.     *)
Unload(t) ==
  /\ unloads < MaxUnloads
  /\ "unload" \in Ops \/ \E h \in Handlers : task[h].pc = "reload"
  /\ unloads' = unloads + 1
  /\ cleared' = IF \E h \in Handlers : task[h].pc = "reload"
                THEN task[CHOOSE h \in Handlers : task[h].pc = "reload"].id
                ELSE None
  /\ active' = None /\ live' = None
  /\ wasNonEmpty' = FALSE /\ timer' = FALSE /\ applying' = None
  /\ booted' = FALSE /\ warning' = FALSE /\ unrestored' = FALSE
  /\ task' = Booting(t)
  /\ queue' = <<t>>
  /\ UNCHANGED <<idb, rev, issued, deleted>>

(***************************************************************************)
(* The specification.                                                      *)
(***************************************************************************)

(* What earlier visits left in IndexedDB: either sessions with their       *)
(* snapshots, or nothing but, perhaps, the single snapshot of an old       *)
(* version.                                                                *)
Init ==
  /\ legacy \in IF StartSessions = {} THEN BOOLEAN ELSE {FALSE}
  /\ \E a \in IF StartSessions = {} THEN {None} ELSE StartSessions :
       index = [active |-> a, sessions |-> StartSessions]
  /\ snapshot = [s \in SessionIds |->
                   IF s \in StartSessions
                   THEN Work({s}, 0) ELSE None]
  /\ results = snapshot
  /\ active = None /\ live = None
  /\ wasNonEmpty = FALSE /\ timer = FALSE /\ applying = None
  /\ booted = FALSE /\ warning = FALSE
  /\ \E t \in Handlers : task = Booting(t) /\ queue = <<t>>
  /\ rev = 0 /\ unloads = 0
  /\ issued = StartSessions /\ deleted = {}
  /\ cleared = None /\ unrestored = FALSE

PersistStep(t) ==
  \/ PutSnapshot(t) \/ SaveReadIndex(t) \/ SaveWriteIndex(t) \/ PutResults(t)
  \/ ClearSnapshot(t) \/ ClearResults(t) \/ PersistFails(t)

HandlerStep(t) ==
  \/ NewDropped(t) \/ CreateRead(t) \/ CreateWrite(t)
  \/ SetActiveRead(t) \/ SetActiveWrite(t) \/ SwitchRead(t) \/ SwitchDropped(t)
  \/ RenameRead(t) \/ RenameWrite(t)
  \/ DeleteCheck(t) \/ DeleteRead(t) \/ DeleteArtifacts(t) \/ DeleteWrite(t)
  \/ DeleteNext(t) \/ DeleteDropped(t)
  \/ FreshRead(t) \/ FreshArtifacts(t)

RestoreStep(t) ==
  \/ LoadSettings(t) \/ ReadSnapshot(t) \/ ApplyStart(t) \/ ApplyDropped(t)
  \/ ApplyRestored(t) \/ ApplyOpened(t) \/ LoadFails(t) \/ ReadResults(t)

BootStep(t) ==
  \/ BootRead(t) \/ BootLegacy(t) \/ BootPut(t) \/ BootForget(t) \/ BootWrite(t)

UserStep(t) ==
  \/ NewSession(t) \/ SwitchSession(t) \/ RenameSession(t) \/ DeleteSession(t)
  \/ StartFresh(t) \/ OpenFile(t)

(* A function that has been called goes on. *)
Progress(t) == PersistStep(t) \/ HandlerStep(t) \/ RestoreStep(t) \/ BootStep(t)

Next ==
  \/ \E t \in Tasks : Progress(t)
  \/ \E t \in Savers : TimerFires(t) \/ PageHide(t)
  \/ \E t \in Handlers : UserStep(t) \/ Unload(t)
  \/ Edit \/ RemoveAll

Spec == Init /\ [][Next]_vars

(* The event loop runs every callback: a served request, a settled promise *)
(* and an expired timer are eventually handled.  Nothing is assumed of the *)
(* user.                                                                   *)
Fairness ==
  /\ \A t \in Tasks : WF_vars(Progress(t))
  /\ WF_vars(\E t \in Savers : TimerFires(t))

FairSpec == Spec /\ Fairness

(***************************************************************************)
(* Properties.                                                             *)
(***************************************************************************)

(* The index always names an active session that it lists, and is never    *)
(* empty once a boot has finished: whatever stale copy a handler or a save *)
(* writes back, getActiveSessionId() of the next boot finds a session.     *)
IndexConsistent ==
  /\ index.sessions # {} => index.active \in index.sessions
  /\ booted => index.sessions # {}

(* Each session has its own snapshot: what is stored for a session is work *)
(* that was made in that session.                                          *)
OwnSnapshotOnly ==
  \A s \in SessionIds : snapshot[s] # None => snapshot[s].owners \subseteq {s}

Quiet == booted /\ ~timer /\ \A t \in Tasks : task[t].pc = "idle"

(* The record c stores the workspace on screen: it is that workspace, or   *)
(* the one that was restored but for what has to be reconnected.  What is  *)
(* on screen counts as content, so that removing it all will be stored     *)
(* too; an empty screen is stored as empty, unless nothing of the record   *)
(* could be brought back.                                                  *)
Stores(c) ==
  IF live = None
  THEN c = None \/ (unrestored /\ ~wasNonEmpty)
  ELSE wasNonEmpty /\ c # None /\ live \in {c, Part(c)}

(* Auto-save writes everything: when nothing is pending and no storage     *)
(* warning is shown, the snapshot of the active session stores the         *)
(* workspace on screen, an emptied one included.  It takes that no write   *)
(* is rejected while an older save is in flight (Sessions_warning.cfg) and *)
(* that the user waits for the boot to end (Sessions_early.cfg).           *)
DurableWhenQuiet == Quiet /\ ~warning => Stores(snapshot[active])

(* Once edits stop, the workspace on screen reaches IndexedDB for good.    *)
EventuallyDurable == <>[](booted /\ Stores(snapshot[active]))

(* When a switch moves the pointer, the snapshot of the session it leaves  *)
(* is at least as new as the workspace at the click (or was emptied since),*)
(* unless the flush was rejected, or no session was active, which the user *)
(* has been told.                                                          *)
OutgoingFlushed ==
  \A t \in Handlers :
    /\ task[t].op = "switch"
    /\ task[t].pc \in {"setActiveRead", "setActiveWrite", "switchRead"}
    /\ task[t].file # None /\ active # None
    => \/ snapshot[active] = None
       \/ snapshot[active].rev >= task[t].file.rev

(* A snapshot that is being restored is not deleted meanwhile: no save of  *)
(* the empty workspace races the restore.                                  *)
RestoreNotRaced ==
  \A t \in Handlers :
    /\ task[t].op \in {"boot", "switch", "delete"}
    /\ task[t].pc \in {"applyWait", "applyDrop", "applyMount"}
    => snapshot[task[t].sid] # None

(* No save writes a workspace whose measures, selections, associations,    *)
(* dimensions and segments have been emptied under it.                     *)
StoresSaved ==
  \A s \in SessionIds : snapshot[s] # None => snapshot[s].stores

(* A session the user was told is deleted leaves no snapshot behind.       *)
DeletedLeavesNothing == \A s \in deleted : snapshot[s] = None

(* The reload of Start fresh finds no snapshot of the session it cleared.  *)
StartFreshIsClean == cleared # None => snapshot[cleared] = None

(* Every stored snapshot belongs to a listed session once the tab has      *)
(* booted: an adopted legacy snapshot can be reached.                      *)
NoOrphanSnapshot ==
  booted => \A s \in SessionIds : snapshot[s] # None => s \in index.sessions

(* The full list of sessions is in the index: the one on screen is there.  *)
ActiveSessionListed == booted /\ active # None => active \in index.sessions
=============================================================================
