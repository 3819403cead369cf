# NakliData in TLA+

NakliData is a data workbench that runs in one browser tab: DuckDB-WASM behind
a notebook of SQL and other cells, sources mounted from files, folders, URLs
and warehouses, sessions kept in IndexedDB, and an interface through which an
agent in the page may read and propose. A small bridge server stands between
it and warehouses. What is hard in it is *interleaving* more than parallelism: every `await` lets
another click, timer, message or unload run, and almost every handler reads
shared state before an `await` and uses it afterwards.

This directory models that. Line numbers below are those of the repository's
files; paths omit the leading `src/`.

## 1. Inventory

The last column says where a component is modelled; a dash means it is not
(section 6 says why).

| Component | State it keeps | Operations | Hard behaviour | Correct when | Module |
|---|---|---|---|---|---|
| **Workspace sessions and auto-save** (`core/sessions.ts`, `core/idb.ts`, `core/result-snapshots.ts`, `main.ts`) | IDB: `sessions/index`, `sessions/<id>/snapshot`, `result-snapshots/<id>`, the legacy `workbook/current`; tab: `_activeSession`, `_sessionWasNonEmpty`, the auto-save timer, suspension while a file is applied | boot, debounced save, save on `pagehide`, New, Switch, Rename, Delete, Open file, Start fresh | read-modify-write of the index across awaits; two saves in flight; a save between two steps of a handler; crash between requests; rejected requests | the index names a listed session; a snapshot belongs to its session; work reaches IDB and is not overwritten by older work | `WorkspaceSessions` |
| **Engine** (`core/engine.ts`) | the one connection, the recovery in progress, which relation owns which registered file | boot, `query`, `exec`, cancel and reconnect, atomic swap of relations, file registration | all callers share one connection and its transaction; cancellation closes it | one open connection, usable after any cancellation; a swap is all or nothing | `EngineConnection`; files in `Mounts` |
| **Source change detection and refresh** (`core/refresh-*.ts`, `main.ts`) | baselines (fingerprints) per session in IDB, the sweep and its modal, a confirmed refresh | check, confirm, stage, swap, publish, rerun dependents, store baseline | the world changes meanwhile; a cell fails half way; the user reruns a cell or leaves the session | no result is older than a baseline that says it is current; metadata describe the relations | `SourceRefresh` |
| **Agent access** (`core/agent/session.ts`, `core/agent/registry-v3.ts`, `lazy/agent-surface.ts`, `ui/agent-bridge.ts`) | grants, in-flight requests with abort controllers and deadlines, activity ledger, workspace epoch | grant, withdraw, revoke all, invoke, record, reset | the workspace is replaced, a grant withdrawn or a deadline passed while a tool runs | nothing goes on without its grant; nothing is answered for a workspace that is gone | `AgentSession` |
| **Notebook graph** (`ui/notebook-graph.ts`) | none: functions of the cells | static check of a cell, order of Run all, of a brush, of a report | names that occur twice, cycles, introspection cells without a view, cells that have rows but no view | no cell runs that reaches a cycle; every order respects the references | `NotebookGraph` |
| **Notebook runs** (`ui/notebook.ts`) | cells, run generations, abort controllers, `lastResult`, batches, lineage recordings | run, run all, brush, edit, Escape, delete, leave | an older run that settles last; a drop racing a CREATE; a batch the user edits under | rows, relations, controllers and lineage agree; everything ends | `NotebookRuns` |
| **Python, R** (`lazy/pyodide-runtime.ts`, `lazy/webr-runtime.ts`) | an external interpreter | lease, export, run, register the result | a run cancelled while it registers its result | as for SQL cells | `NotebookRuns` |
| **Workbook** (`core/workbook.ts`) | sources, assignments, user types, override rules; subscribers | add, replace, remove, assign | every notification schedules a save | auto-save sees every change | in `WorkspaceSessions`, `SourceRefresh`, `Classification`, `Mounts` |
| **Lineage** (`core/lineage*.ts`) | inputs of every cell, manual edits | extract, record, cascade | recorded after the run, not by it | the cascade reaches every dependent | in `SourceRefresh`, `NotebookRuns` |
| **Taxonomy client and worker** (`taxonomy/client.ts`, `workers/taxonomy.worker.ts`) | worker, boot promise, pending requests, user types | ensureReady, classify, sync of user types | one late answer fails the worker and all pending requests; the worker that replaces it | one worker serves; answers know the user types; nobody waits for ever | `TaxonomyClient` |
| **Classification loops** (`main.ts`, `core/workbook.ts`) | assignments, override rules | the loop of a mount, Re-classify, accept, override, new type | a table's assignments are replaced when its last column is answered; the user acts meanwhile | rules reach every column; loops end | `Classification` |
| **Warehouse adapters, bridge client, compute-bridge server** (`core/bridge/*`, `lazy/bridge-client.ts`, `packages/compute-bridge`) | the statement at the warehouse, poll counters, deadlines | submit, poll, collect, cancel until terminal; mount of a catalog | cancellation racing the result; a client that gives up while the server works; lost answers | a statement is terminal before it is reported; only finished work is mounted | `WarehouseBridge`, `RemoteQuery` |
| **Mount and handles** (`core/mount.ts`, `core/handles.ts`) | reserved names, registered files and their owners, relations, handles | mount file / URL / folder / database / S3 / bridge catalog / Iceberg table, remove, mount again | failure between any two steps; identities of tables that come back | a failed mount leaves nothing; a table reads the file it came from | `Mounts` |
| **Iceberg REST and vended credentials** (`lazy/iceberg-rest-client.ts`, `lazy/iceberg/*`) | lease, session per source, DuckDB secrets | load, apply, revoke | a failed change leaves the shared transaction open; names shared between sources | a source has its credentials and nobody else's are touched | in `Mounts` |
| **Source secrets, BYOK** (`core/secrets`, `core/sidecar/byok.ts`) | a value in IDB or in session storage | save, load, forget | two stores, remove before write | one copy; a failed save loses nothing | - |
| **Sidecar, local model** (`core/sidecar/*`) | model files in a cache, the loaded runtime | probe, download, load, ask | partial downloads, concurrent loads | one runtime; only complete files are used | - |
| **Semantic layer** (`core/measures*.ts`, dimensions, segments, selections, associations) | small stores | add, edit, expand into SQL | emptied by a session operation before the save | what is saved is what was defined | one flag in `WorkspaceSessions` |
| **File format and sharing** (`core/persistence.ts`, `core/url-state.ts`) | none | encode, decode, validate | - | decode of encode is the identity | - |
| **Settings** (`core/settings.ts`) | one record | load, save | two read-modify-writers | no lost update | - |
| **Lazy chunks** (`core/lazy-loader.ts`) | a promise per chunk | load | rejected load | a failed load can be repeated | - |
| **Graph metrics and facets, cleaning, quality, resolve, standards** | none or a worker round trip | pure computation | - | agreement with a reference definition | - |
| **User interface** (`ui/*`, `charts/*`) | DOM | rendering | - | - | - |

How they meet:

- `main.ts` owns the handlers. They call `sessions.ts`, which calls `idb.ts`;
  every IDB request is a transaction of its own.
- The workbook and the notebook notify `scheduleSave` (main.ts) of every
  change; a timer later calls `persistSnapshot`, and so do New, Switch, an
  opened file and `pagehide`.
- The notebook runs a cell on the engine (`exec` for the view, then a
  cancellable `query`) and records lineage afterwards. Run all and a brush run
  cells in the order the graph functions give.
- A refresh reads the lineage, swaps relations in the engine, replaces the
  workbook's sources, reruns cells through the notebook, and stores baselines
  in IDB.
- A mount reserves names, registers files and creates relations in the engine,
  then adds the source to the workbook; a loop then asks the taxonomy worker
  for the type of each column and writes the assignments.
- A bridge catalog is mounted table by table: the browser's client asks the
  bridge server, which runs a statement at the warehouse.
- The agent surface is a lazy chunk. It reads workbook, notebook and engine
  and adds proposals to the notebook; `main.ts` calls `resetAgentAccess`
  whenever it replaces the workspace or the engine fails.

`PROJECT.json` lists the hazards that follow, each at its line.

## 2. Modules

| Module | Models | Kind |
|---|---|---|
| `WorkspaceSessions`, `MCWorkspaceSessions` | sessions, auto-save, boot, unload | specification, symmetry and a bound |
| `EngineConnection`, `MCEngineConnection` | connection, cancellation, swap | specification, instances |
| `SourceRefresh`, `MCSourceRefresh` | check, refresh, cell runs, lineage | specification, instances |
| `AgentSession` | grants, requests, ledger, workspace epoch | specification |
| `NotebookGraph`, `MCNotebookGraph` | static check and orders | operators against reference definitions, instances |
| `NotebookRuns`, `MCNotebookRuns` | runs, batches, drops, lineage recordings over DuckDB's worker; uses `NotebookGraph` through INSTANCE | specification, instances |
| `TaxonomyClient` | the taxonomy client and its worker | specification of a component |
| `Classification` | extends `TaxonomyClient` with the loops, the user and the workbook | composition |
| `RemoteQuery` | what a table read through the bridge promises | abstract specification |
| `WarehouseBridge` | browser, bridge server, adapters, warehouse | specification, shown to implement `RemoteQuery` |
| `Mounts` | mounting, removal, reopening, vended credentials | specification |
| `WorkspaceSessions_proofs`, `EngineConnection_proofs`, `AgentSession_proofs`, `SourceRefresh_proofs`, `WarehouseBridge_proofs`, `Classification_proofs`, `Mounts_proofs`, `Notebook_proofs` | section 5 | proofs |

Definitions whose comment begins with "Mutant:" are variants of an action with
one plausible bug in it. No specification uses them; each shows that some
property fails when the code has that bug.

### WorkspaceSessions

An async function is a *task*. `task[t].pc` is the `await` it is at, the other
fields are its local variables: `idx` is the copy of the index that it has
read and will write back, `sid` the session id it captured, `file` the
workspace it has serialised or read. Handlers run one click each, savers one
`persistSnapshot` each. One step is the completion of a request together with
all the JavaScript up to the next `await`, which is how the event loop runs it.

IndexedDB serves the requests of one tab on one store in the order they were
made: `queue`. Awaits that are not IDB requests (dropping DuckDB relations,
loading a chunk, mounting) complete at any time. `Unload` forgets the tab and
the queue but not the stored records, at any program point.

The workspace is a record: the sessions its work was made in (`owners`), how
new it is (`rev`), whether the semantic stores still hold its definitions
(`stores`), and whether it is `whole`. That is what the properties tell apart.

*Before the boot has ended.* `wireActions` (main.ts:299) precedes everything
that is restored, the session menu is drawn at 468, the restore awaited at 509,
"Start fresh" offered at 518, and the subscribers of auto-save installed at
546. With "early" in `Ops` the user does not wait (`HandsOn`): an edit and Open
file are possible at any moment, the handlers of the session menu as soon as
`ensureActiveSession` is done (`Clicks`). `booted` means that 546 has been
reached: only then is a change scheduled (`ScheduleSave`).

*Restores.* `applyLoadedFile` calls are served one after the other
(`ApplyStart`). An apply drops what is on screen, and what it brings back is
the file, a part of it without the sources that must be reconnected, or, when
nothing is left, nothing (`BroughtBack`, with "reconnect" in `Ops`); sources
mounted meanwhile stay beside it, cells edited meanwhile are replaced
(`Joined`). `_sessionWasNonEmpty` is set from what was brought back. So what
`Stores` asks of a stored record is that it is the workspace on screen, or the
one the screen was restored from in part; the save after the next edit writes
what is on screen, and the sources that were left out are gone from the record
(section 4). A chunk that cannot be loaded ends the apply or the handler where
it is (`LoadFails`), with the pending save cancelled.

| Code | Actions |
|---|---|
| `persistSnapshot`, main.ts; `saveSnapshot`, sessions.ts | `PersistSnapshot`, `PutSnapshot`, `SaveReadIndex`, `SaveWriteIndex`, `PutResults`, `ClearSnapshot`, `ClearResults`, `PersistFails` |
| `installAutoSave` | `ScheduleSave`, `TimerFires`, `PageHide` |
| `session-new`, `createSession` | `NewSession`, `NewDropped`, `CreateRead`, `CreateWrite` |
| `switchToSession`, `setActiveSession` | `SwitchSession`, `SetActiveRead`, `SetActiveWrite`, `SwitchRead`, `SwitchDropped` |
| `session-rename`, `renameSession` | `RenameSession`, `RenameRead`, `RenameWrite` |
| `session-delete`, `deleteSession`, `clearSessionArtifacts` | `DeleteSession` ... `DeleteDropped` |
| start fresh | `StartFresh`, `FreshRead`, `FreshArtifacts`, then `Unload` |
| `restoreFromActiveSession`, `applyLoadedFile` | `LoadSettings`, `ReadSnapshot`, `ApplyStart`, `ApplyDropped`, `ApplyRestored`, `ApplyOpened`, `LoadFails`, `ReadResults` |
| `ensureActiveSession` | `BootRead`, `BootLegacy`, `BootPut`, `BootForget`, `BootWrite` |

### EngineConnection

Runs are calls of `runCell`, swaps calls of `replaceRelationsAtomically`. The
database is external: a set of open connections, the committed relations, and
one transaction per connection. The DuckDB worker handles messages in order, so
a statement takes effect in the step that posts it, and its caller resumes in a
later step. The point of the module is that `exec` and `query` use
`Engine.conn` *at the moment of the call*: two statements of one swap may go to
two connections. Used of DuckDB: a statement on a closed connection is
rejected; closing rolls back; a rejected statement may doom its transaction.

### SourceRefresh

The content of a source is a version that only grows, and a fingerprint tells
versions apart. `ext` is the version outside, `rel` the one DuckDB holds,
`published` the one the workbook describes, `baseline` the one recorded,
`result[c]` those that the rows of cell `c` were computed from. A sweep
(`check`) compares source by source while sources change, then loads and saves
baselines in two requests; a refresh (`apply`) stages source by source, swaps
in one step (`EngineConnection` opens that step up), publishes, reruns the
affected cells in topological order, and stores the baseline the *check* saw.
`Reached` is the staleness cascade, defined as a least fixpoint.

### AgentSession

Everything in `AgentSession` is synchronous, so an operation is one action; the
interleavings are between an invocation's dispatch, what its tool reads, the
cell it proposes, and its answer (`Begin`, `Read`, `Propose`, `Finish`) on one
side, and grants, deadlines and the shell on the other. `ResetAgentAccess`
moves the epoch and syncs the session in one step, as `resetAgentAccess` does.
`NewSession` and `SessionCreated` are apart because the code awaits
`createSession` between them. `began`, `read`, `ended` and `grantedIn` are
history: they record which workspace was on screen when something happened.

### NotebookGraph and NotebookRuns

`NotebookGraph` has `detectRefIssue`, `topoOrder`, the brush order and the
report order as functions of a sequence of cells, in the code's own recursion
(depth first, first cell of a name wins), and beside them the definitions they
should agree with, by closure (`Upstream`). The recursion is that of recursive
functions (`Search`, `Visits`): what a call is given besides the notebook - the
path above it, the cells still to be looked at, what is done with - is the
argument. The code keeps the path and the explored cells by name; a name stands
for the cell it finds. A cell without a name finds none (`Itself`). The one
action appends a cell, so that the states are all notebooks up to a length.

In `NotebookRuns` everything that awaits is a *job*: a run, a drop, a lineage
recording, a session being left. A job has one statement at DuckDB's worker at
a time, and the worker answers in the order of posting. A view is its code,
the selection it was made with and the cells its SQL names (`reads`); rows are
the set of the relations they were computed from: a view is read when it is
selected from, and that decides whether a cell shows something stale. What a
language cell's table was computed from is left out; which run made it is not.
The user types, runs, runs all, brushes, presses Escape, deletes and leaves at
any moment. Run all and brushes take
their orders from `NotebookGraph`.

### TaxonomyClient and Classification

The page's client and the worker are two threads with ordered messages between
them. A caller awaits one promise at a time; continuations of settled promises
run before the next event (`Quiet`). A worker hangs, breaks while it boots or
classifies, or is late; each such fault counts against `MaxFaults`.
`Classification` adds the loops that use the client (a loop per mount, one per
press of Re-classify), what the user does to columns meanwhile, and the
workbook. It asks of the client only what the client's own actions allow; the
proof `ClientServes` says so.

### RemoteQuery and WarehouseBridge

`RemoteQuery` is what a user of a table expects: a query is asked at most once,
work is done for asked queries only, rows come from finished work, and an
error says nothing of the work. `WarehouseBridge` has the browser's mount of
one table after the other, the server's handler with its deadline, the two
adapters with submit, poll, collect and cancel, each vendor request with its
headers and its body, and the statement at the warehouse, which may start late
or never and may run for ever. A request whose client gave up goes on at the
server beside the next one.

### Mounts

Seven kinds of sources, one handler per source, one step per await. A *book* is
a file with several tables: a DuckDB or SQLite database or an Excel workbook,
mounted by itself or as one of a folder's files (`Books`). When one of its
relations cannot be created, those before it are dropped again, except that the
sheets of an Excel workbook stay (engine.ts:1016-1024); when one cannot be
counted, that one is dropped, and the others stay in no source's tables, also
where a folder goes on without the file (mount.ts:579-586). `Leftover` names
these relations. What is kept apart is the reserved name, the registered file, the relation, and the
identity of the table: which of them exist when a step fails, who drops them,
and what a source that is mounted again takes over from its snapshot. All
files prefer the same name, the case the allocator is for. Reopening is a
switch to another session and back.

An Iceberg table's credentials become a DuckDB secret before its name is
reserved. A change of secrets is one batch in a transaction; a batch that
fails leaves the transaction open (`aborted`) until the ROLLBACK that follows,
and then its cleanup drops the names it would have created. A session per
source revokes them when the mount fails later, at removal, and when the
workspace is dropped. `Named(s)` are the sources whose secrets have the names
of those of `s`: itself, and every source that shares one of the sets in
`Providers` with it.

## 3. Runs

| Run | Question | Instance | Distinct states |
|---|---|---|---|
| `Sessions_autosave` | does work reach IndexedDB, and in its own session, under overlapping saves, New, Open, hide, reload? | 1 handler, 2 savers, 2 sessions, 2 edits, 1 unload, partial restores | 1.8 million |
| `Sessions_lifecycle` | does the index survive every operation, a crash at any request and rejected requests, and is the outgoing session stored before the pointer moves? | 1 handler, 1 saver, 2 ids, nothing or a legacy snapshot stored, 1 edit, clicks during the boot, 1 unload, then a boot | 3.9 million |
| `Engine_shared` | cancellation, swaps, rejected statements and a rejected reconnect on one connection | 2 runs, 2 swaps of one replaced and one removed relation, 3 connections | 584 000 |
| `Agent_access` | grants, deadlines, resets against invocations | 2 invocations, ledger of 1, 1 reset | 474 000 |
| `Refresh_one` | one refresh against the world, the user and a session switch | 2 sources, 2 chained cells, versions 1-2 | 665 000 |
| `Bridge_mount` | deadlines, cancellation and lost answers under a mount; refinement of `RemoteQuery` | 2 tables, both vendors, 1 poll per loop | 309 000 |
| `Classify_columns` | two loops and the user share one worker that breaks | 1 source, 1 Re-classify, 2 columns, 1 fault, 1 change of types | 412 000 |
| `Mounts_sources` | failures at every step of mount, removal and reopening | 2 sources of 7 kinds, 2 files each, the first of a folder a book, 2 reopenings | 332 000 |
| `Notebook_graph` | the graph functions on every small notebook | up to 3 cells, 3 names | 227 000 |
| `Notebook_runs` | reruns, batches, edits, Escape, deletion, leaving | 3 cells in 2 notebooks, 3 user actions, 6 jobs, 2 batches | 282 000 |
| `Sessions_wrong_session`, `Mounts_one_provider` | one property each, which a comment of the code states and the code does not keep (section 4) | small | - |

Why the bounds are enough for the cases meant.

- *Sessions*: the races are between a handler and a save, or between two
  saves; two savers give every order of two overlapping saves, and a third
  would repeat them. Two edits give an older and a newer workspace. Two ids let
  a boot create one, a New another, a switch go between them, and a delete fall
  back on the other. One unload suffices because boot forgets everything the
  tab knew; what it finds is any state of the store. `Sessions_lifecycle`
  explores the boot after the crash and not what the user does next
  (`BootAfterCrash`): a boot ends in states like those of the first visit, and
  `IndexStaysConsistent` is proved for any number of visits. It starts without
  sessions, so the ids are symmetric. `Sessions_autosave` leaves out "early",
  with which its invariants do not hold (section 4); `Sessions_lifecycle`
  includes it.
- *Engine*: two runs can wait for one another's recovery, and three
  connections are the first and a replacement for each. Two swaps interleave
  target by target.
- *Agent*: two invocations share a ledger of one entry and one grant; one reset
  separates an old epoch from a new one.
- *Refresh*: the second cell reads its own source and the first cell, so the
  cascade has a direct and an indirect member; a second version is what makes
  anything stale.
- *Bridge*: two tables are the fewest for a late answer of one beside the next;
  one poll per loop reaches both "still running" and "limit exceeded".
- *Classification*: two loops are pending at once when the worker fails; two
  columns put a user action between the first and the last answer of a table;
  one fault replaces the worker, one change of the user types makes an old one
  distinguishable.
- *Mounts*: two sources compete for a name, two files give "the first worked,
  the second failed"; two reopenings let an identity given at the first be
  taken over at the second. `Overlap = FALSE` keeps a switch from happening
  during a mount, and a change of credentials from happening between another's
  failure and its ROLLBACK: the code allows both, and then `SourceIntact` and
  `NothingLeft` do not hold (section 4).
- *Notebook*: three cells have every shape of a shared input, a chain, a cycle
  and a self reference, three names every duplicate. In `Notebook_runs` a cell
  and the cell it reads, or a language cell and its input, suffice to be stale;
  three actions of the user are a run, what disturbs it, and one more.

Deadlock is not an error where the counters are bounded and the user may stop:
such a state is one in which everything has ended. That it does end is checked
as liveness. `Agent_access` and `Bridge_mount` check deadlock.

Properties, by module:

- `WorkspaceSessions`. `IndexConsistent`: the pointer names a listed session,
  although every writer writes back an old copy. `OwnSnapshotOnly`: no session
  holds another one's work. It holds without Switch and fails with it.
  `DurableWhenQuiet`: with no timer, no task and no warning, the record stores
  the workspace on screen (`Stores`), for a user who waits for the boot to end.
  `EventuallyDurable`: it gets there.
  `OutgoingFlushed`: the pointer moves only after the outgoing work is stored,
  or its write was rejected and the user told. (It speaks of a session that is
  left; a switch from the state without one leaves nothing.)
- `EngineConnection`. `OneOpenConnection`, `EngineUsable`: no leak, and no
  closed connection is handed out, unless `db.connect()` was rejected - the
  code does not recover from that (engine.ts:367). `NoTransactionLeft`,
  `SwapAtomic`: a swap is all or nothing, *unless the connection is replaced
  under it*. `EngineComesBack`.
- `SourceRefresh`. `NoSilentStale`: if the baseline equals what is outside, so
  that no check would report anything, no cell shows older rows.
  `PublishedMounted`: the metadata agree with the relations. `RefreshEnds`. The
  run starts from recorded baselines and recorded lineage; what happens without
  them is in section 4.
- `AgentSession`. `NoUngrantedWork`, `NoLateProposal`: withdrawal stops work.
  `AnswerOfWorkspace`, `GrantsOfWorkspace`: answers and grants belong to the
  workspace they were made in, except across the await of New session.
  `RequestsEnd`: a tool that hangs does not hold its request open.
- `NotebookGraph`. `IssueFound`: what the static check lets run reaches no
  cycle. `RunAllOrdered`, `BrushCovers`, `ReportCovers`: each order holds what
  it must and respects the references.
- `NotebookRuns`. `RelationOfRows`: other cells read what the cell shows.
  `Cancellable`: Escape finds the latest run. `NoOrphanRelation`: no run
  creates a relation after the drop. `BatchCurrent`: after a Run all that ended
  well and an edit of nothing, a cell's rows are those of what the cells say
  now, provided no cell behind it is blank (blank cells are not run, and their
  old views stay); after a brush, what is behind a cell and unedited has the
  selection of now. `LineageOfRows`: the lineage of a cell is that of its rows.
  `RunsEnd`.
- `TaxonomyClient` and `Classification`. `OneWorker`, `AnswerFresh`: one worker
  serves, and no answer was given with older user types than the question.
  `RuleApplied`: a column with a rule shows no detector's type. `LoopsEnd`.
- `WarehouseBridge`. `NoOrphan`: an adapter leaves no statement running that it
  had a handle of, unless it says so. `MountedSucceeded`. `RequestEnds`,
  `MountEnds`. `ReadsRemotely`: `RemoteQuery` is implemented.
- `Mounts`. `SourceIntact`: every table of a source reads the file it came
  from, and the source has its credentials. `NothingLeft`: what a failed or
  removed source made is gone, secrets included, but for what the code is known
  not to clean up: four kinds of failed sources (`Partial`) and the relations of
  a folder's book (`Leftover`). `NamesReserved`: the allocator offers no name
  that is in use, with the same exception.

**Fairness.** The event loop runs every callback: a served request, a settled
promise and an expired timer are handled in the end. That is weak fairness of
each task's progress, of the auto-save timer, of each run's and swap's answer,
of the sweep and of a refresh, of a request's deadline, of a loop's next step,
of the notebook's jobs and their statements. Threads and networks get only what
the code can count on: the taxonomy worker takes and delivers messages unless
it hangs, and then the timer fires; of the bridge only the clocks and the
steps of the code are fair, not the warehouse, whose statement may run for
ever, nor the network, which may lose an answer's headers. A body that begins
is assumed to arrive (`MayStall = FALSE`), because `fetchWithDeadline` no longer
watches it: section 4. No strong fairness is used: a step that is enabled stays
enabled until it is taken, because a task is at one program point. Nothing is
assumed of the user, of the world outside, or of an agent's tool, which may
hang. A cell run ends because its query is answered or cancelled, never because
somebody cancels it.

## 4. What the code does not keep

Two of these are runs with a counterexample; PROJECT.json quotes the text that
says otherwise.

- `Sessions_wrong_session`: `switchToSession` moves the pointer, then awaits
  the drop of the old relations with the old workspace still on screen
  (main.ts:1001-1006). A save in that window writes it under the new id.
- `Mounts_one_provider`: the secrets of vended credentials are named after the
  provider and a running number, the same for every source. A second S3 table
  fails at CREATE SECRET, and the cleanup of its failure drops the secret of
  the first ("target-owned cleanup", duckdb-vended-credential-target.ts:38).

More configurations with counterexamples are kept for whoever changes this
code; they are not in PROJECT.json and are run by hand:

| Configuration | Property | What happens |
|---|---|---|
| `Sessions_restore_race.cfg` | `RestoreNotRaced` | clearing the workspace during a switch schedules a save; it sees an empty workspace and deletes the snapshot being restored (main.ts:1008-1010, 2255-2258) |
| `Sessions_early.cfg` | `DurableWhenQuiet` | a source mounted or a cell edited while the boot restores is not scheduled, as auto-save is installed after it (main.ts:509, 546): it is on screen, nothing is pending, and it is not stored until the next edit |
| `Sessions_early.cfg`, with `-continue` | `OwnSnapshotOnly` | New clicked during the boot's restore makes the new session active, the restore then puts the old one's work on screen (2577, 3528), and the next save stores it under the new id |
| `Sessions_deleted.cfg` | `DeletedLeavesNothing` | a save in flight writes the snapshot of the deleted session again |
| `Sessions_deleted.cfg`, with `-continue` | `StartFreshIsClean` | a save between the clearing and the reload brings the workspace back |
| `Sessions_legacy_crash.cfg` | `NoOrphanSnapshot` | a crash while a legacy snapshot is adopted leaves it under an id no index names |
| `Sessions_lost_session.cfg` | `ActiveSessionListed` | a save that read the index before New wrote it removes the new session from the list |
| `Sessions_lost_session.cfg`, with `-continue` | `StoresSaved` | a save between the clearing of the stores and of the workspace loses measures and segments |
| `Sessions_warning.cfg` | `DurableWhenQuiet` | a save is rejected and the warning shown; an older save that was in flight then succeeds and takes the warning back ("Local auto-save resumed.", main.ts:2291-2296) although the newest work is not stored |
| `Engine_cancel_in_swap.cfg` | `AllOrNothing` | a cancelled cell closes the connection under a swap; the rest of the swap autocommits on the replacement |
| `Agent_new_answer.cfg` | `NoCrossWorkspaceAnswer` | a request made while New session awaits `createSession` is answered ok after the workspace is replaced |
| `Refresh_first.cfg` | `NoSilentStale` | the first check of a source that changed after it was mounted records the new version as baseline; the old rows are never reported |
| `Refresh_switch.cfg` | `NoForeignRelations` | a refresh confirmed in one session creates its relations in the next one |
| `Refresh_new_cell.cfg` | `NoSilentStale` | a check before a new run's lineage is recorded does not rerun it |
| `Notebook_refused.cfg` | `RefusalStands` | a run that is refused by the static check does not supersede the run in flight, which then replaces the refusal |
| `Notebook_reopened.cfg` | `BrushFindsViews` | a brush in a reopened notebook skips ancestors that have saved rows but no view |
| `Notebook_preview.cfg` | `PreviewHasTable` | a language run cancelled while it registers its result drops the table of the preview that stays on screen |
| `Notebook_deleted_lineage.cfg` | `LineageOfDoc` | a recording under way puts a deleted cell back into the lineage graph |
| `Classify_choice.cfg` | `ChoiceKept` | the loop of a mount replaces what the user chose for a column while it was at work |
| `Classify_removed.cfg` | `RemovedClean` | the loop assigns types to a source that was removed meanwhile |
| `Bridge_submit_abort.cfg` | `CancelledIsTerminal` | a submission aborted before its answer: no handle, so nothing is cancelled, and the statement starts and runs |
| `Bridge_stalled.cfg` | `RequestEnds` | a body that stalls is waited for without a clock |
| `Mounts_identity.cfg` | `IdentityKept` | a file that failed shifts the ids of the later ones; assignments end up at other tables |
| `Mounts_restored_folder.cfg` | `SourceIntact` | a folder that is mounted again takes names from its snapshot that other relations have by now |
| `Mounts_orphan.cfg` | `NoOrphanedRelation` | a database or workbook one of whose relations fails, in a folder too, or a source whose secrets cannot be stored, leaves relations behind when its mount fails |

With `Overlap = TRUE` in `Mounts_sources.cfg` a switch during a mount drops the
file under it (`SourceIntact`), and a revocation between another source's
failed batch and its ROLLBACK is refused and leaves its secret behind
(`NothingLeft`), after the session that could revoke it has been forgotten.
With two refreshes in `Refresh_one.cfg` the older one stores its baseline last
(`NoSilentStale`).

Also met while modelling, without a property:

- the comment at `ui/notebook.ts:565-566` says that Escape interrupts a long
  view definition, but `exec` looks at the signal before and after the
  statement only (engine.ts:1702-1708);
- the comment of `runCellsInOrder` says that cells that vanished are skipped
  (notebook.ts:696), but a cell deleted during a batch stops it;
- `rewriteReferences` prefers an input cell of a name where `viewCellNames`
  takes the first, so with duplicate names the check and the SQL differ; views
  of edited cells that were not rerun can form a cycle `detectRefIssue` cannot
  see;
- a null override sets the origin `unknown`, which Re-classify does not keep;
- an apply that fails on a chunk has cancelled the pending save, and nothing
  schedules it again until the next change (main.ts:3216-3237, 2233);
- a restored folder ignores the new names of its relations
  (main.ts:3304-3316), a partially restored catalog loses its failed tables,
  sources that need a reconnect are gone from the next auto-save, the names of
  a failed mount stay reserved, and removing a file with several tables never
  releases its label;
- two exports within one millisecond share a temporary file name
  (engine.ts:1060).

## 5. Proofs

`tlapm` proves the following for every number of sessions, tasks, invocations,
runs, swaps, tables, sources, files, cells and callers, every set of
operations, and every value of the bounds. Where a theorem has a hypothesis
beyond the assumptions on constants, it excludes what section 4 shows to break
the property, and nothing else that is known; each is named and discussed
below, and the instance of the run that checks the property satisfies it.

**AgentSession_proofs.** `TypeCorrect`, `WithdrawnStops` (`NoUngrantedWork`),
`PanelIsCurrent` (`InFlightExact` and `ActivityOfEpoch`), `ProposalsGranted`
(`NoLateProposal`), `AnswersOfWorkspace` and `GrantsFollowWorkspace`. Two
inductive invariants carry them. `IInv` joins the type invariant and the four
properties of the session with `OldAborted`: a request of an earlier epoch that
is still working is aborted. Without it `NoUngrantedWork` is not inductive - a
reset clears the grants, and only the abort keeps older requests from resuming
under a grant given afterwards. `WInv` adds `Coherent`: a working request of
the current epoch, unless it began while a session was being created, began in
the workspace on screen and has read no other. That is why the epoch can be
compared in place of the workspace - and the exception is exactly the finding
`Agent_new_answer`.

**WorkspaceSessions_proofs.** `TypeCorrect`, and `IndexStaysConsistent`
(`IndexConsistent`). The property is far from inductive: each writer writes
back a copy of the index it read several requests ago, and meanwhile others
wrote. The strengthening therefore speaks of every copy at once. `Running`: the
local variables of every task are `Sound` - a copy of the index that is about
to be written is not empty and lists its own pointer, a task that will move the
pointer of its copy to a session has found that session in that copy, and a
task that names a session or has read a workspace holds one. `IndexOK`: so does
the stored index. `Established`: the index lists a session, or nothing but a
boot is running. (`Stored`, `OnTab`, `Flags` are the types.) Every write then
stores a sound copy, whoever made it and however old it is, which is what "the
last writer wins" must mean to be harmless for the pointer. It is *not*
harmless for the list: see `Sessions_lost_session.cfg`.

Three more theorems rest on it. `CallInv` says which function each task runs
and that nothing else runs during a boot.

- `SnapshotsAreOwn` (`OwnSnapshotOnly`). `OwnInv`: the workspace on screen is
  the active session's, a save that is about to write holds work of the session
  it captured, and a restore of the session on screen holds work of that one.
  Hypothesis `NoSwitching`: the user does not switch (`Sessions_wrong_session`),
  and, unless there is one handler at a time, nobody clicks New before the boot
  has ended (`Sessions_early.cfg`) and no session is deleted - `deleteSession`
  restores the session it falls back on, and a New session meanwhile would have
  it restored over the new one. Edits and opened files during the boot are
  covered: they are the work of the session that is being restored.
- `SwitchFlushesOutgoing` (`OutgoingFlushed`). The switch awaits its own write,
  but older saves may be in flight and be served after it was asked for. That
  they are not served after it is the order of the queue: `QueueInv` (each task
  that awaits a request is in it once) and `Behind` (who asked first) are state,
  and `FlushInv` says that whatever is behind the switch's write is no older.
  Hypothesis `OneHandler`: a second click during the switch may make New move
  the pointer, or put another session on screen, under the first.
- `AutoSaveIsDurable` (`DurableWhenQuiet`). `WillBe(c)`: the last of the pending
  updates of the active snapshot decides what it will be, and that is `c`.
  `DInv` says that it will be the workspace on screen whenever no save is
  scheduled - across New session, an opened file, an emptied workspace, a boot
  and a restore in part, and for any number of saves in flight. The order of
  updates in the queue is again what carries it. Hypothesis `Undisturbed`: no
  request and no chunk is rejected (`Sessions_warning.cfg`), nobody switches or
  deletes (`Sessions_restore_race.cfg`, `Sessions_deleted.cfg`), and the user
  waits for the boot to end (`Sessions_early.cfg`).

**EngineConnection_proofs.** `TypeCorrect`, `NoConnectionLeaks`
(`OneOpenConnection`), `RecoveredEngineUsable` (`EngineUsable`),
`TransactionsEnd` (`NoTransactionLeft`) and `SwapsAreAtomic` (`SwapAtomic`).
`RecoveryInv`: at most one run recovers, and until it installs its replacement
`Engine.conn` stays the closed connection, so nobody can have begun anything on
the replacement. `TxnInv`: a transaction is open only while a swap is between
BEGIN and the end. `SwapInv` follows a swap target by target: what the
transaction has done so far is a prefix of its targets, or its connection was
replaced (`Telling`). `SwapsAreAtomic` needs that a swap replaces at least one
relation, and states it as a hypothesis. With swaps that only remove, which a
folder makes when all its files are gone (engine.ts:1629), TLC finds a
counterexample: the second swap reads the types of its targets inside the
transaction of the first, which is rolled back.

**SourceRefresh_proofs.** `TypeCorrect`, `MetadataDescribeRelations`
(`PublishedMounted`) and `NoResultIsSilentlyStale` (`NoSilentStale`), for any
lineage that respects the order of the cells. The property speaks of one
moment; what makes it true is how versions travel. `StaleInv`: a version that
is recorded, or that a sweep or a refresh is about to record, is `Sound` - it is
no newer than what is outside, and if it is the same, then the relation holds it
and neither a cell nor a run that has read its input has another. `RefreshSound`
follows a refresh. Before the swap each source that it saw is current, or is
staged at least as new as seen with all its cells among those to be rerun
(`Ahead`); after it only cells still to be rerun may show an older version
(`CaughtUp`) - which is where the cascade must be complete (`OriginsReached`).
`MountedInOrder`: relations never go back. `PublishedInv`: relations and
metadata differ by what a refresh has swapped and not yet published.
Hypotheses: `OneRefresh` (two refreshes that overlap store their baselines in
either order) and, for `NoSilentStale`, `AllRecorded` (`Refresh_first.cfg`,
`Refresh_new_cell.cfg`).

**WarehouseBridge_proofs.** `TypeCorrect`, `NothingOrphaned` (`NoOrphan`),
`MountsSucceeded`, and `ImplementsRemoteQuery`: every behaviour of the bridge,
seen through the refinement mapping, is one of `RemoteQuery`. The invariant
says of each table what its request, handler, adapter and statement may be at
once (`Asked`, `FromSuccess`, `NotOrphaned`); the step simulation has one lemma
per part, browser, server and adapter stuttering, the warehouse moving `work`.

**Classification_proofs.** The lemmas of the first part speak of the client
alone: `ClientInv` (one worker lives; each worker but the first was paid for by
a fault) and `FreshInv` (what is in the queues is informed: a worker that is
asked to classify has been sent the user types of that moment before, in
order). `ClientServes` shows that every step of the composition is a step of
the client or leaves it alone, which carries both over: `OneWorkerServes`
(`OneWorker`), `AnswersInformed` (`AnswerFresh`). `RulesReach` (`RuleApplied`)
needs of the loops that a result is stored only after the rules were looked at
again in the same step. `TypeCorrect` is for the whole.

**Mounts_proofs.** `TypeCorrect` (without a hypothesis), `NamesAreReserved`,
`FailedMountsLeaveNothing` (`NothingLeft`), `SourcesStayIntact`
(`SourceIntact`) and `CleanupStaysInProvider`. Nothing in the code ties a
relation to its source: they meet only through the name. The invariant `MInv`
is therefore about each source by itself, and about labels:

- `Local(s)`: at each point of its mount, `s` has the tables, relations and
  files of the files it is past, and of the one it is at what it has made so
  far - no more (`Owned`, `NoFileLeft`) but for the relations of a folder's book
  that are in no table (`Spare`), and no less (`Backed`); relations come in the
  order of the files (`InTurn`); every label it holds is reserved.
- `Separate`: no label is held by two sources. This is what makes a drop by
  name safe, and it is proved from the allocator alone.
- `Places`: the workbook, the queue and the list of those that came back hold
  the sources whose handlers say so, each once.

`Untouched` states what a step of one source leaves of another, so that each
action is looked at for its own source only (`StepOfOne`); reopening, which
concerns all, is done apart. `SessionsInv` and `SecretsInv` say of credentials
who may have a session, and that a session has its secret if no other source
vends for its provider (`Alone`); the first is why nothing is revoked too late
when the workspace is dropped (`RevokesAll`).
TLC checked the invariants on the instance of `Mounts_sources` before.

Hypothesis `Apart`: a switch waits for the mounts under way and no change of
credentials comes between another's failure and its ROLLBACK
(`Overlap = FALSE`, section 4), and folders are not mounted again by
themselves, which they are not when permission has to be asked for
(`Mounts_restored_folder.cfg` shows the other case: names of the snapshot are
taken over without asking the allocator). `Providers` may be anything in all
theorems but `SourcesStayIntact`, which supposes that no two catalogs share a
provider: the secrets of the code are named after the provider, and two
catalogs are all it takes to lose one (`Mounts_one_provider`).
`CleanupStaysInProvider` says that nothing else does it: a secret that goes
without its own session goes in the cleanup of another source of its provider.
`NothingLeft` and `NamesReserved` except what `Leftover` and `Partial` name;
that those exceptions occur is `Mounts_orphan.cfg`.

**Notebook_proofs.** Of the graph, for notebooks of any length:
`IssueFoundAlways`, `RunAllOrderedAlways`, `BrushCoversAlways` and
`ReportCoversAlways`. Of the runs, for any notebooks, jobs, batches and user
actions: `CancellableAlways`, `NoOrphanRelationAlways`, `RelationOfRowsAlways`,
`LineageOfRowsAlways` and `BatchCurrentAlways`. No theorem has a hypothesis.

The search for cycles and the topological order are recursive, and what they
compute is shown by induction over `Size`, the measure of a call: each call has
a longer path, or the same path and less to look at. The library's induction
theorem takes an operator and cannot be used, so `LeastNatural` (from the
theory of well-founded relations, whose theorems take sets) stands in its
place: the calls that violate the claim have one of least measure.
`Recursion` shows that such a function is what its recursion says.
`Searched` is what a call of the search promises: if it finds no cycle, what it
is done with is `Grounded`, closed under reading and without a cycle.
`Visited` is what a call of the topological order promises: it extends the
order it was given, each cell once, and a cell is placed after what it reads
unless it is on the path of the call (`Linked`) - which in a graph without
cycles behind a cell never is so. A brush and a report keep a part of the
order (`Kept`).

`EveryStep` puts each step of the runs in one of 22 shapes - a step of the user
(`UserSteps`) or of one job (`JobSteps`), and what it leaves alone - and each
invariant is kept by each shape. On top of the types, the order of the queue and what step a
kind of job can be at (`Basic`):

- `Controls`, for `Cancellable`: a run that has not ended and was not aborted
  has the controller of its cell (`Tracked`); a running cell has a controller
  (`Watched`); generations are given in order (`Numbered`); only the latest
  run decides the status (`Undecided`).
- `Orphans`, for `NoOrphanRelation`: a relation of a cell that is gone has its
  drop still to come, after each CREATE of that relation in the queue, or the
  run that will create it is aborted and unregisters its result.
- `Sqls` and `Langs`, for `RelationOfRows`. CREATE statements of one cell are
  in DuckDB's queue in the order of their runs (`SqlOrdered`), and the last of
  them decides. That is not enough for a language cell, whose result is
  registered in several statements with other jobs between them: `Outruns` says
  which steps of an older and of a newer run can be together, and so that the
  older run has dropped its table before the newer one makes its own.
- `Lineages`, for `LineageOfRows`: a recording that will write is ahead in the
  queue of each later query of its cell (`RecordingsLead`), so the last one to
  write is that of the rows on screen.
- `Batched`, for `BatchCurrent`, on top of `Sqls`. Every step advances the
  batches, ends what they were planned for (`Soiling`: an edit, a brush, a
  session that is left) or plans one (`EveryTurn`), and of a batch that is
  still valid: its runs are one at a time (`Awaited`); what is left of it is in
  an order that works (`Planned`) and it misses no cell it should have
  (`Covered`); a cell is begun when what is behind it is done (`Begun`); a cell
  that is done has the view of its present code, and no CREATE still in DuckDB's
  queue makes another (`Viewed`) - here a user's own rerun of that cell and an
  aborted run that goes on come in; and so the rows a query fetched (`Queried`)
  and those on screen (`ShownBy`) are those of the cells as they are. `Planned`
  and `Covered` come from what `RunAllOrdered` and `BrushCovers` say of the
  order, `Behind` being the least set of cells closed under reading
  (`BehindLeast`). TLC checked `Batched` on two instances before (281 875 and
  about two million states).

Assumptions on constants: the cells of a document are distinct, the inputs of
a language cell are cells, a blank code has no CROSSFILTER in it, the bounds are natural numbers and `None` is none of
the things it stands beside; `None` is not a session id, the stored sessions are
session ids, the targets of swaps are finite sequences of distinct relations,
tables are numbered, callers are the sources and the sweeps, there are finitely many sources to
mount, "user" is not the name of a refresh, `None` is not a workspace, the
bounds are natural numbers, the ledger's limit is positive. TLC evaluates all
of them.

**Only model-checked.** Liveness (`EventuallyDurable`, `EngineComesBack`,
`RequestsEnd`, `RefreshEnds`, `RequestEnds`, `MountEnds`, `LoopsEnd`,
`RunsEnd`), which is out of reach of the prover. Every invariant of the passing
runs is stated by a theorem.

## 6. Not modelled

Inside the modelled components: the `?lens=` boot path, rejected IDB *reads*, a
malformed legacy snapshot, session names and timestamps, source secrets and
folder handles among the artifacts of a session, a second tab, the steps inside
`doApplyLoadedFile` as far as sessions are concerned (a workspace is taken over
in one step: the cells of the old one that stay on screen until those of the
file replace them count as gone, and a save on `pagehide` in the middle, which
writes a part of the file, is left out; `Mounts` opens up how its sources come
back), the read of the index that draws the session menu (main.ts:468); engine
boot,
extensions, object-store settings, `describe`, `sample` and `explain`; how a
fingerprint is computed; folders that gain or lose files during a refresh; what
an agent's tool computes, its redaction and bounds, and the v1 verbs; what the
classifier computes, the sampled values and the candidates; how a result is
divided into chunks and converted to Arrow, what the bridge's authorisation
decides; how a format is recognised, data lake formats, permission prompts, the example
bundles (`mountExampleBundle` mounts text files one after the other as a folder
does, and has no handle); the REST requests of an Iceberg catalog and how an expiry is computed
(`refreshIcebergSourceAccess` is exported and nothing calls it, so a lease that
expires is not renewed and there is no refresh to race a revocation); what
language runtimes compute and R's registration through CSV. `NotebookRuns`
assumes that the user does nothing while a session is being left and that drops
succeed.

What the properties do not reach, though their names may suggest it.
`IndexConsistent` is about the list and its pointer, not about what the user is
told of a deletion that fails. `EngineUsable` and `EngineComesBack` exempt a
`db.connect()` that is rejected. `NoSilentStale` begins with recorded baselines.
`BrushCovers` takes for granted that a cell with rows has its view.
`RuleApplied` is about override rules, not about what the user chose for a
column. `MountEnds` is about the browser, and `ReadsRemotely` lets the work of
a query go on after its error. Section 4 has a configuration for each of these
but the first two.

Whole components: those with `not_modelled` in PROJECT.json. Parsers,
formatters, SQL generators and rendering have no protocol, and their unit tests
reach them. Most of the source is of this kind - user interface, templates,
generators of SQL, standards, scripts - which is why the models stand for a
small share of the lines.

## 7. Plan

Done, in this order: `WorkspaceSessions`, `EngineConnection`, `AgentSession`,
`SourceRefresh` - persistence of the user's work first, then the resource that
everybody shares, then the protocols that run over both; then `TaxonomyClient`
and `Classification`, `RemoteQuery` and `WarehouseBridge`, `Mounts` with vended
credentials, `NotebookGraph` and `NotebookRuns`.

Next, in order:

1. `WorkspaceSessions` extended: `doApplyLoadedFile` in steps, secrets
   (`core/secrets/source-secrets.ts` removes both copies before it writes one),
   settings with two writers, the `?lens=` path.
2. Refinement: `AtomicSwap` (one step) implemented by `EngineConnection` when
   no run is cancelled, and used as the swap of `SourceRefresh`.
3. The model cache and runtime of the sidecar; the reasoner's bounded fixpoint
   and the clustering as checked algorithms.

The project keeps about a dozen runs, each with its own question. A finding
that is fixed turns into a property of a passing run: `OwnSnapshotOnly` with
Switch, `TargetOwnedCleanup`.

## 8. Running

    tlc -workers 2 -config Sessions_autosave.cfg WorkspaceSessions.tla
    tlc -workers 2 -config Engine_shared.cfg MCEngineConnection.tla
    tlapm WorkspaceSessions_proofs.tla

`Sessions_lifecycle` configures `MCWorkspaceSessions`, the other `Sessions_*`
`WorkspaceSessions`, `Engine_*` `MCEngineConnection`,
`Agent_*` `AgentSession`, `Refresh_*` `MCSourceRefresh`, `Bridge_*`
`WarehouseBridge`, `Classify_*` `Classification`, `Mounts_*` `Mounts`,
`Notebook_graph` `MCNotebookGraph` and the other `Notebook_*` `MCNotebookRuns`.
Each passing run takes at most a few minutes; the proofs together take about
half an hour.
