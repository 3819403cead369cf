------------------------------- MODULE Mounts -------------------------------
(***************************************************************************)
(* Mounting sources (core/mount.ts), what the engine registers for them    *)
(* (core/engine.ts), and the handlers of main.ts that mount, remove and    *)
(* restore them.                                                           *)
(*                                                                         *)
(* Every file prefers the same relation name: label 1 stands for data,     *)
(* label 2 for data_2 and so on.  A book, which is a DuckDB or SQLite      *)
(* database or an Excel workbook, makes the relations label__1 and         *)
(* label__2; what is registered for it counts as one file.  A folder has   *)
(* several files, books among them, a bridge catalog several remote        *)
(* tables, which are mounted one after the other; one that fails is left   *)
(* out.  The relations of one file are created at once: no other mount has *)
(* their label.  What the bridge does for a remote table is                *)
(* WarehouseBridge.                                                        *)
(*                                                                         *)
(* Reopening stands for a switch to another session and back, or for       *)
(* opening the file that was saved: the relations are dropped and the      *)
(* sources of the snapshot are mounted again, in their order.              *)
(***************************************************************************)
EXTENDS Naturals, FiniteSets, Sequences, SequencesExt

CONSTANTS
    Sources,    \* the sources that may be mounted
    Kinds,      \* the kinds of sources in this instance
    Restored,   \* the kinds that are mounted again on reopening
    Files,      \* the number of files in a folder, of tables in a catalog
    Books,      \* those files of a folder that have several tables
    MaxReopens, \* bound: how often the workspace is reopened
    Overlap,    \* the workspace may be reopened while a mount is under way, and
                \* credentials changed before a failed change is rolled back
    Providers   \* the sets of Iceberg catalogs that vend for one provider

AllKinds == {"file", "url", "folder", "book", "s3", "catalog", "iceberg"}

ASSUME SourcesAssumption == IsFiniteSet(Sources)
ASSUME KindsAssumption == Kinds \subseteq AllKinds /\ Restored \subseteq Kinds \ {"file", "book"}
ASSUME BooksAssumption == Books \subseteq 1..Files
ASSUME ProvidersAssumption == Providers \subseteq SUBSET Sources
ASSUME BoundsAssumption == Files \in Nat \ {0} /\ MaxReopens \in Nat /\ Overlap \in BOOLEAN

VARIABLES
    kind,      \* kind[s]: what source s is
    at,        \* at[s]: where the handler of s is, or the source
    file,      \* file[s]: the file it is at
    label,     \* label[s]: the label reserved for that file
    tables,    \* tables[s]: source.tables
    saved,     \* saved[s]: its tables in the snapshot
    again,     \* again[s]: s is being mounted again
    sources,   \* the workbook's sources, in order
    queue,     \* the sources of the snapshot still to be mounted again
    back,      \* those that were, in order
    reserved,  \* mountedRelationNames of the engine
    relations, \* the relations in DuckDB
    registered,\* the files in its file system
    secrets,   \* the sources whose vended credentials are in DuckDB
    sessions,  \* those with a credential session
    aborted,   \* a failed change of credentials has left its transaction open
    handles,   \* the folder handles in IndexedDB
    phase,     \* how far the reopening is
    reopens    \* how often there was one

progress == <<kind, at, file, label, tables, again>>
duckdb == <<relations, registered>>
workspace == <<saved, sources, queue, back, phase, reopens>>
credentials == <<secrets, sessions, aborted>>
vars == <<progress, workspace, duckdb, reserved, handles, credentials>>

Labels == 1..(2 * Cardinality(Sources) * Files)
Members == 0..2
Names == [label : Labels, member : Members]

(***************************************************************************)
(* A table's id is made for a file, at its first mount or at a later one;  *)
(* what the user says of columns is kept under it.                         *)
(***************************************************************************)
Ids == [of : 1..Files, member : Members, since : 0..MaxReopens]
Table == [origin : 1..Files, id : Ids, name : Names]
Relation == [name : Names, by : Sources, origin : 1..Files]

TypeOK ==
    /\ kind \in [Sources -> AllKinds]
    /\ at \in [Sources -> {"new", "vending", "rolling", "cleaning", "configuring", "revoking",
                           "undoing", "reading", "creating", "counting", "keeping", "failed",
                           "mounted", "removing", "released", "removed",
                           "waiting", "remounted", "away"}]
    /\ file \in [Sources -> 1..Files]
    /\ label \in [Sources -> Labels]
    /\ tables \in [Sources -> SUBSET Table]
    /\ saved \in [Sources -> SUBSET Table]
    /\ again \in [Sources -> BOOLEAN]
    /\ sources \in Seq(Sources) /\ IsInjective(sources)
    /\ queue \in Seq(Sources) /\ IsInjective(queue)
    /\ back \in Seq(Sources) /\ IsInjective(back)
    /\ reserved \in SUBSET Labels
    /\ relations \in SUBSET Relation
    /\ \A r, q \in relations : r.name = q.name => r = q
    /\ registered \in SUBSET (Sources \X (1..Files))
    /\ handles \in SUBSET Sources
    /\ secrets \in SUBSET Sources
    /\ sessions \in SUBSET Sources
    /\ aborted \in BOOLEAN
    /\ phase \in {"none", "dropped", "restoring"}
    /\ reopens \in 0..MaxReopens

Init ==
    /\ kind \in [Sources -> Kinds]
    /\ at = [s \in Sources |-> "new"]
    /\ file = [s \in Sources |-> 1]
    /\ label = [s \in Sources |-> 1]
    /\ tables = [s \in Sources |-> {}]
    /\ saved = [s \in Sources |-> {}]
    /\ again = [s \in Sources |-> FALSE]
    /\ sources = <<>>
    /\ queue = <<>>
    /\ back = <<>>
    /\ reserved = {}
    /\ relations = {}
    /\ registered = {}
    /\ handles = {}
    /\ secrets = {}
    /\ sessions = {}
    /\ aborted = FALSE
    /\ phase = "none"
    /\ reopens = 0

Vending(s) == at[s] \in {"vending", "rolling", "cleaning", "configuring", "revoking", "undoing"}
Scanning(s) == at[s] \in {"reading", "creating", "counting"}
InFlight(s) == Vending(s) \/ Scanning(s) \/ at[s] = "keeping"
Goto(s, where) == at' = [at EXCEPT ![s] = where]
HasFile(s) == kind[s] \notin {"s3", "catalog", "iceberg"}
IsList(s) == kind[s] \in {"folder", "catalog"}
OriginsOf(ts) == {t.origin : t \in ts}
IsBook(s, f) == kind[s] = "book" \/ (kind[s] = "folder" /\ f \in Books)
MembersOf(s) == IF IsBook(s, file[s]) THEN {1, 2} ELSE {0}
Made(s) == {[label |-> label[s], member |-> m] : m \in MembersOf(s)}
NamesOf(ts) == {t.name : t \in ts}

(***************************************************************************)
(* reserveMountedTableName: the first label that is neither reserved nor   *)
(* in use by a table of the same folder.                                   *)
(***************************************************************************)
Used(ts) == {n.label : n \in {x \in NamesOf(ts) : x.member = 0}}
Free(s) == Labels \ (reserved \cup Used(tables'[s]))

Reserve(s) ==
    \E l \in Free(s) :
        /\ \A other \in Free(s) : l <= other
        /\ label' = [label EXCEPT ![s] = l]
        /\ reserved' = reserved \cup {l}

(***************************************************************************)
(* engine.drop: whatever has the name goes, and a registered file that no  *)
(* relation owns any more.                                                 *)
(***************************************************************************)
Reads(rs, f) == \E r \in rs : r.by = f[1] /\ r.origin = f[2]

Drop(names) ==
    /\ relations' = {r \in relations : r.name \notin names}
    /\ registered' = {f \in registered : Reads(relations, f) => Reads(relations', f)}

(***************************************************************************)
(* The scan of file f of source s begins: its name is reserved before it   *)
(* is read.                                                                *)
(***************************************************************************)
Scan(s, f) ==
    /\ Goto(s, "reading")
    /\ file' = [file EXCEPT ![s] = f]
    /\ Reserve(s)

(***************************************************************************)
(* A table of an Iceberg catalog gets its credentials before its name.     *)
(***************************************************************************)
Begin(s, f) ==
    IF kind[s] = "iceberg"
    THEN Goto(s, "vending") /\ UNCHANGED <<file, label, reserved>>
    ELSE Scan(s, f)

Mount(s) ==
    /\ at[s] = "new"
    /\ phase = "none" \/ Overlap
    /\ UNCHANGED tables
    /\ Begin(s, 1)
    /\ UNCHANGED <<kind, again, workspace, duckdb, handles, credentials>>

(***************************************************************************)
(* The ids of the snapshot for the tables ts of a source that was mounted  *)
(* again.  reconcileRemountedFolder, table by table: the persisted table   *)
(* of the same origin, of several the one of the same member, else the one *)
(* of the same name, unless an earlier one took it; the name comes with    *)
(* the id.                                                                 *)
(***************************************************************************)
Candidates(s, t, taken) ==
    LET left == {p \in saved[s] : p.id \notin taken}
        same == {p \in left : p.origin = t.origin}
        part == {p \in same : p.name.member = t.name.member /\ t.name.member # 0}
    IN  IF Cardinality(same) = 1 THEN same
        ELSE IF part # {} THEN part ELSE {p \in left : p.name = t.name}

Turn(t) == 3 * t.origin + t.name.member

Reconciled(s, ts) ==
    LET taken[n \in 0..(3 * Files + 2)] ==
            IF n = 0 THEN {}
            ELSE taken[n - 1] \cup UNION {{p.id : p \in Candidates(s, t, taken[n - 1])} :
                                             t \in {x \in ts : Turn(x) = n}}
    IN  {LET found == Candidates(s, t, taken[Turn(t) - 1])
         IN  IF found = {} THEN t
             ELSE LET p == CHOOSE p \in found : TRUE
                  IN  [t EXCEPT !.id = p.id, !.name = p.name] : t \in ts}

(***************************************************************************)
(* Of any other source the first table gets the first id, and so on.       *)
(***************************************************************************)
Rank(ts, t) == Cardinality({x \in ts : x.origin < t.origin})

Renumbered(s, ts) ==
    {LET same == {p \in saved[s] : Rank(saved[s], p) = Rank(ts, t)}
     IN  IF same = {} THEN t ELSE [t EXCEPT !.id = (CHOOSE p \in same : TRUE).id] : t \in ts}

Identified(s, ts) ==
    IF ~again[s] THEN ts
    ELSE IF kind[s] = "folder" THEN Reconciled(s, ts) ELSE Renumbered(s, ts)

(***************************************************************************)
(* The source is complete: into the workbook, or to the others that are    *)
(* mounted again.                                                          *)
(***************************************************************************)
Complete(s) ==
    IF again[s]
    THEN Goto(s, "remounted") /\ back' = Append(back, s) /\ UNCHANGED sources
    ELSE Goto(s, "mounted") /\ sources' = Append(sources, s) /\ UNCHANGED back

Fail(s) ==
    /\ Goto(s, IF again[s] THEN "away" ELSE "failed")
    /\ UNCHANGED <<sources, back>>

(***************************************************************************)
(* The file after f.  A folder that is mounted again may have lost files   *)
(* meanwhile; a catalog asks only for the tables it had.                   *)
(***************************************************************************)
After(s, f, remount) ==
    CASE ~IsList(s) -> {1} \ {f}
      [] kind[s] = "folder" /\ remount -> {g \in 1..Files : g > f}
      [] kind[s] = "catalog" /\ remount ->
             {g \in OriginsOf(saved[s]) : g > f /\ \A h \in OriginsOf(saved[s]) : h > f => g <= h}
      [] OTHER -> (1..Files) \cap {f + 1}

(***************************************************************************)
(* After a file: the next one, or the end of the mount.  A new folder's    *)
(* handle and the secrets of a new S3 source or catalog are stored first.  *)
(***************************************************************************)
Onward(s, scanned) ==
    \/ /\ tables' = [tables EXCEPT ![s] = scanned]
       /\ \E f \in After(s, file[s], again[s]) : Scan(s, f)
       /\ UNCHANGED <<sources, back>>
    \/ /\ After(s, file[s], again[s]) = {} \/ (kind[s] = "folder" /\ again[s])
       /\ tables' = [tables EXCEPT ![s] = Identified(s, scanned)]
       /\ IF scanned = {} THEN Fail(s)
          ELSE IF kind[s] \in {"folder", "s3", "catalog", "iceberg"} /\ ~again[s]
          THEN Goto(s, "keeping") /\ UNCHANGED <<sources, back>>
          ELSE Complete(s)
       /\ UNCHANGED <<file, label, reserved>>

(***************************************************************************)
(* A file could not be mounted: a list goes on, any other mount fails; the *)
(* credentials and the name of an Iceberg table are given back first.      *)
(***************************************************************************)
FileFails(s) ==
    IF IsList(s)
    THEN Onward(s, tables[s])
    ELSE /\ IF kind[s] = "iceberg"
            THEN Goto(s, "undoing") /\ UNCHANGED <<sources, back>>
            ELSE Fail(s)
         /\ tables' = [tables EXCEPT ![s] = {}] /\ UNCHANGED <<file, label, reserved>>

(***************************************************************************)
(* Vended credentials (lazy/iceberg-rest-client.ts and                     *)
(* lazy/iceberg/duckdb-vended-credential-target.ts).  A table's become a   *)
(* DuckDB secret that is named after its provider.  Every change is one    *)
(* batch, a transaction; what fails leaves it open until ROLLBACK, and no  *)
(* other batch can begin before.                                           *)
(***************************************************************************)
Named(s) == {s} \cup UNION {p \in Providers : s \in p}
Ready == ~aborted \/ Overlap

untouched == <<kind, file, tables, again, saved, queue, phase, reopens, duckdb, handles>>

(* loadTable fails, or vends for a provider the browser has no extension   *)
(* for: nothing has been applied.                                          *)
LoadFails(s) ==
    /\ at[s] = "vending"
    /\ Fail(s)
    /\ UNCHANGED <<untouched, label, reserved, credentials>>

NoneVended(s) ==
    /\ at[s] = "vending"
    /\ Goto(s, "configuring")
    /\ UNCHANGED <<untouched, label, sources, back, reserved, credentials>>

(* CREATE SECRET fails when the name is taken.                             *)
Vend(s) ==
    /\ at[s] = "vending" /\ Ready
    /\ ~aborted /\ secrets \cap Named(s) = {}
    /\ secrets' = secrets \cup {s}
    /\ sessions' = sessions \cup {s}
    /\ Goto(s, "configuring")
    /\ UNCHANGED <<untouched, label, sources, back, reserved, aborted>>

VendFails(s) ==
    /\ at[s] = "vending" /\ Ready
    /\ aborted' = TRUE
    /\ Goto(s, "rolling")
    /\ UNCHANGED <<untouched, label, sources, back, reserved, secrets, sessions>>

RollBack(s) ==
    /\ at[s] = "rolling"
    /\ aborted' = FALSE
    /\ Goto(s, "cleaning")
    /\ UNCHANGED <<untouched, label, sources, back, reserved, secrets, sessions>>

(* The secrets of these names are dropped, unless a transaction is open:   *)
(* the ROLLBACK that follows ends it, whosever it was.                     *)
DropSecrets(s) ==
    /\ Ready
    /\ secrets' = IF aborted THEN secrets ELSE secrets \ Named(s)
    /\ aborted' = FALSE

(* The cleanup after a failed replacement drops the names it would have    *)
(* created.                                                                *)
CleanUp(s) ==
    /\ at[s] = "cleaning"
    /\ DropSecrets(s)
    /\ Fail(s)
    /\ UNCHANGED <<untouched, label, reserved, sessions>>

(***************************************************************************)
(* configureIceberg; the name is reserved after it.                        *)
(***************************************************************************)
Configured(s) ==
    /\ at[s] = "configuring"
    /\ Goto(s, "creating")
    /\ UNCHANGED untouched
    /\ Reserve(s)
    /\ UNCHANGED <<sources, back, credentials>>

ConfigureFails(s) ==
    /\ at[s] = "configuring"
    /\ Goto(s, "revoking")
    /\ UNCHANGED <<untouched, label, sources, back, reserved, credentials>>

(***************************************************************************)
(* credentialCleanup.revoke() of a mount that fails.  When it is rejected, *)
(* the name stays reserved.                                                *)
(***************************************************************************)
Withdraw(s) ==
    IF s \in sessions
    THEN DropSecrets(s) /\ sessions' = sessions \ {s}
    ELSE UNCHANGED credentials

Undo(s) ==
    /\ at[s] \in {"revoking", "undoing"}
    /\ Withdraw(s)
    /\ Fail(s)
    /\ reserved' = IF at[s] = "undoing" /\ ~(s \in sessions /\ aborted)
                   THEN reserved \ {label[s]} ELSE reserved
    /\ UNCHANGED <<untouched, label>>

(***************************************************************************)
(* revokeIcebergSourceAccess at removal, and revokeAllIcebergSourceAccess  *)
(* when a workspace with an Iceberg source is dropped: of the sessions in  *)
(* the map, which is all but those of mounts under way.  A rejection is    *)
(* only logged.                                                            *)
(***************************************************************************)
RevokesAll == phase = "dropped" /\ \E s \in ToSet(sources) : kind[s] = "iceberg"
Registered(s) == s \in sessions /\ ~Vending(s) /\ ~Scanning(s)

Revoke(s) ==
    /\ at[s] = "released" \/ RevokesAll
    /\ Registered(s)
    /\ Withdraw(s)
    /\ UNCHANGED <<untouched, at, label, sources, back, reserved>>

unscanned == <<kind, again, saved, queue, phase, reopens, handles, credentials>>

ReadFails(s) ==
    /\ at[s] = "reading"
    /\ FileFails(s)
    /\ UNCHANGED <<unscanned, duckdb>>

Read(s) ==
    /\ at[s] = "reading"
    /\ Goto(s, "creating")
    /\ registered' = IF HasFile(s) THEN registered \cup {<<s, file[s]>>} ELSE registered
    /\ UNCHANGED <<kind, file, label, tables, again, workspace, relations, reserved, handles,
                   credentials>>

(***************************************************************************)
(* CREATE VIEW fails when the name is taken.                               *)
(***************************************************************************)
Taken(s) == \E r \in relations : r.name \in Made(s)

Create(s) ==
    /\ at[s] = "creating"
    /\ ~Taken(s)
    /\ Goto(s, "counting")
    /\ relations' = relations \cup
          {[name |-> n, by |-> s, origin |-> file[s]] : n \in Made(s)}
    /\ UNCHANGED <<kind, file, label, tables, again, workspace, registered, reserved, handles,
                   credentials>>

(* Mutant: the file is not dropped. *)
CreateFailsOnly(s) ==
    /\ at[s] = "creating"
    /\ FileFails(s)
    /\ UNCHANGED <<unscanned, duckdb>>

(* The file is dropped, and so are the relations that a database has got   *)
(* so far; those of an Excel workbook stay, and what they read.            *)
CreateFails(s) ==
    /\ at[s] = "creating"
    /\ \E m \in MembersOf(s) :
          LET stay == {n \in Made(s) : n.member < m}
          IN  /\ \A r \in relations : r.name \notin stay
              /\ relations' = relations \cup
                    {[name |-> n, by |-> s, origin |-> file[s]] : n \in stay}
              /\ registered' = IF stay = {} THEN registered \ {<<s, file[s]>>} ELSE registered
    /\ FileFails(s)
    /\ UNCHANGED unscanned

(***************************************************************************)
(* getRowCount of the relations one after the other.  One that cannot be   *)
(* counted is dropped.                                                     *)
(***************************************************************************)
Uncounted(s) == Made(s) \ NamesOf(tables[s])
Counts(s, n) ==
    [origin |-> file[s], id |-> [of |-> file[s], member |-> n.member, since |-> reopens],
     name |-> n]

Counted(s) ==
    /\ at[s] = "counting"
    /\ \E n \in Uncounted(s) :
          LET scanned == tables[s] \cup {Counts(s, n)}
          IN  IF Uncounted(s) = {n}
              THEN Onward(s, scanned)
              ELSE /\ tables' = [tables EXCEPT ![s] = scanned]
                   /\ UNCHANGED <<at, file, label, sources, back, reserved>>
    /\ UNCHANGED <<unscanned, duckdb>>

(* Mutant: the table is listed although it was dropped. *)
CountFailsListed(s) ==
    /\ at[s] = "counting"
    /\ \E n \in Uncounted(s) :
          /\ Drop({n})
          /\ Onward(s, tables[s] \cup {Counts(s, n)})
    /\ UNCHANGED unscanned

CountFails(s) ==
    /\ at[s] = "counting"
    /\ \E n \in Uncounted(s) : Drop({n})
    /\ FileFails(s)
    /\ UNCHANGED unscanned

(***************************************************************************)
(* putHandle, or saveSecret.  When the handle cannot be stored the         *)
(* folder's relations are dropped and their names released.                *)
(***************************************************************************)
Kept(s) ==
    /\ at[s] = "keeping"
    /\ handles' = IF kind[s] = "folder" THEN handles \cup {s} ELSE handles
    /\ Complete(s)
    /\ UNCHANGED <<kind, file, label, tables, again, saved, queue, phase, reopens,
                   duckdb, reserved, credentials>>

Release(ts) == reserved' = reserved \ Used(ts)

(* Mutant: the names are released, the relations stay. *)
KeepFailsReleases(s) ==
    /\ at[s] = "keeping"
    /\ Fail(s)
    /\ tables' = [tables EXCEPT ![s] = {}]
    /\ Release(tables[s])
    /\ UNCHANGED <<kind, file, label, again, saved, queue, phase, reopens, handles, duckdb,
                   credentials>>

KeepFails(s) ==
    /\ at[s] = "keeping"
    /\ Fail(s)
    /\ tables' = [tables EXCEPT ![s] = {}]
    /\ IF kind[s] = "folder"
       THEN Drop(NamesOf(tables[s])) /\ Release(tables[s])
       ELSE UNCHANGED <<duckdb, reserved>>
    /\ UNCHANGED <<kind, file, label, again, saved, queue, phase, reopens, handles, credentials>>

(***************************************************************************)
(* remove-source: the relations are dropped, the names released, the       *)
(* handle or the secrets deleted, and the source leaves the workbook.  A   *)
(* name of a file with several tables is not the one that was reserved.    *)
(***************************************************************************)
RemoveSource(s) ==
    /\ at[s] = "mounted"
    /\ phase = "none"
    /\ Goto(s, "removing")
    /\ Drop(NamesOf(tables[s]))
    /\ UNCHANGED <<kind, file, label, tables, again, workspace, reserved, handles, credentials>>

Released(s) ==
    /\ at[s] = "removing"
    /\ Goto(s, "released")
    /\ Release(tables[s])
    /\ UNCHANGED <<kind, file, label, tables, again, workspace, duckdb, handles, credentials>>

Removed(s) ==
    /\ at[s] = "released" /\ s \notin sessions
    /\ Goto(s, "removed")
    /\ handles' = handles \ {s}
    /\ tables' = [tables EXCEPT ![s] = {}]
    /\ \E i \in DOMAIN sources : sources[i] = s /\ sources' = RemoveAt(sources, i)
    /\ UNCHANGED <<kind, file, label, again, saved, queue, back, phase, reopens, duckdb, reserved,
                   credentials>>

(***************************************************************************)
(* dropCurrentWorkspaceArtifacts: the relations of the workbook's sources, *)
(* and then every registered file and every reservation.                   *)
(***************************************************************************)
Reopen ==
    /\ phase = "none"
    /\ reopens < MaxReopens
    /\ sources # <<>>
    /\ \A s \in Sources : at[s] \notin {"removing", "released"}
    /\ Overlap \/ \A s \in Sources : ~InFlight(s)
    /\ phase' = "dropped"
    /\ reopens' = reopens + 1
    /\ Drop(UNION {NamesOf(tables[s]) : s \in ToSet(sources)})
    /\ UNCHANGED <<progress, saved, sources, queue, back, reserved, handles, credentials>>

ClearWorkspace ==
    /\ phase = "dropped" /\ (RevokesAll => \A s \in Sources : ~Registered(s))
    /\ phase' = "restoring"
    /\ registered' = {}
    /\ reserved' = {}
    /\ saved' = [s \in Sources |-> IF s \in ToSet(sources) THEN tables[s] ELSE {}]
    /\ queue' = sources
    /\ sources' = <<>>
    /\ back' = <<>>
    /\ at' = [s \in Sources |-> IF s \in ToSet(sources) THEN "waiting" ELSE at[s]]
    /\ tables' = [s \in Sources |-> IF s \in ToSet(sources) THEN {} ELSE tables[s]]
    /\ UNCHANGED <<kind, file, label, again, reopens, relations, handles, credentials>>

(***************************************************************************)
(* doApplyLoadedFile mounts the sources of the snapshot one after the      *)
(* other.  One that needs the user, or has failed, is away.                *)
(***************************************************************************)
Remounting == \E s \in Sources : again[s] /\ InFlight(s)

RestoreNext ==
    /\ phase = "restoring"
    /\ queue # <<>>
    /\ ~Remounting
    /\ queue' = Tail(queue)
    /\ LET s == Head(queue)
       IN  \/ /\ kind[s] \in Restored
              /\ again' = [again EXCEPT ![s] = TRUE]
              /\ UNCHANGED tables
              /\ \E f \in After(s, 0, TRUE) : Begin(s, f)
           \/ /\ Goto(s, "away")
              /\ UNCHANGED <<tables, file, label, again, reserved>>
    /\ UNCHANGED <<kind, saved, sources, back, phase, reopens, duckdb, handles, credentials>>

(***************************************************************************)
(* addSources of all that came back.                                       *)
(***************************************************************************)
RestoreEnds ==
    /\ phase = "restoring"
    /\ queue = <<>>
    /\ ~Remounting
    /\ phase' = "none"
    /\ sources' = sources \o back
    /\ at' = [s \in Sources |-> IF s \in ToSet(back) THEN "mounted" ELSE at[s]]
    /\ again' = [s \in Sources |-> FALSE]
    /\ UNCHANGED <<kind, file, label, tables, saved, queue, back, reopens, duckdb, reserved,
                   handles, credentials>>

Next ==
    \/ \E s \in Sources :
          \/ Mount(s)
          \/ LoadFails(s) \/ NoneVended(s) \/ Vend(s) \/ VendFails(s)
          \/ RollBack(s) \/ CleanUp(s)
          \/ Configured(s) \/ ConfigureFails(s)
          \/ Undo(s) \/ Revoke(s)
          \/ Read(s) \/ ReadFails(s)
          \/ Create(s) \/ CreateFails(s)
          \/ Counted(s) \/ CountFails(s)
          \/ Kept(s) \/ KeepFails(s)
          \/ RemoveSource(s) \/ Released(s) \/ Removed(s)
    \/ Reopen
    \/ ClearWorkspace
    \/ RestoreNext
    \/ RestoreEnds

Spec == Init /\ [][Next]_vars

(***************************************************************************)
(* Every table of a source in the workbook can be queried under its name,  *)
(* and the relation of that name is the source's own and reads the file    *)
(* the table came from; a folder can be attached again.                    *)
(***************************************************************************)
SourceIntact ==
    \A s \in Sources :
        at[s] = "mounted" /\ phase # "dropped" =>
            /\ tables[s] # {}
            /\ \A t \in tables[s] :
                  /\ [name |-> t.name, by |-> s, origin |-> t.origin] \in relations
                  /\ HasFile(s) => <<s, t.origin>> \in registered
            /\ kind[s] = "folder" => s \in handles
            /\ s \in sessions => s \in secrets

(***************************************************************************)
(* A mount that makes several relations, or stores secrets after them,     *)
(* leaves those it has made when it fails then.                            *)
(***************************************************************************)
Partial(s) ==
    /\ kind[s] \in {"book", "s3", "catalog", "iceberg"}
    /\ at[s] \in {"failed", "away"}

(***************************************************************************)
(* So does a folder with the relations of a book that it could not count   *)
(* or create them all: it goes on without them.                            *)
(***************************************************************************)
Leftover(r) ==
    \/ Partial(r.by)
    \/ /\ kind[r.by] = "folder" /\ r.origin \in Books
       /\ r.name \notin NamesOf(tables[r.by])

(***************************************************************************)
(* A mount that failed leaves nothing else behind in DuckDB: a relation    *)
(* belongs to a source of the workbook or to a mount that is under way,    *)
(* and a file to a relation or to the mount that is about to create one;   *)
(* Leftover is the exception.                                              *)
(***************************************************************************)
NothingLeft ==
    /\ \A r \in relations :
          \/ InFlight(r.by) \/ at[r.by] = "remounted" \/ Leftover(r)
          \/ r.by \in ToSet(sources) /\ r.name \in NamesOf(tables[r.by])
    /\ \A f \in registered :
          Reads(relations, f) \/ (at[f[1]] = "creating" /\ file[f[1]] = f[2])
    /\ secrets \subseteq sessions
    /\ \A s \in sessions : InFlight(s) \/ at[s] = "remounted" \/ Partial(s) \/ s \in ToSet(sources)

(***************************************************************************)
(* The same without the exception ("so a failed mount doesn't leave an     *)
(* orphaned view/table behind", getRowCount).  Not kept.                   *)
(***************************************************************************)
NoOrphanedRelation == \A r \in relations : ~Leftover(r) \/ InFlight(r.by)

(***************************************************************************)
(* The allocator knows of every relation: the next mount is never offered  *)
(* a name that DuckDB would refuse ("Every source kind passes through this *)
(* allocator before registration", mountedRelationNames) - but for what a  *)
(* mount has left behind in a workspace that was replaced.                 *)
(***************************************************************************)
NamesReserved ==
    phase = "none" =>
        \A r \in relations : r.name.label \in reserved \/ Leftover(r)

(***************************************************************************)
(* What the user said of a table's columns stays with its file: a table    *)
(* never has the id that was made for another one ("Origin is the stable   *)
(* key", reconcileRemountedFolder; "Preserve the persisted ids so          *)
(* assignment keys still resolve", doApplyLoadedFile).  Not kept.          *)
(***************************************************************************)
IdentityKept ==
    \A s \in Sources : \A t \in tables[s] : at[s] = "mounted" => t.id.of = t.origin

(***************************************************************************)
(* No source loses its credentials through another one's ("any failed      *)
(* replacement is followed by target-owned cleanup",                       *)
(* DuckDbVendedCredentialTarget).  Not kept when two vend for one          *)
(* provider.                                                               *)
(***************************************************************************)
TargetOwnedCleanup ==
    [][\A s \in secrets \ secrets' : s \in sessions \ sessions']_vars
=============================================================================
