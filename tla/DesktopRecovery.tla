--------------------------- MODULE DesktopRecovery ---------------------------
(***************************************************************************)
(* Start-up of the desktop edition's local backend on its SQLite file      *)
(* (model.InitDB with internal/desktoprecovery.Manager).  Before a schema  *)
(* migration, or when the updater left its marker, the manager copies the  *)
(* database to a snapshot and writes a journal beside it; the journal is   *)
(* removed when initialization succeeded.  A start that finds a journal    *)
(* first puts the snapshot back.  Closing the window kills the backend, so *)
(* a crash is possible between any two steps.                              *)
(*                                                                         *)
(* What SQLite does is modelled from how the code uses it: committed       *)
(* writes go to a -wal file beside the database and reach the main file at *)
(* a checkpoint; the last connection that closes makes one.  A -wal file   *)
(* is applied to whatever main file it lies beside.  The database is       *)
(* opened with _journal_mode=WAL and without _synchronous, so that the     *)
(* -wal file is synced at a checkpoint only: a power loss may leave any    *)
(* earlier state of it, and none of the commits since.                     *)
(***************************************************************************)
EXTENDS Naturals, Sequences, SequencesExt

CONSTANTS
  None,           \* a file that does not exist, a session that is not active
  MaxSchema,      \* bound on CurrentSchemaVersion
  MaxWork,        \* bound on the transactions of the user
  MaxFaults,      \* bound on crashes and failed initializations
  Retention,      \* number of snapshots pruneSnapshots leaves
  DurableUnlink   \* does a removed file stay removed after a power loss?

ASSUME BoundAssumption ==
  {MaxSchema, Retention} \subseteq Nat \ {0} /\ {MaxWork, MaxFaults} \subseteq Nat
ASSUME FlagAssumption == DurableUnlink \in BOOLEAN

VARIABLES
  db,         \* main database file
  wal,        \* the -wal file: what it was made on, what it makes of it, and
              \* what a power loss may leave of it
  journal,    \* desktop-migration-pending.json
  unlinked,   \* a journal whose removal is not synced to disk yet
  marker,     \* does desktop-update-pending exist?
  snapshots,  \* recovery-backups, oldest first
  app,        \* CurrentSchemaVersion of the installed backend
  pc,         \* next step of the backend process
  session,    \* Session: the journal this start works under
  after,      \* what follows a restore: go on starting, or exit
  owed,       \* numbers of user transactions the user may find
  dropped,    \* history: a power loss took commits, and no start ended since
  faults

disk == <<db, wal, journal, unlinked, marker, snapshots>>
process == <<pc, session, after>>
vars == <<disk, app, process, owed, dropped, faults>>

Version == 0 .. MaxSchema
Content == [work : 0 .. MaxWork, schema : Version, stamp : Version,
            state : {"clean", "partial", "mixed"}]
Fresh == [work |-> 0, schema |-> 0, stamp |-> 0, state |-> "clean"]
Journal == [existed : BOOLEAN, snapshot : Content \cup {None}, from : Version]
Wal == [base : Content, now : Content, older : SUBSET (Content \cup {None})]

\* No file is None.
ASSUME NoneAssumption == None \notin Content \cup Journal \cup Wal

\* What a connection sees.
Opened ==
  CASE db = None \/ wal = None -> db
    [] wal # None /\ db # None /\ wal.base = db -> wal.now
    [] OTHER -> [db EXCEPT !.state = "mixed"]

\* A committed transaction that turns the database on into d.  It is not synced.
Logged(on, d) ==
  [base  |-> IF wal = None THEN on ELSE wal.base,
   now   |-> d,
   older |-> IF wal = None THEN {None} ELSE (wal.older \cup {wal.now}) \ {d}]
Write(d) == wal' = Logged(db, d)

\* A checkpoint syncs both files.
Checkpoint == db' = Opened /\ wal' = None

Init ==
  /\ db = None /\ wal = None
  /\ journal = None /\ unlinked = None /\ marker = FALSE
  /\ snapshots = <<>>
  /\ app = 1
  /\ pc = "off" /\ session = None /\ after = "off"
  /\ owed = {0} /\ dropped = FALSE
  /\ faults = 0

Goto(step) == pc' = step /\ UNCHANGED <<session, after>>
-----------------------------------------------------------------------------
\* The shell starts the backend: when the application opens and there is a
\* database, or at the end of the onboarding.
Launch ==
  /\ pc = "off"
  /\ pc' = "recover"
  /\ UNCHANGED <<disk, app, session, after, owed, dropped, faults>>

\* Mutant: a start that finds a journal gives up.
FindJournalRefuses ==
  /\ journal = None
  /\ Goto("inspect")
\* recoverInterruptedMigration reads the journal.
FindJournal ==
  \/ /\ journal = None
     /\ Goto("inspect")
  \/ /\ journal # None
     /\ pc' = "restore" /\ session' = journal /\ after' = "inspect"
ReadJournal ==
  /\ pc = "recover"
  /\ FindJournal
  /\ UNCHANGED <<disk, app, owed, dropped, faults>>

\* restoreJournal: the snapshot, verified, replaces the database by a rename
\* and the directory is synced; or the database of a first start is removed.
RestoreDb ==
  /\ pc = "restore"
  /\ session.existed => session.snapshot \in ToSet(snapshots)
  /\ db' = session.snapshot
  /\ unlinked' = IF session.existed THEN None ELSE unlinked
  /\ Goto("cleanup")
  /\ UNCHANGED <<wal, journal, marker, snapshots, app, owed, dropped, faults>>

\* The -wal and -shm files of the replaced database are removed.
RemoveWal ==
  /\ pc = "cleanup"
  /\ wal' = None
  /\ Goto("finish")
  /\ UNCHANGED <<db, journal, unlinked, marker, snapshots, app, owed, dropped,
                 faults>>

\* Mutant: the recovery leaves the journal.
RecoveredJournalKept == journal
RecoveredJournal == None
\* finishRecovery: the event is written (and the directory synced), then the
\* journal is removed.
FinishRecovery ==
  /\ pc = "finish"
  /\ journal' = RecoveredJournal
  /\ unlinked' = journal
  /\ Goto("unmark")
  /\ UNCHANGED <<db, wal, marker, snapshots, app, owed, dropped, faults>>

Unmark ==
  /\ pc = "unmark"
  /\ marker' = FALSE
  /\ pc' = after /\ session' = None /\ after' = "off"
  /\ UNCHANGED <<db, wal, journal, unlinked, snapshots, app, owed, dropped,
                 faults>>
-----------------------------------------------------------------------------
\* Mutant: any recorded version will do.
IsCurrentStamped(d) == d # None /\ d.stamp > 0
\* readSchemaVersion >= CurrentSchemaVersion.
IsCurrent(d) == d # None /\ d.stamp >= app

\* Prepare: readSchemaVersion opens and closes the database; a current one
\* without the marker needs no session.
Inspect ==
  /\ pc = "inspect"
  /\ Checkpoint
  /\ Goto(IF IsCurrent(Opened) /\ ~marker THEN "open" ELSE "snapshot")
  /\ UNCHANGED <<journal, unlinked, marker, snapshots, app, owed, dropped,
                 faults>>

\* createSnapshot, if there is a database.
Snapshot ==
  /\ pc = "snapshot"
  /\ snapshots' = IF db = None THEN snapshots ELSE Append(snapshots, db)
  /\ session' = [existed |-> db # None, snapshot |-> db,
                 from |-> IF db = None THEN 0 ELSE db.stamp]
  /\ pc' = "journal"
  /\ UNCHANGED <<db, wal, journal, unlinked, marker, app, after, owed, dropped,
                 faults>>

\* Mutant: a first installation has nothing to lose and gets no journal.
JournalOfUpgrade == IF session.existed THEN session ELSE None
NewJournal == session
WriteJournal ==
  /\ pc = "journal"
  /\ journal' = NewJournal
  /\ unlinked' = None
  /\ Goto("open")
  /\ UNCHANGED <<db, wal, marker, snapshots, app, owed, dropped, faults>>

NeedsMigration == session # None /\ session.from < app

\* gorm.Open makes the file; a migration then changes table after table.
Open ==
  /\ pc = "open"
  /\ db' = IF db = None THEN Fresh ELSE db
  /\ IF NeedsMigration
     THEN wal' = Logged(db', [db' EXCEPT !.state = "partial"])
     ELSE UNCHANGED wal
  /\ Goto(IF NeedsMigration THEN "migrate" ELSE "seed")
  /\ UNCHANGED <<journal, unlinked, marker, snapshots, app, owed, dropped,
                 faults>>

\* MigrateTenantSchema is done.
Migrate ==
  /\ pc = "migrate"
  /\ Write([Opened EXCEPT !.state = "clean", !.schema = app])
  /\ Goto("seed")
  /\ UNCHANGED <<db, journal, unlinked, marker, snapshots, app, owed, dropped,
                 faults>>

\* The seeders are idempotent.  Without a session Commit has nothing to do.
Seed ==
  /\ pc = "seed"
  /\ Write(Opened)
  /\ Goto(IF session = None THEN "serving" ELSE "stamp")
  /\ dropped' = (dropped /\ session # None)
  /\ UNCHANGED <<db, journal, unlinked, marker, snapshots, app, owed, faults>>

\* Mutant: the next version is recorded.
StampNext == app + 1
Stamp == app
\* Commit: integrity check, then the row of desktop_schema_migrations.
CommitStamp ==
  /\ pc = "stamp"
  /\ Opened.state # "mixed"
  /\ Write([Opened EXCEPT !.stamp = Stamp])
  /\ Goto("remove")
  /\ UNCHANGED <<db, journal, unlinked, marker, snapshots, app, owed, dropped,
                 faults>>

\* Commit: the journal is removed; the directory is not synced.
RemoveJournal ==
  /\ pc = "remove"
  /\ journal' = None
  /\ unlinked' = journal
  /\ Goto("tidy")
  /\ UNCHANGED <<db, wal, marker, snapshots, app, owed, dropped, faults>>

\* Commit: the marker is removed and pruneSnapshots keeps the newest.
Tidy ==
  /\ pc = "tidy"
  /\ marker' = FALSE
  /\ snapshots' = IF Len(snapshots) <= Retention THEN snapshots ELSE
        SubSeq(snapshots, Len(snapshots) - Retention + 1, Len(snapshots))
  /\ pc' = "serving" /\ session' = None
  /\ dropped' = FALSE
  /\ UNCHANGED <<db, wal, journal, unlinked, app, after, owed, faults>>

\* A step of InitDB fails after Prepare: the connection is closed and, under
\* a session, Rollback restores the snapshot; then the process exits.
FailInit ==
  /\ pc \in {"open", "migrate", "seed", "stamp", "remove", "tidy"}
  /\ faults < MaxFaults
  /\ faults' = faults + 1
  /\ Checkpoint
  /\ pc' = IF session = None THEN "off" ELSE "restore"
  /\ after' = "off"
  /\ UNCHANGED <<journal, unlinked, marker, snapshots, app, session, owed,
                 dropped>>
-----------------------------------------------------------------------------
\* A request commits while the backend serves; its answer makes it owed.
Work ==
  /\ pc = "serving"
  /\ Opened.work < MaxWork
  /\ Write([Opened EXCEPT !.work = @ + 1])
  /\ owed' = {Opened.work + 1}
  /\ UNCHANGED <<db, journal, unlinked, marker, snapshots, app, process,
                 dropped, faults>>

\* SQLite's automatic checkpoint, or the clean exit of a server.
Autocheckpoint ==
  /\ pc \in {"migrate", "seed", "stamp", "remove", "tidy", "serving"}
  /\ wal # None
  /\ Checkpoint
  /\ UNCHANGED <<journal, unlinked, marker, snapshots, app, process, owed,
                 dropped, faults>>

\* desktop_prepare_update, before the updater installs a release ...
PrepareUpdate ==
  /\ pc = "serving"
  /\ marker' = TRUE
  /\ UNCHANGED <<db, wal, journal, unlinked, snapshots, app, process, owed,
                 dropped, faults>>

\* ... which may have a newer schema (or come from an installer).
Install(v) ==
  /\ pc = "off"
  /\ v > app
  /\ app' = v
  /\ UNCHANGED <<disk, process, owed, dropped, faults>>

Stop == pc' = "off" /\ session' = None /\ after' = "off"

\* The window is closed (child.kill), a step fails before there is a session
\* or in a restore, the process crashes.
Kill ==
  /\ pc # "off"
  /\ faults < MaxFaults
  /\ faults' = faults + 1
  /\ Stop
  /\ UNCHANGED <<disk, app, owed, dropped>>

\* What a power loss may leave of the -wal file, all of it or an earlier state.
Left ==
  IF wal = None THEN {None}
  ELSE {[wal EXCEPT !.now = d, !.older = {}] :
          d \in ({wal.now} \cup wal.older) \ {None}}
       \cup (wal.older \cap {None})

\* A power loss takes the latest commits, and may bring back a journal whose
\* removal was not synced.  Without a journal the user loses those commits.
PowerLoss ==
  /\ faults < MaxFaults
  /\ faults' = faults + 1
  /\ journal' \in {journal} \cup
       (IF DurableUnlink \/ unlinked = None THEN {} ELSE {unlinked})
  /\ wal' \in Left
  /\ unlinked' = None
  /\ Stop
  /\ UNCHANGED <<db, marker, snapshots, app>>
  /\ LET Takes == journal' = None /\ Opened' # Opened
     IN  /\ owed' = IF Takes THEN {Opened'.work} ELSE owed
         /\ dropped' = (dropped \/ Takes)

StartStep ==
  \/ Launch \/ ReadJournal \/ RestoreDb \/ RemoveWal \/ FinishRecovery
  \/ Unmark \/ Inspect \/ Snapshot \/ WriteJournal \/ Open \/ Migrate
  \/ Seed \/ CommitStamp \/ RemoveJournal \/ Tidy

Next ==
  \/ StartStep
  \/ FailInit
  \/ Work
  \/ Autocheckpoint
  \/ PrepareUpdate
  \/ \E v \in 1 .. MaxSchema : Install(v)
  \/ Kill
  \/ PowerLoss

\* The process keeps running, and the user opens the application again.
Spec == Init /\ [][Next]_vars /\ WF_vars(StartStep)
-----------------------------------------------------------------------------
TypeOK ==
  /\ db \in Content \cup {None}
  /\ wal \in Wal \cup {None}
  /\ {journal, unlinked, session} \subseteq Journal \cup {None}
  /\ marker \in BOOLEAN
  /\ ToSet(snapshots) \subseteq Content
  /\ app \in Version /\ faults \in 0 .. MaxFaults
  /\ owed \subseteq 0 .. MaxWork /\ dropped \in BOOLEAN
  /\ after \in {"off", "inspect"}

\* The database the next start would work on: what the journal names, or the
\* files as they lie there.
Recovered == IF journal = None THEN Opened ELSE journal.snapshot

\* Wherever the process is interrupted, the next start finds every transaction
\* that was answered, but for those a power loss took (the last ones, since the
\* last checkpoint), on a database that is not half migrated, unless a power
\* loss took the end of a migration whose journal was removed already.  When
\* it is the snapshot, the snapshot has not been pruned.
WorkRecoverable ==
  /\ IF Recovered = None THEN 0 \in owed
     ELSE /\ Recovered.work \in owed
          /\ Recovered.state # "mixed"
          /\ dropped \/ Recovered.state = "clean"
  /\ journal # None /\ journal.existed => journal.snapshot \in ToSet(snapshots)

\* A backend serves only a database whose migration to its own version ran
\* to its end and was recorded.
ServesMigrated ==
  pc = "serving" => /\ Opened.state = "clean"
                    /\ Opened.schema = app
                    /\ Opened.stamp = app

\* Once crashes and failures stop, the application comes up by itself: no
\* journal, marker or half-written file keeps it from starting.
ComesUp == <>[](pc = "serving")

\* "interrupted migration detected during startup": a start puts a snapshot
\* back only when the start that made it never came to serve anybody.
RestoresOnlyInterrupted ==
  [][pc = "recover" /\ pc' = "restore" /\ journal.existed =>
       Opened = None \/ Opened.work = journal.snapshot.work]_vars
=============================================================================
