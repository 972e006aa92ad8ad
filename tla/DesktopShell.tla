----------------------------- MODULE DesktopShell -----------------------------
(***************************************************************************)
(* The recovery center of the desktop shell (lib.rs,                       *)
(* desktop_restore_recovery_backup) beside the backend of DesktopRecovery. *)
(* When the backend does not answer within the shell's patience the user   *)
(* may pick a snapshot.  The shell kills the backend, which may still be   *)
(* starting, copies the main database file to a safety backup, replaces it *)
(* and removes the -wal file, the journal and the marker one after the     *)
(* other.  No journal covers these steps.                                  *)
(***************************************************************************)
EXTENDS DesktopRecovery

CONSTANT
  CrashUncovered  \* may the shell die where no journal covers the restore?

ASSUME CrashAssumption == CrashUncovered \in BOOLEAN

VARIABLES
  shell,    \* next step of the restore
  pick,     \* the snapshot the user chose
  chosen    \* history: a restore has begun to replace the database

shellVars == <<vars, shell, pick, chosen>>

ShellInit == Init /\ shell = "idle" /\ pick = None /\ chosen = FALSE

Then(step) == shell' = step /\ UNCHANGED pick

\* The restore kills the backend before it touches a file.
StartRestore(s) ==
  /\ shell = "idle"
  /\ s \in ToSet(snapshots)
  /\ faults < MaxFaults
  /\ faults' = faults + 1
  /\ Stop
  /\ shell' = "safety" /\ pick' = s
  /\ UNCHANGED <<disk, app, owed, dropped, chosen>>

\* fs::copy of the main file only.
SafetyCopy ==
  /\ shell = "safety"
  /\ snapshots' = IF db = None THEN snapshots ELSE Append(snapshots, db)
  /\ Then("replace")
  /\ UNCHANGED <<db, wal, journal, unlinked, marker, app, process, owed,
                 dropped, faults, chosen>>

\* From here on the user may find the old or the chosen database.
ReplaceDb ==
  /\ shell = "replace"
  /\ db' = pick
  /\ owed' = owed \cup {pick.work}
  /\ chosen' = TRUE
  /\ Then("wal")
  /\ UNCHANGED <<wal, journal, unlinked, marker, snapshots, app, process,
                 dropped, faults>>

DropWal ==
  /\ shell = "wal"
  /\ wal' = None
  /\ Then("journal")
  /\ UNCHANGED <<db, journal, unlinked, marker, snapshots, app, process, owed,
                 dropped, faults, chosen>>

\* Mutant: the journal stays.
DropNoJournal == journal' = journal
DropJournalFile == journal' = None
DropJournal ==
  /\ shell = "journal"
  /\ DropJournalFile
  /\ unlinked' = journal
  /\ owed' = {pick.work}
  /\ Then("marker")
  /\ UNCHANGED <<db, wal, marker, snapshots, app, process, dropped, faults,
                 chosen>>

\* The marker is removed and the backend started again.
EndRestore ==
  /\ shell = "marker"
  /\ marker' = FALSE
  /\ shell' = "idle" /\ pick' = None
  /\ pc' = "recover"
  /\ UNCHANGED <<db, wal, journal, unlinked, snapshots, app, session, after,
                 owed, dropped, faults, chosen>>

\* The old -wal file lies beside the new database and there is no journal.
Uncovered == shell = "wal" /\ wal # None /\ journal = None

\* The shell is closed or dies.
CrashRestore ==
  /\ shell # "idle"
  /\ Uncovered => CrashUncovered
  /\ faults < MaxFaults
  /\ faults' = faults + 1
  /\ shell' = "idle" /\ pick' = None
  /\ UNCHANGED <<disk, app, process, owed, dropped, chosen>>

Restore ==
  SafetyCopy \/ ReplaceDb \/ DropWal \/ DropJournal \/ EndRestore

Backend(step) == shell = "idle" /\ step /\ UNCHANGED <<shell, pick, chosen>>

ShellNext ==
  \/ Backend(Next)
  \/ \E s \in ToSet(snapshots) : StartRestore(s)
  \/ Restore
  \/ CrashRestore

\* The process keeps running, the user opens the application again, and the shell
\* goes on with a restore; each of them starts the next step by itself.
ShellSpec ==
  ShellInit /\ [][ShellNext]_shellVars
    /\ WF_shellVars(Backend(StartStep)) /\ WF_shellVars(Restore)
-----------------------------------------------------------------------------
\* A restore makes the database the user chose the one the next start works
\* on, whatever migration it interrupted: nothing of the old one comes back.
RestoreTakesEffect == shell = "marker" => Recovered = pick

\* Until the user restores a snapshot, the next start finds all that was answered and
\* no power loss took, on a database that is not half migrated (WorkRecoverable).
\* After that, and between restores, it finds all that was answered since the user's
\* choice.  (It may be half migrated: the user may pick the safety copy of an
\* interrupted migration, which the next start migrates again.)
WorkRecoverableByChoice ==
  shell = "idle" =>
    IF ~chosen THEN WorkRecoverable
    ELSE IF Recovered = None THEN 0 \in owed
    ELSE Recovered.work \in owed /\ Recovered.state # "mixed"

\* "Database saat ini tetap dibuatkan safety copy": before the database is
\* replaced there is a backup of all it holds.
SafetyCopyComplete ==
  shell = "replace" =>
    \/ Opened = None
    \/ \E s \in ToSet(snapshots) : s.work = Opened.work

\* "menghapus WAL/SHM lama": a -wal file is never applied to a database it
\* was not made on.
NeverMixed ==
  shell = "idle" /\ Recovered # None => Recovered.state # "mixed"
=============================================================================
