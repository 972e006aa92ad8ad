------------------------- MODULE DesktopShell_proofs -------------------------
(***************************************************************************)
(* The desktop backend loses nothing it has answered but the last commits  *)
(* a power loss takes from the unsynced -wal file, never serves a half     *)
(* migrated database, and a restore takes effect, for any number of        *)
(* crashes, restores, transactions and schema versions, when a removed     *)
(* journal stays removed and the shell does not die in its one uncovered   *)
(* window.  The argument: a journal, as long as it is there, names a       *)
(* snapshot that holds all that is owed; without one the files themselves  *)
(* do, and the -wal file fits the database, as does every earlier state of *)
(* it.  Beside that (Interrupted): as long as there is a journal, nobody   *)
(* has been served since its snapshot, so that a start puts one back only  *)
(* when that loses nothing.                                                *)
(***************************************************************************)
EXTENDS DesktopShell, TLAPS

Steps == {"off", "recover", "restore", "cleanup", "finish", "unmark", "inspect", "snapshot",
          "journal", "open", "migrate", "seed", "stamp", "remove", "tidy", "serving"}

Typed ==
  /\ TypeOK
  /\ snapshots \in Seq(Content) /\ app > 0 /\ pc \in Steps
  /\ shell \in {"idle", "safety", "replace", "wal", "journal", "marker"}
  /\ pick \in Content \cup {None} /\ chosen \in BOOLEAN

\* What a file can be: nothing mixed, nothing of a later version, and a database with the
\* version of the backend has been migrated to it.
Good(d) ==
  /\ d.state # "mixed" /\ d.stamp <= app /\ d.schema <= app
  /\ d.stamp = app => d.state = "clean" /\ d.schema = app

GoodFile(d) == d # None => Good(d)

FilesGood ==
  /\ GoodFile(db)
  /\ wal # None => Good(wal.now) /\ \A d \in wal.older \ {None} : Good(d)
  /\ \A s \in ToSet(snapshots) : Good(s)
  /\ journal # None => GoodFile(journal.snapshot)
  /\ session # None => GoodFile(session.snapshot)

\* What the user may find.
Found(d) ==
  /\ IF d = None THEN 0 \in owed ELSE d.work \in owed
  /\ ~chosen /\ ~dropped /\ d # None => d.state = "clean"

\* The -wal file was made on the database it lies beside.
WalFits == wal # None => db # None /\ wal.base = db

Kept(j) == j.existed => j.snapshot \in ToSet(snapshots)

\* The next start finds what is owed, by the journal or in the files.
NextStart ==
  /\ journal = None /\ shell # "wal" => WalFits /\ Found(Opened)
  /\ journal # None => Found(journal.snapshot) /\ Kept(journal)

\* Which steps work under a session, and when its journal is there.
SessionOK ==
  /\ pc \in {"off", "recover", "inspect", "snapshot", "serving"} => session = None
  /\ pc \in {"restore", "cleanup", "finish", "unmark", "journal", "migrate", "stamp", "remove", "tidy"}
       => session # None
  /\ session # None => Found(session.snapshot)
  /\ pc \in {"inspect", "snapshot", "journal", "unmark", "tidy", "serving"} => journal = None
  /\ pc \in {"open", "migrate", "seed", "stamp", "remove"} => journal = session

\* What a start has reached.
RestoreOK ==
  /\ pc \in {"restore", "cleanup"} /\ journal = None => wal = None
  /\ pc \in {"cleanup", "finish", "unmark"} => db = session.snapshot
  /\ pc \in {"finish", "unmark"} => wal = None

PrepareOK ==
  /\ pc \in {"snapshot", "journal", "open"} => wal = None
  /\ pc = "journal" => Kept(session)
  /\ pc \in {"journal", "open"} /\ session # None =>
       session.snapshot = db /\ session.from = IF db = None THEN 0 ELSE db.stamp
  /\ pc = "open" /\ session = None => db # None /\ db.stamp = app

RunOK ==
  /\ pc \in {"migrate", "seed", "stamp", "remove", "tidy", "serving"} =>
       WalFits /\ db # None /\ Opened.work \in owed
  /\ pc \in {"seed", "stamp", "remove", "tidy", "serving"} =>
       Opened.state = "clean" /\ Opened.schema = app
  /\ pc \in {"remove", "tidy", "serving"} \/ (pc = "seed" /\ session = None) => Opened.stamp = app

\* What a restore by the shell has reached.
ShellOK ==
  /\ shell # "idle" => pc = "off" /\ pick # None /\ Good(pick)
  /\ shell \in {"wal", "journal", "marker"} => chosen /\ db = pick /\ pick.work \in owed
  /\ shell \in {"journal", "marker"} => wal = None
  /\ shell = "marker" => journal = None

StartOK == SessionOK /\ RestoreOK /\ PrepareOK /\ RunOK

IInv == Typed /\ FilesGood /\ NextStart /\ StartOK /\ ShellOK
-----------------------------------------------------------------------------
\* What a connection sees when the -wal file fits: the last thing written.
LEMMA Seen ==
  WalFits => Opened = IF wal = None THEN db ELSE wal.now
BY DEF WalFits, Opened

\* A connection sees the same as long as the files stay.
LEMMA SeenSame ==
  ASSUME db' = db, wal' = wal
  PROVE  Opened' = Opened /\ WalFits' = WalFits
BY DEF WalFits, Opened

\* Without a -wal file it sees the database file.
LEMMA SeenBare ==
  wal = None => WalFits /\ Opened = db
BY DEF WalFits, Opened

LEMMA SeenBareNext ==
  ASSUME wal' = None PROVE WalFits' /\ Opened' = db'
BY DEF WalFits, Opened

\* What a connection sees is a whole file again, when the -wal file fits.
LEMMA SeenGood ==
  ASSUME Typed, FilesGood, WalFits
  PROVE  /\ Opened \in Content \cup {None} /\ GoodFile(Opened)
         /\ db # None => Opened \in Content /\ Opened # None /\ Good(Opened)
<1>1. CASE wal = None
  BY <1>1, SeenBare, NoneAssumption DEF Typed, TypeOK, FilesGood, GoodFile
<1>2. CASE wal # None
  <2>1. Opened = wal.now
    BY <1>2, Seen
  <2>2. wal \in Wal
    BY <1>2 DEF Typed, TypeOK
  <2>3. wal.now \in Content /\ wal.now # None
    BY <2>2, NoneAssumption DEF Wal
  <2> QED BY <1>2, <2>1, <2>3 DEF FilesGood, GoodFile
<1> QED BY <1>1, <1>2

\* A checkpoint changes no more than where the content lies.
LEMMA CheckpointKeeps ==
  ASSUME Checkpoint
  PROVE  db' = Opened /\ wal' = None /\ WalFits' /\ Opened' = Opened
BY DEF Checkpoint, WalFits, Opened

\* The -wal file after a transaction on a file that it fits.
LEMMA LoggedFits ==
  ASSUME Typed, NEW on \in Content, NEW d \in Content, wal # None => wal.base = on
  PROVE  \E w \in Wal : /\ w = Logged(on, d) /\ w # None /\ w.base = on /\ w.now = d
                        /\ w.older = IF wal = None THEN {None}
                                     ELSE (wal.older \cup {wal.now}) \ {d}
<1> DEFINE o == IF wal = None THEN {None} ELSE (wal.older \cup {wal.now}) \ {d}
           w == [base |-> on, now |-> d, older |-> o]
<1>1. w = Logged(on, d)
  BY DEF Logged
<1>2. o \subseteq Content \cup {None}
  BY DEF Typed, TypeOK, Wal
<1>3. w \in Wal
  BY <1>2 DEF Wal
<1>4. w # None
  BY <1>3, NoneAssumption
<1> QED BY <1>1, <1>3, <1>4

\* A write leaves a -wal file that fits and is what a connection sees then; a power loss may
\* leave what the file was before.
LEMMA WriteIsSeen ==
  ASSUME WalFits, db # None, db \in Content, Typed, NEW d \in Content, Write(d), db' = db
  PROVE  /\ wal' \in Wal /\ wal'.now = d /\ wal' # None /\ WalFits' /\ Opened' = d
         /\ \A e \in wal'.older \ {None} : wal # None /\ e \in (wal.older \ {None}) \cup {wal.now}
<1>1. PICK w \in Wal : /\ w = Logged(db, d) /\ w # None /\ w.base = db /\ w.now = d
                       /\ w.older = IF wal = None THEN {None}
                                    ELSE (wal.older \cup {wal.now}) \ {d}
  BY LoggedFits DEF WalFits
<1>2. wal' = w
  BY <1>1 DEF Write
<1>3. wal' \in Wal /\ wal'.base = db /\ wal'.now = d /\ wal' # None
  BY <1>1, <1>2
<1>4. WalFits' /\ Opened' = d
  BY <1>3 DEF WalFits, Opened
<1> QED BY <1>1, <1>2, <1>3, <1>4

\* Appending a snapshot keeps the others; pruning adds none.
LEMMA AppendKeeps ==
  ASSUME NEW q \in Seq(Content), NEW d \in Content
  PROVE  /\ Append(q, d) \in Seq(Content)
         /\ ToSet(Append(q, d)) = ToSet(q) \cup {d}
<1>1. \A i \in DOMAIN q : Append(q, d)[i] = q[i]
  OBVIOUS
<1>2. Append(q, d)[Len(q) + 1] = d /\ DOMAIN Append(q, d) = DOMAIN q \cup {Len(q) + 1}
  OBVIOUS
<1> QED BY <1>1, <1>2 DEF ToSet

LEMMA PruneAddsNothing ==
  ASSUME NEW q \in Seq(Content), NEW n \in Nat, ~(Len(q) <= n)
  PROVE  /\ SubSeq(q, Len(q) - n + 1, Len(q)) \in Seq(Content)
         /\ ToSet(SubSeq(q, Len(q) - n + 1, Len(q))) \subseteq ToSet(q)
<1> DEFINE m == Len(q) - n + 1
           p == SubSeq(q, m, Len(q))
<1>1. m \in 1 .. Len(q) + 1 /\ Len(q) \in Nat
  OBVIOUS
<1>2. p \in Seq(Content) /\ Len(p) = Len(q) - m + 1 /\ \A i \in 1 .. Len(p) : p[i] = q[i + m - 1]
  BY <1>1
<1>3. \A i \in 1 .. Len(p) : i + m - 1 \in DOMAIN q
  BY <1>1, <1>2
<1>4. DOMAIN p = 1 .. Len(p)
  BY <1>2
<1> QED BY <1>2, <1>3, <1>4 DEF ToSet
-----------------------------------------------------------------------------
\* A step that leaves the files, the snapshots and what is owed alone leaves what is said of
\* them alone.
LEMMA FilesStay ==
  ASSUME FilesGood, NextStart, UNCHANGED <<db, wal, journal, snapshots, app, owed, dropped, chosen>>,
         shell' = shell, session' \in {session, journal, None}
  PROVE  FilesGood' /\ NextStart' /\ Opened' = Opened /\ WalFits' = WalFits
<1>1. Opened' = Opened /\ WalFits' = WalFits
  BY SeenSame
<1>2. FilesGood'
  BY DEF FilesGood, GoodFile, Good
<1>3. NextStart'
  BY <1>1 DEF NextStart, Found, Kept
<1> QED BY <1>1, <1>2, <1>3

LEMMA LaunchStep == ASSUME IInv, Backend(Launch) PROVE IInv'
<1>1. Typed'
  BY DEF IInv, Typed, TypeOK, Backend, Launch, disk, Steps
<1>2. FilesGood' /\ NextStart' /\ Opened' = Opened /\ WalFits' = WalFits
  BY FilesStay DEF IInv, Backend, Launch, disk
<1>3. StartOK'
  BY DEF IInv, StartOK, SessionOK, RestoreOK, PrepareOK, RunOK, Backend, Launch, disk
<1>4. ShellOK'
  BY DEF IInv, ShellOK, Backend, Launch, disk, Good
<1> QED BY <1>1, <1>2, <1>3, <1>4 DEF IInv

\* The journal that is found becomes the session.
LEMMA ReadJournalStep == ASSUME IInv, Backend(ReadJournal) PROVE IInv'
<1>1. Typed'
  BY DEF IInv, Typed, TypeOK, Backend, ReadJournal, FindJournal, Goto, disk, Steps
<1>2. FilesGood' /\ NextStart' /\ Opened' = Opened /\ WalFits' = WalFits
  BY FilesStay DEF IInv, Backend, ReadJournal, FindJournal, Goto, disk
<1>3. StartOK'
  <2>1. SessionOK'
    BY DEF IInv, StartOK, SessionOK, NextStart, Found, Backend, ReadJournal, FindJournal, Goto,
       disk
  <2>2. RestoreOK' /\ PrepareOK' /\ RunOK'
    BY DEF IInv, StartOK, SessionOK, RestoreOK, PrepareOK, RunOK, Backend, ReadJournal,
       FindJournal, Goto, disk
  <2> QED BY <2>1, <2>2 DEF StartOK
<1>4. ShellOK'
  BY DEF IInv, ShellOK, Backend, ReadJournal, FindJournal, Goto, disk, Good
<1> QED BY <1>1, <1>2, <1>3, <1>4 DEF IInv

\* The snapshot replaces the database; a -wal file of the old one may lie beside it as long
\* as the journal is there.
LEMMA RestoreDbStep == ASSUME IInv, Backend(RestoreDb) PROVE IInv'
<1>0. session # None /\ session \in Journal /\ Found(session.snapshot) /\ GoodFile(session.snapshot)
  BY DEF IInv, Typed, TypeOK, StartOK, SessionOK, FilesGood, Backend, RestoreDb
<1>1. Typed'
  BY <1>0 DEF IInv, Typed, TypeOK, Backend, RestoreDb, Goto, Steps, Journal
<1>2. FilesGood'
  BY <1>0 DEF IInv, FilesGood, GoodFile, Good, Backend, RestoreDb, Goto
<1>3. NextStart'
  <2>1. CASE journal # None
    BY <2>1 DEF IInv, NextStart, Found, Kept, Backend, RestoreDb, Goto
  <2>2. CASE journal = None
    <3>1. wal' = None
      BY <2>2 DEF IInv, StartOK, RestoreOK, Backend, RestoreDb
    <3>2. WalFits' /\ Opened' = session.snapshot
      BY <3>1, SeenBareNext DEF Backend, RestoreDb
    <3> QED BY <1>0, <2>2, <3>2 DEF NextStart, Found, Backend, RestoreDb, Goto
  <2> QED BY <2>1, <2>2
<1>4. StartOK'
  BY <1>0 DEF IInv, StartOK, SessionOK, RestoreOK, PrepareOK, RunOK, Found, Backend, RestoreDb,
     Goto
<1>5. ShellOK'
  BY DEF IInv, ShellOK, Backend, RestoreDb, Goto, Good
<1> QED BY <1>1, <1>2, <1>3, <1>4, <1>5 DEF IInv

LEMMA RemoveWalStep == ASSUME IInv, Backend(RemoveWal) PROVE IInv'
<1>0. /\ session # None /\ Found(session.snapshot) /\ db = session.snapshot
      /\ WalFits' /\ Opened' = db
  BY SeenBareNext DEF IInv, StartOK, SessionOK, RestoreOK, Backend, RemoveWal
<1>1. Typed'
  BY DEF IInv, Typed, TypeOK, Backend, RemoveWal, Goto, Steps
<1>2. FilesGood'
  BY DEF IInv, FilesGood, GoodFile, Good, Backend, RemoveWal, Goto
<1>3. NextStart'
  BY <1>0 DEF IInv, NextStart, Found, Kept, Backend, RemoveWal, Goto
<1>4. StartOK'
  BY <1>0 DEF IInv, StartOK, SessionOK, RestoreOK, PrepareOK, RunOK, Found, Backend, RemoveWal,
     Goto
<1>5. ShellOK'
  BY DEF IInv, ShellOK, Backend, RemoveWal, Goto, Good
<1> QED BY <1>1, <1>2, <1>3, <1>4, <1>5 DEF IInv

\* The journal goes when the files are what it named.
LEMMA FinishRecoveryStep == ASSUME IInv, Backend(FinishRecovery) PROVE IInv'
<1>0. /\ session # None /\ Found(session.snapshot) /\ db = session.snapshot /\ wal' = None
      /\ WalFits' /\ Opened' = db
  BY SeenBareNext DEF IInv, StartOK, SessionOK, RestoreOK, Backend, FinishRecovery
<1>1. Typed'
  BY DEF IInv, Typed, TypeOK, Backend, FinishRecovery, RecoveredJournal, Goto, Steps
<1>2. FilesGood'
  BY DEF IInv, FilesGood, GoodFile, Good, Backend, FinishRecovery, RecoveredJournal, Goto
<1>3. NextStart'
  BY <1>0 DEF IInv, NextStart, Found, Backend, FinishRecovery, RecoveredJournal, Goto
<1>4. StartOK'
  BY <1>0 DEF IInv, StartOK, SessionOK, RestoreOK, PrepareOK, RunOK, Found, Backend,
     FinishRecovery, RecoveredJournal, Goto
<1>5. ShellOK'
  BY DEF IInv, ShellOK, Backend, FinishRecovery, RecoveredJournal, Goto, Good
<1> QED BY <1>1, <1>2, <1>3, <1>4, <1>5 DEF IInv

LEMMA UnmarkStep == ASSUME IInv, Backend(Unmark) PROVE IInv'
<1>1. Typed'
  BY DEF IInv, Typed, TypeOK, Backend, Unmark, Steps
<1>2. FilesGood' /\ NextStart' /\ Opened' = Opened /\ WalFits' = WalFits
  BY FilesStay DEF IInv, Backend, Unmark
<1>3. StartOK'
  BY DEF IInv, Typed, TypeOK, StartOK, SessionOK, RestoreOK, PrepareOK, RunOK, Backend, Unmark
<1>4. ShellOK'
  BY DEF IInv, ShellOK, Backend, Unmark, Good
<1> QED BY <1>1, <1>2, <1>3, <1>4 DEF IInv
-----------------------------------------------------------------------------
\* readSchemaVersion opens and closes the database: what it held is in the file now.
LEMMA InspectStep == ASSUME IInv, Backend(Inspect) PROVE IInv'
<1>0. session = None /\ journal = None /\ WalFits /\ Found(Opened) /\ shell = "idle"
  BY DEF IInv, StartOK, SessionOK, NextStart, Backend, Inspect
<1>a. Opened \in Content \cup {None} /\ GoodFile(Opened)
  BY <1>0, SeenGood DEF IInv
<1>b. db' = Opened /\ wal' = None /\ WalFits' /\ Opened' = Opened
  BY CheckpointKeeps DEF Backend, Inspect
<1>1. Typed'
  BY <1>a, <1>b DEF IInv, Typed, TypeOK, Backend, Inspect, Goto, Steps
<1>2. FilesGood'
  BY <1>a, <1>b DEF IInv, FilesGood, GoodFile, Good, Backend, Inspect, Goto
<1>3. NextStart'
  BY <1>0, <1>b DEF NextStart, Found, Backend, Inspect, Goto
<1>4. StartOK'
  <2>1. pc' = "open" => Opened # None /\ Opened.stamp = app
    <3>1. ASSUME Opened # None, Opened.stamp >= app PROVE Opened.stamp = app
      BY <1>a, <3>1 DEF GoodFile, Good, IInv, Typed, TypeOK, Content, Version
    <3> QED BY <3>1 DEF Backend, Inspect, Goto, IsCurrent
  <2>2. pc' \in {"open", "snapshot"}
    BY DEF Backend, Inspect, Goto
  <2> QED BY <1>0, <1>b, <2>1, <2>2
         DEF StartOK, SessionOK, RestoreOK, PrepareOK, RunOK, Backend, Inspect, Goto
<1>5. ShellOK'
  BY DEF IInv, ShellOK, Backend, Inspect, Goto, Good
<1> QED BY <1>1, <1>2, <1>3, <1>4, <1>5 DEF IInv

\* The snapshot is the file, and the file is all there is.
LEMMA SnapshotStep == ASSUME IInv, Backend(Snapshot) PROVE IInv'
<1>0. /\ session = None /\ journal = None /\ wal = None /\ Opened = db /\ Found(db)
      /\ shell = "idle" /\ WalFits
  BY SeenBare DEF IInv, StartOK, SessionOK, PrepareOK, NextStart, Backend, Snapshot
<1>a. db \in Content \cup {None} /\ snapshots \in Seq(Content)
  BY DEF IInv, Typed, TypeOK
<1>b. snapshots' \in Seq(Content) /\ ToSet(snapshots') = ToSet(snapshots) \cup ({db} \ {None})
  <2>1. CASE db = None
    BY <1>a, <2>1 DEF Backend, Snapshot
  <2>2. CASE db # None
    <3>1. db \in Content /\ snapshots' = Append(snapshots, db)
      BY <1>a, <2>2 DEF Backend, Snapshot
    <3>2. snapshots' \in Seq(Content) /\ ToSet(snapshots') = ToSet(snapshots) \cup {db}
      BY <1>a, <3>1, AppendKeeps
    <3> QED BY <2>2, <3>2
  <2> QED BY <2>1, <2>2
<1>c. Opened' = db /\ WalFits'
  BY <1>0, SeenSame DEF Backend, Snapshot
<1>d. /\ session' \in Journal /\ session' # None
      /\ session'.existed = (db # None) /\ session'.snapshot = db
      /\ session'.from = IF db = None THEN 0 ELSE db.stamp
  <2>1. (IF db = None THEN 0 ELSE db.stamp) \in Version
    BY <1>a, BoundAssumption DEF Content, Version
  <2>2. session' = [existed |-> db # None, snapshot |-> db, from |-> IF db = None THEN 0 ELSE db.stamp]
    BY DEF Backend, Snapshot
  <2>3. session' \in Journal
    BY <1>a, <2>1, <2>2 DEF Journal
  <2> QED BY <2>2, <2>3, NoneAssumption
<1>1. Typed'
  BY <1>a, <1>b, <1>d DEF IInv, Typed, TypeOK, Backend, Snapshot, Steps
<1>2. FilesGood'
  BY <1>b, <1>d DEF IInv, FilesGood, GoodFile, Good, Backend, Snapshot
<1>3. NextStart'
  BY <1>0, <1>c DEF NextStart, Found, Backend, Snapshot
<1>4. StartOK'
  BY <1>0, <1>b, <1>c, <1>d
  DEF StartOK, SessionOK, RestoreOK, PrepareOK, RunOK, Found, Kept, Backend, Snapshot
<1>5. ShellOK'
  BY DEF IInv, ShellOK, Backend, Snapshot, Good
<1> QED BY <1>1, <1>2, <1>3, <1>4, <1>5 DEF IInv

LEMMA WriteJournalStep == ASSUME IInv, Backend(WriteJournal) PROVE IInv'
<1>0. session # None /\ session \in Journal /\ Found(session.snapshot) /\ GoodFile(session.snapshot)
      /\ Kept(session)
  BY DEF IInv, Typed, TypeOK, StartOK, SessionOK, PrepareOK, FilesGood, Backend, WriteJournal
<1>1. Typed'
  BY <1>0 DEF IInv, Typed, TypeOK, Backend, WriteJournal, NewJournal, Goto, Steps
<1>a. Opened' = Opened /\ WalFits' = WalFits
  BY SeenSame DEF Backend, WriteJournal
<1>2. FilesGood'
  BY <1>0 DEF IInv, FilesGood, GoodFile, Good, Backend, WriteJournal, NewJournal, Goto
<1>3. NextStart'
  BY <1>0 DEF NextStart, Found, Kept, Backend, WriteJournal, NewJournal, Goto
<1>4. StartOK'
  BY <1>0, <1>a DEF IInv, StartOK, SessionOK, RestoreOK, PrepareOK, RunOK, Found, Backend,
     WriteJournal, NewJournal, Goto
<1>5. ShellOK'
  BY DEF IInv, ShellOK, Backend, WriteJournal, NewJournal, Goto, Good
<1> QED BY <1>1, <1>2, <1>3, <1>4, <1>5 DEF IInv

\* A new database is empty, which is what is owed of a first start; without a session the
\* database already is of the backend's version.
LEMMA OpenStep == ASSUME IInv, Backend(Open) PROVE IInv'
<1> DEFINE d == IF db = None THEN Fresh ELSE db
           p == [d EXCEPT !.state = "partial"]
<1>0. /\ journal = session /\ wal = None /\ Opened = db /\ shell = "idle"
      /\ session # None => /\ session \in Journal /\ session.snapshot = db /\ Found(db) /\ Kept(session)
                           /\ session.from = IF db = None THEN 0 ELSE db.stamp
      /\ session = None => db # None /\ db.stamp = app /\ Found(db)
  BY SeenBare DEF IInv, Typed, TypeOK, StartOK, SessionOK, PrepareOK, NextStart, Backend, Open
<1>a. app \in Version /\ app > 0 /\ app \in Nat /\ 0 \in Version
  BY BoundAssumption DEF IInv, Typed, TypeOK, Version
<1>b. db # None => db \in Content /\ Good(db)
  BY DEF IInv, Typed, TypeOK, FilesGood, GoodFile
<1>c. Fresh \in Content /\ Fresh.work = 0 /\ Fresh.stamp = 0 /\ Fresh.schema = 0 /\ Fresh.state = "clean"
  BY <1>a, BoundAssumption DEF Fresh, Content, Version
<1>d. d \in Content /\ Good(d) /\ d.work \in owed /\ d # None
      /\ (~chosen /\ ~dropped => d.state = "clean")
  <2>1. Good(Fresh)
    BY <1>a, <1>c DEF Good
  <2>2. Found(db)
    BY <1>0
  <2> QED BY <1>b, <1>c, <2>1, <2>2, NoneAssumption DEF Found
<1>e. /\ p \in Content /\ p.work = d.work /\ p.schema = d.schema /\ p.stamp = d.stamp
      /\ p.state = "partial"
  BY <1>d DEF Content
<1>f. NeedsMigration => session # None /\ d.stamp < app
  BY <1>0, <1>a, <1>c DEF NeedsMigration
<1>g. ~NeedsMigration => d = db /\ db.stamp = app /\ db # None
  <2>1. ASSUME session # None, ~NeedsMigration PROVE d = db /\ db.stamp = app /\ db # None
    <3>1. db # None
      BY <1>0, <1>a, <2>1 DEF NeedsMigration
    <3>2. db.stamp \in Nat /\ db.stamp <= app
      BY <1>b, <3>1 DEF Content, Version, Good
    <3>3. ~(db.stamp < app)
      BY <1>0, <2>1, <3>1 DEF NeedsMigration
    <3> QED BY <1>a, <3>1, <3>2, <3>3
  <2> QED BY <1>0, <2>1
<1>h. db' = d
  BY DEF Backend, Open
<1>i. CASE NeedsMigration
  <2>1. PICK w \in Wal : w = Logged(d, p) /\ w # None /\ w.base = d /\ w.now = p /\ w.older = {None}
    <3>1. PICK q \in Content : q = p
      BY <1>e
    <3>2. \E w \in Wal : /\ w = Logged(d, q) /\ w # None /\ w.base = d /\ w.now = q
                         /\ w.older = {None}
      BY <1>0, <1>d, LoggedFits DEF IInv
    <3> QED BY <3>1, <3>2
  <2>2. wal' \in Wal /\ wal'.base = d /\ wal'.now = p /\ wal'.older = {None}
    BY <2>1, <1>i, <1>h DEF Backend, Open
  <2>3. wal' # None
    BY <2>2, NoneAssumption
  <2>4. WalFits' /\ Opened' = p
    BY <2>2, <2>3, <1>h, <1>d DEF WalFits, Opened
  <2>5. Good(p)
    <3>1. d.stamp # app
      BY <1>a, <1>d, <1>f, <1>i DEF Content, Version
    <3> QED BY <1>d, <1>e, <3>1 DEF Good
  <2>6. pc' = "migrate" /\ UNCHANGED <<session, after>> /\ session # None
    BY <1>i, <1>f DEF Backend, Open, Goto
  <2>7. Typed'
    BY <2>2, <2>6, <1>h, <1>d DEF IInv, Typed, TypeOK, Backend, Open, Steps
  <2>8. FilesGood'
    BY <2>2, <2>5, <2>6, <1>h, <1>d DEF IInv, FilesGood, GoodFile, Good, Backend, Open
  <2>9. NextStart'
    BY <2>6, <1>0 DEF NextStart, Found, Kept, Backend, Open
  <2>10. StartOK'
    BY <2>4, <2>6, <1>0, <1>e, <1>h, <1>d
    DEF StartOK, SessionOK, RestoreOK, PrepareOK, RunOK, Found, Backend, Open
  <2>11. ShellOK'
    BY <1>0 DEF IInv, ShellOK, Backend, Open
  <2> QED BY <2>7, <2>8, <2>9, <2>10, <2>11 DEF IInv
<1>j. CASE ~NeedsMigration
  <2>1. db' = db /\ wal' = None /\ WalFits' /\ Opened' = db
    BY <1>0, <1>g, <1>h, <1>j, SeenBareNext DEF Backend, Open
  <2>2. pc' = "seed" /\ UNCHANGED <<session, after>>
    BY <1>j DEF Backend, Open, Goto
  <2>3. db.state = "clean" /\ db.schema = app
    BY <1>g, <1>j, <1>b DEF Good
  <2>4. Typed'
    BY <2>1, <2>2, <1>0 DEF IInv, Typed, TypeOK, Backend, Open, Steps
  <2>5. FilesGood'
    BY <2>1, <2>2 DEF IInv, FilesGood, GoodFile, Good, Backend, Open
  <2>6. NextStart'
    BY <2>1, <2>2, <1>0 DEF NextStart, Found, Kept, Backend, Open
  <2>7. StartOK'
    BY <2>1, <2>2, <2>3, <1>0, <1>d, <1>g, <1>j
    DEF StartOK, SessionOK, RestoreOK, PrepareOK, RunOK, Found, Backend, Open
  <2>8. ShellOK'
    BY <1>0 DEF IInv, ShellOK, Backend, Open
  <2> QED BY <2>4, <2>5, <2>6, <2>7, <2>8 DEF IInv
<1> QED BY <1>i, <1>j
-----------------------------------------------------------------------------
\* While the backend works, the -wal file fits and what a connection sees is a whole file.
LEMMA Running ==
  ASSUME IInv, pc \in {"migrate", "seed", "stamp", "remove", "tidy", "serving"}
  PROVE  /\ WalFits /\ db # None /\ db \in Content /\ Opened \in Content /\ Opened # None
         /\ Good(Opened) /\ Opened.work \in owed /\ shell = "idle"
         /\ Opened.work \in 0 .. MaxWork /\ app \in Version /\ app \in Nat
<1>1. WalFits /\ db # None /\ Opened.work \in owed /\ shell = "idle"
  BY DEF IInv, StartOK, RunOK, ShellOK
<1>2. Opened \in Content /\ Opened # None /\ Good(Opened) /\ db \in Content
  BY <1>1, SeenGood DEF IInv, Typed, TypeOK
<1> QED BY <1>1, <1>2 DEF IInv, Typed, TypeOK, Content, Version

\* What a transaction of the backend has to keep for all that is said of the files: a whole
\* database with what is owed, and under a journal or without one not half migrated.
LEMMA WriteKeepsFiles ==
  ASSUME IInv, pc \in {"migrate", "seed", "stamp", "serving"},
         NEW d \in Content, Good(d), Write(d), d.work \in owed',
         db' = db, journal' = journal, snapshots' = snapshots, app' = app, session' = session,
         chosen' = chosen, shell' = shell,
         journal # None => owed' = owed /\ dropped' = dropped,
         journal = None /\ ~chosen => d.state = "clean"
  PROVE  /\ FilesGood' /\ NextStart' /\ Opened' = d /\ WalFits'
         /\ wal' \in Wal /\ wal' # None
<1>1. WalFits /\ db # None /\ db \in Content
  BY Running
<1>2. /\ wal' \in Wal /\ wal'.now = d /\ wal' # None /\ WalFits' /\ Opened' = d
      /\ \A e \in wal'.older \ {None} : wal # None /\ e \in (wal.older \ {None}) \cup {wal.now}
  BY <1>1, WriteIsSeen DEF IInv
<1>3. FilesGood'
  <2>1. Good(d)' /\ \A e \in wal'.older \ {None} : Good(e)'
    BY <1>2 DEF IInv, FilesGood, Good
  <2>2. GoodFile(db)' /\ (\A t \in ToSet(snapshots) : Good(t))'
        /\ (journal # None => GoodFile(journal.snapshot))'
        /\ (session # None => GoodFile(session.snapshot))'
    BY DEF IInv, FilesGood, GoodFile, Good
  <2> QED BY <1>2, <2>1, <2>2 DEF FilesGood, Good
<1>4. d # None
  BY NoneAssumption
<1>5. NextStart'
  BY <1>2, <1>4 DEF IInv, NextStart, Found, Kept
<1> QED BY <1>2, <1>3, <1>5

LEMMA MigrateStep == ASSUME IInv, Backend(Migrate) PROVE IInv'
<1> DEFINE d == [Opened EXCEPT !.state = "clean", !.schema = app]
<1>0. pc = "migrate" /\ journal = session /\ session # None
  BY DEF IInv, StartOK, SessionOK, Backend, Migrate
<1>a. /\ WalFits /\ db # None /\ db \in Content /\ Opened \in Content /\ Opened # None
      /\ Good(Opened) /\ Opened.work \in owed /\ shell = "idle" /\ app \in Version /\ app \in Nat
  BY <1>0, Running
<1>b. /\ d \in Content /\ d.work = Opened.work /\ d.stamp = Opened.stamp
      /\ d.state = "clean" /\ d.schema = app
  BY <1>a DEF Content
<1>c. Good(d)
  BY <1>a, <1>b DEF Good
<1>d. FilesGood' /\ NextStart' /\ Opened' = d /\ WalFits' /\ wal' \in Wal /\ wal' # None
  <2>1. Write(d)
    BY DEF Backend, Migrate
  <2>2. PICK q \in Content : q = d
    BY <1>b
  <2>3. /\ Good(q) /\ Write(q) /\ q.work \in owed' /\ q.state = "clean"
        /\ UNCHANGED <<db, journal, snapshots, app, session, chosen, shell, owed, dropped>>
    BY <1>a, <1>b, <1>c, <2>1, <2>2 DEF Backend, Migrate, Goto
  <2>4. FilesGood' /\ NextStart' /\ Opened' = q /\ WalFits' /\ wal' \in Wal /\ wal' # None
    BY <1>0, <2>3, WriteKeepsFiles
  <2> QED BY <2>2, <2>4
<1>1. Typed'
  BY <1>d DEF IInv, Typed, TypeOK, Backend, Migrate, Goto, Steps
<1>2. StartOK'
  BY <1>0, <1>a, <1>b, <1>d
     DEF IInv, StartOK, SessionOK, RestoreOK, PrepareOK, RunOK, Found, Backend, Migrate, Goto
<1>3. ShellOK'
  BY <1>a DEF IInv, ShellOK, Backend, Migrate, Goto
<1> QED BY <1>d, <1>1, <1>2, <1>3 DEF IInv

LEMMA SeedStep == ASSUME IInv, Backend(Seed) PROVE IInv'
<1>0. pc = "seed" /\ journal = session /\ Opened.state = "clean" /\ Opened.schema = app
      /\ (session = None => Opened.stamp = app)
  BY DEF IInv, StartOK, SessionOK, RunOK, Backend, Seed
<1>a. /\ WalFits /\ db # None /\ db \in Content /\ Opened \in Content /\ Opened # None
      /\ Good(Opened) /\ Opened.work \in owed /\ shell = "idle"
  BY <1>0, Running
<1>b. FilesGood' /\ NextStart' /\ Opened' = Opened /\ WalFits' /\ wal' \in Wal /\ wal' # None
  <2>1. PICK d \in Content : d = Opened
    BY <1>a
  <2>2. journal # None => dropped' = dropped
    BY <1>0 DEF IInv, Typed, TypeOK, Backend, Seed
  <2>3. FilesGood' /\ NextStart' /\ Opened' = d /\ WalFits' /\ wal' \in Wal /\ wal' # None
    BY <1>0, <1>a, <2>1, <2>2, WriteKeepsFiles DEF Backend, Seed, Goto
  <2> QED BY <2>1, <2>3
<1>1. Typed'
  BY <1>b DEF IInv, Typed, TypeOK, Backend, Seed, Goto, Steps
<1>c. session # None => dropped' = dropped
  BY DEF IInv, Typed, TypeOK, Backend, Seed
<1>2. StartOK'
  BY <1>0, <1>a, <1>b, <1>c
     DEF IInv, StartOK, SessionOK, RestoreOK, PrepareOK, RunOK, Found, Backend, Seed, Goto
<1>3. ShellOK'
  BY <1>a DEF IInv, ShellOK, Backend, Seed, Goto
<1> QED BY <1>b, <1>1, <1>2, <1>3 DEF IInv

\* The version is recorded only of a database that was migrated to it.
LEMMA CommitStampStep == ASSUME IInv, Backend(CommitStamp) PROVE IInv'
<1> DEFINE d == [Opened EXCEPT !.stamp = Stamp]
<1>0. /\ pc = "stamp" /\ journal = session /\ session # None
      /\ Opened.state = "clean" /\ Opened.schema = app
  BY DEF IInv, StartOK, SessionOK, RunOK, Backend, CommitStamp
<1>a. /\ WalFits /\ db # None /\ db \in Content /\ Opened \in Content /\ Opened # None
      /\ Good(Opened) /\ Opened.work \in owed /\ shell = "idle" /\ app \in Version /\ app \in Nat
  BY <1>0, Running
<1>b. /\ d \in Content /\ d.work = Opened.work /\ d.stamp = app
      /\ d.state = "clean" /\ d.schema = app
  BY <1>0, <1>a DEF Content, Stamp
<1>c. Good(d)
  BY <1>a, <1>b DEF Good
<1>d. FilesGood' /\ NextStart' /\ Opened' = d /\ WalFits' /\ wal' \in Wal /\ wal' # None
  <2>1. Write(d)
    BY DEF Backend, CommitStamp
  <2>2. PICK q \in Content : q = d
    BY <1>b
  <2>3. /\ Good(q) /\ Write(q) /\ q.work \in owed' /\ q.state = "clean"
        /\ UNCHANGED <<db, journal, snapshots, app, session, chosen, shell, owed, dropped>>
    BY <1>a, <1>b, <1>c, <2>1, <2>2 DEF Backend, CommitStamp, Goto
  <2>4. FilesGood' /\ NextStart' /\ Opened' = q /\ WalFits' /\ wal' \in Wal /\ wal' # None
    BY <1>0, <2>3, WriteKeepsFiles
  <2> QED BY <2>2, <2>4
<1>1. Typed'
  BY <1>d DEF IInv, Typed, TypeOK, Backend, CommitStamp, Goto, Steps
<1>2. StartOK'
  BY <1>0, <1>a, <1>b, <1>d
     DEF IInv, StartOK, SessionOK, RestoreOK, PrepareOK, RunOK, Found, Backend, CommitStamp, Goto
<1>3. ShellOK'
  BY <1>a DEF IInv, ShellOK, Backend, CommitStamp, Goto
<1> QED BY <1>d, <1>1, <1>2, <1>3 DEF IInv

\* The journal goes when the files are whole and hold what is owed.
LEMMA RemoveJournalStep == ASSUME IInv, Backend(RemoveJournal) PROVE IInv'
<1>0. /\ pc = "remove" /\ Opened.state = "clean"
  BY DEF IInv, StartOK, RunOK, Backend, RemoveJournal
<1>a. WalFits /\ Opened # None /\ Opened.work \in owed /\ shell = "idle"
  BY <1>0, Running
<1>b. Opened' = Opened /\ WalFits' = WalFits
  BY SeenSame DEF Backend, RemoveJournal
<1>1. Typed'
  BY DEF IInv, Typed, TypeOK, Backend, RemoveJournal, Goto, Steps
<1>2. FilesGood'
  BY DEF IInv, FilesGood, GoodFile, Good, Backend, RemoveJournal, Goto
<1>3. NextStart'
  BY <1>0, <1>a, <1>b DEF NextStart, Found, Backend, RemoveJournal, Goto
<1>4. StartOK'
  BY <1>b DEF IInv, StartOK, SessionOK, RestoreOK, PrepareOK, RunOK, Found, Backend,
     RemoveJournal, Goto
<1>5. ShellOK'
  BY <1>a DEF IInv, ShellOK, Backend, RemoveJournal, Goto
<1> QED BY <1>1, <1>2, <1>3, <1>4, <1>5 DEF IInv

\* Pruning can only take a snapshot no journal names: there is none any more.
LEMMA TidyStep == ASSUME IInv, Backend(Tidy) PROVE IInv'
<1>0. pc = "tidy" /\ journal = None /\ Opened.state = "clean"
  BY DEF IInv, StartOK, SessionOK, RunOK, Backend, Tidy
<1>a. WalFits /\ shell = "idle"
  BY <1>0, Running
<1>b. Opened' = Opened /\ WalFits' = WalFits
  BY SeenSame DEF Backend, Tidy
<1>c. snapshots' \in Seq(Content) /\ ToSet(snapshots') \subseteq ToSet(snapshots)
  <2>1. snapshots \in Seq(Content) /\ Retention \in Nat
    BY BoundAssumption DEF IInv, Typed
  <2> QED BY <2>1, PruneAddsNothing DEF Backend, Tidy
<1>1. Typed'
  BY <1>c DEF IInv, Typed, TypeOK, Backend, Tidy, Steps
<1>2. FilesGood'
  BY <1>c DEF IInv, FilesGood, GoodFile, Good, Backend, Tidy
<1>3. NextStart'
  BY <1>0, <1>b DEF IInv, NextStart, Found, Backend, Tidy
<1>4. StartOK'
  BY <1>0, <1>b DEF IInv, StartOK, SessionOK, RestoreOK, PrepareOK, RunOK, Found, Backend, Tidy
<1>5. ShellOK'
  BY <1>a DEF IInv, ShellOK, Backend, Tidy
<1> QED BY <1>1, <1>2, <1>3, <1>4, <1>5 DEF IInv
-----------------------------------------------------------------------------
\* A step of InitDB that fails closes the database; under a session its snapshot is what
\* comes next, and without one the file is what it was.
LEMMA FailInitStep == ASSUME IInv, Backend(FailInit) PROVE IInv'
<1>0. /\ pc \in {"open", "migrate", "seed", "stamp", "remove", "tidy"} /\ shell = "idle"
      /\ session # None => Found(session.snapshot)
      /\ faults \in Nat /\ MaxFaults \in Nat
  BY BoundAssumption DEF IInv, Typed, TypeOK, StartOK, SessionOK, Backend, FailInit
<1>a. WalFits
  BY <1>0, Running, SeenBare DEF IInv, StartOK, PrepareOK
<1>b. Opened \in Content \cup {None} /\ GoodFile(Opened)
  BY <1>a, SeenGood DEF IInv
<1>c. db' = Opened /\ wal' = None /\ WalFits' /\ Opened' = Opened
  BY CheckpointKeeps DEF Backend, FailInit
<1>d. pc' \in {"off", "restore"} /\ after' = "off" /\ session' = session
      /\ (pc' = "off" <=> session = None)
  BY DEF Backend, FailInit
<1>1. Typed'
  BY <1>0, <1>b, <1>c, <1>d DEF IInv, Typed, TypeOK, Backend, FailInit, Steps
<1>2. FilesGood'
  BY <1>b, <1>c DEF IInv, FilesGood, GoodFile, Good, Backend, FailInit
<1>3. NextStart'
  BY <1>0, <1>c DEF IInv, NextStart, Found, Kept, Backend, FailInit
<1>4. StartOK'
  BY <1>0, <1>c, <1>d
     DEF StartOK, SessionOK, RestoreOK, PrepareOK, RunOK, Found, Backend, FailInit
<1>5. ShellOK'
  BY <1>0 DEF IInv, ShellOK, Backend, FailInit
<1> QED BY <1>1, <1>2, <1>3, <1>4, <1>5 DEF IInv

\* The answer of a request makes its transaction owed, and it is in the files.
LEMMA WorkStep == ASSUME IInv, Backend(Work) PROVE IInv'
<1> DEFINE d == [Opened EXCEPT !.work = @ + 1]
<1>0. /\ pc = "serving" /\ journal = None /\ session = None
      /\ Opened.state = "clean" /\ Opened.schema = app /\ Opened.stamp = app
  BY DEF IInv, StartOK, SessionOK, RunOK, Backend, Work
<1>a. /\ WalFits /\ db # None /\ db \in Content /\ Opened \in Content /\ Opened # None
      /\ Good(Opened) /\ shell = "idle" /\ Opened.work \in 0 .. MaxWork
  BY <1>0, Running
<1>b. Opened.work + 1 \in 0 .. MaxWork
  BY <1>a, BoundAssumption DEF Backend, Work
<1>c. /\ d \in Content /\ d.work = Opened.work + 1 /\ d.stamp = Opened.stamp
      /\ d.state = Opened.state /\ d.schema = Opened.schema
  BY <1>a, <1>b DEF Content
<1>d. Good(d)
  BY <1>a, <1>c DEF Good
<1>e. owed' = {Opened.work + 1}
  BY DEF Backend, Work
<1>f. FilesGood' /\ NextStart' /\ Opened' = d /\ WalFits' /\ wal' \in Wal /\ wal' # None
  <2>1. Write(d)
    BY DEF Backend, Work
  <2>2. PICK q \in Content : q = d
    BY <1>c
  <2>3. /\ Good(q) /\ Write(q) /\ q.work \in owed' /\ q.state = "clean"
        /\ UNCHANGED <<db, journal, snapshots, app, session, chosen, shell>>
    BY <1>0, <1>c, <1>d, <1>e, <2>1, <2>2 DEF Backend, Work, process
  <2>4. FilesGood' /\ NextStart' /\ Opened' = q /\ WalFits' /\ wal' \in Wal /\ wal' # None
    BY <1>0, <2>3, WriteKeepsFiles
  <2> QED BY <2>2, <2>4
<1>1. Typed'
  BY <1>b, <1>e, <1>f DEF IInv, Typed, TypeOK, Backend, Work, process
<1>2. StartOK'
  BY <1>0, <1>a, <1>c, <1>e, <1>f
  DEF StartOK, SessionOK, RestoreOK, PrepareOK, RunOK, Found, Backend, Work, process
<1>3. ShellOK'
  BY <1>a DEF IInv, ShellOK, Backend, Work
<1> QED BY <1>f, <1>1, <1>2, <1>3 DEF IInv

LEMMA AutocheckpointStep == ASSUME IInv, Backend(Autocheckpoint) PROVE IInv'
<1>0. pc \in {"migrate", "seed", "stamp", "remove", "tidy", "serving"}
  BY DEF Backend, Autocheckpoint
<1>a. /\ WalFits /\ Opened \in Content /\ Opened # None /\ Good(Opened) /\ shell = "idle"
  BY <1>0, Running
<1>b. db' = Opened /\ wal' = None /\ WalFits' /\ Opened' = Opened
  BY CheckpointKeeps DEF Backend, Autocheckpoint
<1>1. Typed'
  BY <1>a, <1>b DEF IInv, Typed, TypeOK, Backend, Autocheckpoint, process
<1>2. FilesGood'
  BY <1>a, <1>b DEF IInv, FilesGood, GoodFile, Good, Backend, Autocheckpoint, process
<1>3. NextStart'
  BY <1>a, <1>b DEF IInv, NextStart, Found, Kept, Backend, Autocheckpoint, process
<1>4. StartOK'
  BY <1>0, <1>a, <1>b DEF IInv, StartOK, SessionOK, RestoreOK, PrepareOK, RunOK, Found, Backend,
     Autocheckpoint, process
<1>5. ShellOK'
  BY <1>a DEF IInv, ShellOK, Backend, Autocheckpoint
<1> QED BY <1>1, <1>2, <1>3, <1>4, <1>5 DEF IInv

LEMMA PrepareUpdateStep == ASSUME IInv, Backend(PrepareUpdate) PROVE IInv'
<1>1. Typed'
  BY DEF IInv, Typed, TypeOK, Backend, PrepareUpdate, process
<1>2. FilesGood' /\ NextStart' /\ Opened' = Opened /\ WalFits' = WalFits
  BY FilesStay DEF IInv, Backend, PrepareUpdate, process
<1>3. StartOK'
  BY <1>2 DEF IInv, StartOK, SessionOK, RestoreOK, PrepareOK, RunOK, Found, Backend,
     PrepareUpdate, process
<1>4. ShellOK'
  BY DEF IInv, ShellOK, Backend, PrepareUpdate, process, Good
<1> QED BY <1>1, <1>2, <1>3, <1>4 DEF IInv

\* A newer backend finds files of older versions only.
LEMMA InstallStep == ASSUME IInv, NEW v \in 1 .. MaxSchema, Backend(Install(v)) PROVE IInv'
<1>0. app' = v /\ v > app /\ v \in Version /\ v > 0 /\ app \in Nat /\ v \in Nat
      /\ pc = "off" /\ shell = "idle" /\ session = None
      /\ UNCHANGED <<db, wal, journal, snapshots, session, owed, dropped, chosen, shell, pc, after>>
  BY BoundAssumption
     DEF IInv, Typed, TypeOK, Version, StartOK, SessionOK, Backend, Install, disk, process
<1>a. Opened' = Opened /\ WalFits' = WalFits
  BY <1>0, SeenSame
<1>1. Typed'
  BY <1>0 DEF IInv, Typed, TypeOK, Backend, Install, disk, process
<1>2. FilesGood'
  <2>1. ASSUME NEW d \in Content, Good(d) PROVE Good(d)'
    <3>1. d.stamp \in Nat /\ d.schema \in Nat
      BY DEF Content, Version
    <3>2. d.stamp <= v /\ d.schema <= v /\ d.stamp # v
      BY <1>0, <2>1, <3>1 DEF Good
    <3> QED BY <1>0, <2>1, <3>2 DEF Good
  <2>2. db # None => db \in Content
    BY DEF IInv, Typed, TypeOK
  <2>3. wal # None => wal.now \in Content /\ \A d \in wal.older \ {None} : d \in Content
    BY DEF IInv, Typed, TypeOK, Wal
  <2>4. \A s \in ToSet(snapshots) : s \in Content
    BY DEF IInv, Typed, TypeOK
  <2>5. journal # None /\ journal.snapshot # None => journal.snapshot \in Content
    BY DEF IInv, Typed, TypeOK, Journal
  <2>6. GoodFile(db) => GoodFile(db)'
    BY <1>0, <2>1, <2>2 DEF GoodFile, Good
  <2>7. (wal # None => Good(wal.now) /\ \A d \in wal.older \ {None} : Good(d)) =>
          (wal # None => Good(wal.now) /\ \A d \in wal.older \ {None} : Good(d))'
    BY <1>0, <2>1, <2>3 DEF Good
  <2>8. (\A s \in ToSet(snapshots) : Good(s)) => (\A s \in ToSet(snapshots) : Good(s))'
    BY <1>0, <2>1, <2>4 DEF Good
  <2>9. (journal # None => GoodFile(journal.snapshot)) => (journal # None => GoodFile(journal.snapshot))'
    BY <1>0, <2>1, <2>5 DEF GoodFile, Good
  <2> QED BY <1>0, <2>6, <2>7, <2>8, <2>9 DEF IInv, FilesGood
<1>3. NextStart'
  BY <1>0, <1>a DEF IInv, NextStart, Found, Kept
<1>4. StartOK'
  BY <1>0, <1>a DEF IInv, StartOK, SessionOK, RestoreOK, PrepareOK, RunOK, Found
<1>5. ShellOK'
  BY <1>0 DEF IInv, ShellOK
<1> QED BY <1>1, <1>2, <1>3, <1>4, <1>5 DEF IInv

LEMMA KillStep == ASSUME IInv, Backend(Kill) PROVE IInv'
<1>0. faults \in Nat /\ MaxFaults \in Nat
  BY BoundAssumption DEF IInv, Typed, TypeOK
<1>1. Typed'
  BY <1>0 DEF IInv, Typed, TypeOK, Backend, Kill, Stop, disk, Steps
<1>2. FilesGood' /\ NextStart' /\ Opened' = Opened /\ WalFits' = WalFits
  BY FilesStay DEF IInv, Backend, Kill, Stop, disk
<1>3. StartOK'
  BY DEF StartOK, SessionOK, RestoreOK, PrepareOK, RunOK, Backend, Kill, Stop
<1>4. ShellOK'
  BY DEF IInv, ShellOK, Backend, Kill, Stop, Good
<1> QED BY <1>1, <1>2, <1>3, <1>4 DEF IInv

\* What a power loss leaves of the -wal file: it, an earlier state of it, or nothing.
LEMMA LeftOver ==
  ASSUME Typed, wal' \in Left
  PROVE  /\ wal' \in Wal \cup {None} /\ (wal = None => wal' = None)
         /\ wal' # None => /\ wal # None /\ wal'.base = wal.base /\ wal'.older = {}
                          /\ wal'.now \in {wal.now} \cup (wal.older \ {None})
<1>1. CASE wal = None
  BY <1>1 DEF Left
<1>2. CASE wal # None /\ wal' # None
  <2>1. PICK d \in ({wal.now} \cup wal.older) \ {None} : wal' = [wal EXCEPT !.now = d, !.older = {}]
    BY <1>2 DEF Left
  <2>2. wal \in Wal
    BY <1>2 DEF Typed, TypeOK
  <2>3. d \in Content
    BY <2>1, <2>2 DEF Wal
  <2>4. wal' \in Wal /\ wal'.base = wal.base /\ wal'.older = {} /\ wal'.now = d
    BY <2>1, <2>2, <2>3 DEF Wal
  <2> QED BY <1>2, <2>1, <2>4
<1>3. CASE wal # None /\ wal' = None
  BY <1>3
<1> QED BY <1>1, <1>2, <1>3

\* A removed journal stays removed.  Without one, what is left of the files is what is owed.
LEMMA PowerLossStep == ASSUME IInv, DurableUnlink, Backend(PowerLoss) PROVE IInv'
<1> DEFINE Takes == journal' = None /\ Opened' # Opened
<1>0. /\ faults \in Nat /\ MaxFaults \in Nat /\ journal' = journal /\ shell = "idle"
      /\ owed' = (IF Takes THEN {Opened'.work} ELSE owed) /\ dropped' = (dropped \/ Takes)
      /\ pc' = "off" /\ session' = None
      /\ UNCHANGED <<db, snapshots, app, shell, chosen>>
  BY BoundAssumption DEF IInv, Typed, TypeOK, Backend, PowerLoss, Stop
<1>a. /\ wal' \in Wal \cup {None} /\ (wal = None => wal' = None)
      /\ wal' # None => /\ wal # None /\ wal'.base = wal.base /\ wal'.older = {}
                       /\ wal'.now \in {wal.now} \cup (wal.older \ {None})
  BY LeftOver DEF IInv, Backend, PowerLoss
<1>b. FilesGood'
  BY <1>0, <1>a DEF IInv, FilesGood, GoodFile, Good
<1>c. ASSUME journal = None PROVE WalFits' /\ (Takes => Opened' \in Content)
  <2>1. WalFits
    BY <1>0, <1>c DEF IInv, NextStart
  <2>2. WalFits'
    BY <1>0, <1>a, <2>1 DEF WalFits
  <2>3. wal' # None => wal'.now \in Content
    BY <1>a DEF Wal
  <2>4. db # None => Opened' \in Content
    BY <1>0, <2>2, <2>3 DEF IInv, Typed, TypeOK, WalFits, Opened
  <2>5. db = None => Opened' = Opened
    BY <1>0, <1>a DEF Opened
  <2> QED BY <2>2, <2>4, <2>5
<1>1. Typed'
  <2>1. owed' \subseteq 0 .. MaxWork /\ dropped' \in BOOLEAN
    BY <1>0, <1>c DEF IInv, Typed, TypeOK, Content
  <2> QED BY <1>0, <1>a, <2>1 DEF IInv, Typed, TypeOK, Backend, PowerLoss, Stop, Steps
<1>2. NextStart'
  <2>1. CASE journal # None
    BY <1>0, <2>1 DEF IInv, NextStart, Found, Kept
  <2>2. CASE journal = None /\ Takes
    <3>1. Opened' # None
      BY <1>c, <2>2, NoneAssumption
    <3> QED BY <1>0, <1>c, <2>2, <3>1 DEF NextStart, Found
  <2>3. CASE journal = None /\ ~Takes
    BY <1>0, <1>c, <2>3 DEF IInv, NextStart, Found
  <2> QED BY <2>1, <2>2, <2>3
<1>3. StartOK'
  BY DEF StartOK, SessionOK, RestoreOK, PrepareOK, RunOK, Backend, PowerLoss, Stop
<1>4. ShellOK'
  BY <1>0 DEF IInv, ShellOK, Backend, PowerLoss, Stop, Good
<1> QED BY <1>b, <1>1, <1>2, <1>3, <1>4 DEF IInv
-----------------------------------------------------------------------------
\* The shell kills the backend; the snapshot it is going to put back is a whole file.
LEMMA StartRestoreStep ==
  ASSUME IInv, NEW s \in ToSet(snapshots), StartRestore(s) PROVE IInv'
<1>0. /\ s \in Content /\ s # None /\ Good(s) /\ faults \in Nat /\ MaxFaults \in Nat
  BY BoundAssumption, NoneAssumption DEF IInv, Typed, TypeOK, FilesGood
<1>a. Opened' = Opened /\ WalFits' = WalFits
  BY SeenSame DEF StartRestore, disk
<1>1. Typed'
  BY <1>0 DEF IInv, Typed, TypeOK, StartRestore, Stop, disk, Steps
<1>2. FilesGood'
  BY DEF IInv, FilesGood, GoodFile, Good, StartRestore, Stop, disk
<1>3. NextStart'
  BY <1>a DEF IInv, NextStart, Found, Kept, StartRestore, disk
<1>4. StartOK'
  BY DEF StartOK, SessionOK, RestoreOK, PrepareOK, RunOK, StartRestore, Stop
<1>5. ShellOK'
  BY <1>0 DEF ShellOK, StartRestore, Stop, Good
<1> QED BY <1>1, <1>2, <1>3, <1>4, <1>5 DEF IInv

\* Another snapshot is added.
LEMMA SafetyCopyStep == ASSUME IInv, SafetyCopy PROVE IInv'
<1>a. Opened' = Opened /\ WalFits' = WalFits
  BY SeenSame DEF SafetyCopy
<1>b. db \in Content \cup {None} /\ snapshots \in Seq(Content)
  BY DEF IInv, Typed, TypeOK
<1>c. snapshots' \in Seq(Content) /\ ToSet(snapshots') = ToSet(snapshots) \cup ({db} \ {None})
  <2>1. CASE db = None
    BY <1>b, <2>1 DEF SafetyCopy
  <2>2. CASE db # None
    <3>1. db \in Content /\ snapshots' = Append(snapshots, db)
      BY <1>b, <2>2 DEF SafetyCopy
    <3>2. snapshots' \in Seq(Content) /\ ToSet(snapshots') = ToSet(snapshots) \cup {db}
      BY <1>b, <3>1, AppendKeeps
    <3> QED BY <2>2, <3>2
  <2> QED BY <2>1, <2>2
<1>d. pc = "off"
  BY DEF IInv, ShellOK, SafetyCopy
<1>1. Typed'
  BY <1>b, <1>c DEF IInv, Typed, TypeOK, SafetyCopy, Then, process
<1>2. FilesGood'
  BY <1>c DEF IInv, FilesGood, GoodFile, Good, SafetyCopy, Then, process
<1>3. NextStart'
  BY <1>a, <1>c DEF IInv, NextStart, Found, Kept, SafetyCopy, Then
<1>4. StartOK'
  BY <1>d DEF IInv, StartOK, SessionOK, RestoreOK, PrepareOK, RunOK, SafetyCopy, process
<1>5. ShellOK'
  BY DEF IInv, ShellOK, SafetyCopy, Then, process, Good
<1> QED BY <1>1, <1>2, <1>3, <1>4, <1>5 DEF IInv

\* The chosen snapshot is the database now.  What a journal names may still be found, and is
\* owed as before.
LEMMA ReplaceDbStep == ASSUME IInv, ReplaceDb PROVE IInv'
<1>0. pc = "off" /\ pick # None /\ pick \in Content /\ Good(pick) /\ session = None
  BY DEF IInv, Typed, ShellOK, StartOK, SessionOK, ReplaceDb
<1>a. pick.work \in 0 .. MaxWork /\ db' = pick /\ owed' = owed \cup {pick.work} /\ chosen' = TRUE
      /\ shell' = "wal"
  BY <1>0 DEF ReplaceDb, Content, Then
<1>1. Typed'
  BY <1>0, <1>a DEF IInv, Typed, TypeOK, ReplaceDb, Then, process
<1>2. FilesGood'
  BY <1>0, <1>a DEF IInv, FilesGood, GoodFile, Good, ReplaceDb, Then, process
<1>3. NextStart'
  BY <1>a DEF IInv, NextStart, Found, Kept, ReplaceDb, Then
<1>4. StartOK'
  BY <1>0 DEF IInv, StartOK, SessionOK, RestoreOK, PrepareOK, RunOK, ReplaceDb, process
<1>5. ShellOK'
  BY <1>0, <1>a DEF ShellOK, ReplaceDb, Then, process, Good
<1> QED BY <1>1, <1>2, <1>3, <1>4, <1>5 DEF IInv

LEMMA DropWalStep == ASSUME IInv, DropWal PROVE IInv'
<1>0. /\ pc = "off" /\ pick # None /\ Good(pick) /\ session = None
      /\ chosen /\ db = pick /\ pick.work \in owed
  BY DEF IInv, ShellOK, StartOK, SessionOK, DropWal
<1>a. WalFits' /\ Opened' = db /\ wal' = None
  BY SeenBareNext DEF DropWal
<1>1. Typed'
  BY DEF IInv, Typed, TypeOK, DropWal, Then, process
<1>2. FilesGood'
  BY DEF IInv, FilesGood, GoodFile, Good, DropWal, Then, process
<1>3. NextStart'
  BY <1>0, <1>a DEF IInv, NextStart, Found, Kept, DropWal, Then
<1>4. StartOK'
  BY <1>0 DEF IInv, StartOK, SessionOK, RestoreOK, PrepareOK, RunOK, DropWal, process
<1>5. ShellOK'
  BY <1>0, <1>a DEF ShellOK, DropWal, Then, process, Good
<1> QED BY <1>1, <1>2, <1>3, <1>4, <1>5 DEF IInv

\* Only the chosen snapshot is left to be found.
LEMMA DropJournalStep == ASSUME IInv, DropJournal PROVE IInv'
<1>0. /\ pc = "off" /\ pick # None /\ pick \in Content /\ Good(pick) /\ session = None
      /\ chosen /\ db = pick /\ wal = None
  BY DEF IInv, Typed, ShellOK, StartOK, SessionOK, DropJournal
<1>a. WalFits' /\ Opened' = db /\ wal' = None
  BY <1>0, SeenBareNext DEF DropJournal
<1>b. pick.work \in 0 .. MaxWork /\ owed' = {pick.work} /\ journal' = None
  BY <1>0 DEF DropJournal, DropJournalFile, Content
<1>1. Typed'
  BY <1>b DEF IInv, Typed, TypeOK, DropJournal, Then, process
<1>2. FilesGood'
  BY <1>b DEF IInv, FilesGood, GoodFile, Good, DropJournal, Then, process
<1>3. NextStart'
  BY <1>0, <1>a, <1>b DEF NextStart, Found, DropJournal, Then
<1>4. StartOK'
  BY <1>0 DEF IInv, StartOK, SessionOK, RestoreOK, PrepareOK, RunOK, DropJournal, process
<1>5. ShellOK'
  BY <1>0, <1>a, <1>b DEF ShellOK, DropJournal, Then, process, Good
<1> QED BY <1>1, <1>2, <1>3, <1>4, <1>5 DEF IInv

LEMMA EndRestoreStep == ASSUME IInv, EndRestore PROVE IInv'
<1>0. session = None /\ journal = None /\ WalFits /\ Found(Opened)
  BY DEF IInv, NextStart, ShellOK, StartOK, SessionOK, EndRestore
<1>a. Opened' = Opened /\ WalFits' = WalFits
  BY SeenSame DEF EndRestore
<1>1. Typed'
  BY DEF IInv, Typed, TypeOK, EndRestore, Steps
<1>2. FilesGood'
  BY DEF IInv, FilesGood, GoodFile, Good, EndRestore
<1>3. NextStart'
  BY <1>0, <1>a DEF NextStart, Found, EndRestore
<1>4. StartOK'
  BY <1>0 DEF StartOK, SessionOK, RestoreOK, PrepareOK, RunOK, EndRestore
<1>5. ShellOK'
  BY DEF ShellOK, EndRestore
<1> QED BY <1>1, <1>2, <1>3, <1>4, <1>5 DEF IInv

\* Wherever the shell stops, a journal says what to put back, or the files fit.
LEMMA CrashRestoreStep == ASSUME IInv, ~CrashUncovered, CrashRestore PROVE IInv'
<1>0. faults \in Nat /\ MaxFaults \in Nat /\ pc = "off" /\ session = None
  BY BoundAssumption DEF IInv, Typed, TypeOK, ShellOK, StartOK, SessionOK, CrashRestore
<1>a. Opened' = Opened /\ WalFits' = WalFits
  BY SeenSame DEF CrashRestore, disk
<1>1. Typed'
  BY <1>0 DEF IInv, Typed, TypeOK, CrashRestore, disk, process
<1>2. FilesGood'
  BY DEF IInv, FilesGood, GoodFile, Good, CrashRestore, disk, process
<1>3. NextStart'
  <2>1. CASE shell = "wal" /\ journal = None
    <3>1. wal = None
      BY <2>1 DEF CrashRestore, Uncovered
    <3>2. chosen /\ pick # None /\ db = pick /\ pick.work \in owed
      BY <2>1 DEF IInv, ShellOK
    <3>3. WalFits /\ Opened = db
      BY <3>1, SeenBare
    <3> QED BY <2>1, <3>2, <3>3, <1>a DEF NextStart, Found, CrashRestore, disk
  <2>2. CASE ~(shell = "wal" /\ journal = None)
    BY <2>2, <1>a DEF IInv, NextStart, Found, Kept, CrashRestore, disk
  <2> QED BY <2>1, <2>2
<1>4. StartOK'
  BY <1>0 DEF IInv, StartOK, SessionOK, RestoreOK, PrepareOK, RunOK, CrashRestore, process
<1>5. ShellOK'
  BY DEF ShellOK, CrashRestore
<1> QED BY <1>1, <1>2, <1>3, <1>4, <1>5 DEF IInv
-----------------------------------------------------------------------------
\* An installation without a database fulfils the invariant.
LEMMA InitIInv == ShellInit => IInv
<1> SUFFICES ASSUME ShellInit PROVE IInv
  OBVIOUS
<1>0. WalFits /\ Opened = None
  BY SeenBare DEF ShellInit, Init
<1>1. ToSet(<<>>) = {} /\ <<>> \in Seq(Content)
  BY DEF ToSet
<1>2. Typed
  <2>1. 1 \in Version /\ {0} \subseteq 0 .. MaxWork /\ 0 \in 0 .. MaxFaults
    BY BoundAssumption DEF Version
  <2>2. ToSet(snapshots) \subseteq Content /\ snapshots \in Seq(Content)
    BY <1>1 DEF ShellInit, Init
  <2>3. TypeOK
    BY <2>1, <2>2 DEF ShellInit, Init, TypeOK
  <2>4. app > 0
    BY DEF ShellInit, Init
  <2>5. pc \in Steps
    BY DEF ShellInit, Init, Steps
  <2>6. shell = "idle" /\ pick = None /\ chosen \in BOOLEAN
    BY DEF ShellInit
  <2> QED BY <2>2, <2>3, <2>4, <2>5, <2>6 DEF Typed
<1>3. FilesGood
  BY <1>1 DEF ShellInit, Init, FilesGood, GoodFile
<1>4. NextStart
  BY <1>0 DEF ShellInit, Init, NextStart, Found
<1>5. StartOK
  BY DEF ShellInit, Init, StartOK, SessionOK, RestoreOK, PrepareOK, RunOK
<1>6. ShellOK
  BY DEF ShellInit, ShellOK
<1> QED BY <1>2, <1>3, <1>4, <1>5, <1>6 DEF IInv

LEMMA StutterStep == ASSUME IInv, UNCHANGED shellVars PROVE IInv'
<1>0. UNCHANGED <<db, wal, journal, unlinked, marker, snapshots, app, pc, session, after, owed,
                  dropped, faults, shell, pick, chosen>>
  BY DEF shellVars, vars, disk, process
<1>a. Opened' = Opened /\ WalFits' = WalFits
  BY <1>0, SeenSame
<1>1. Typed'
  BY <1>0 DEF IInv, Typed, TypeOK
<1>2. FilesGood'
  BY <1>0 DEF IInv, FilesGood, GoodFile, Good
<1>3. NextStart'
  BY <1>0, <1>a DEF IInv, NextStart, Found, Kept
<1>4. StartOK'
  BY <1>0, <1>a DEF IInv, StartOK, SessionOK, RestoreOK, PrepareOK, RunOK, Found, Kept
<1>5. ShellOK'
  BY <1>0 DEF IInv, ShellOK, Good
<1> QED BY <1>1, <1>2, <1>3, <1>4, <1>5 DEF IInv

\* Every step of a start, in the order of the code.
LEMMA StartSteps == ASSUME IInv, Backend(StartStep) PROVE IInv'
<1>1. CASE Backend(Launch)          BY <1>1, LaunchStep
<1>2. CASE Backend(ReadJournal)     BY <1>2, ReadJournalStep
<1>3. CASE Backend(RestoreDb)       BY <1>3, RestoreDbStep
<1>4. CASE Backend(RemoveWal)       BY <1>4, RemoveWalStep
<1>5. CASE Backend(FinishRecovery)  BY <1>5, FinishRecoveryStep
<1>6. CASE Backend(Unmark)          BY <1>6, UnmarkStep
<1>7. CASE Backend(Inspect)         BY <1>7, InspectStep
<1>8. CASE Backend(Snapshot)        BY <1>8, SnapshotStep
<1>9. CASE Backend(WriteJournal)    BY <1>9, WriteJournalStep
<1>10. CASE Backend(Open)           BY <1>10, OpenStep
<1>11. CASE Backend(Migrate)        BY <1>11, MigrateStep
<1>12. CASE Backend(Seed)           BY <1>12, SeedStep
<1>13. CASE Backend(CommitStamp)    BY <1>13, CommitStampStep
<1>14. CASE Backend(RemoveJournal)  BY <1>14, RemoveJournalStep
<1>15. CASE Backend(Tidy)           BY <1>15, TidyStep
<1> QED BY <1>1, <1>2, <1>3, <1>4, <1>5, <1>6, <1>7, <1>8, <1>9, <1>10, <1>11, <1>12, <1>13,
           <1>14, <1>15 DEF Backend, StartStep

LEMMA NextIInv ==
  ASSUME DurableUnlink, ~CrashUncovered, IInv, [ShellNext]_shellVars
  PROVE  IInv'
<1>1. CASE Backend(Next)
  <2>1. CASE Backend(StartStep)       BY <2>1, StartSteps
  <2>2. CASE Backend(FailInit)        BY <2>2, FailInitStep
  <2>3. CASE Backend(Work)            BY <2>3, WorkStep
  <2>4. CASE Backend(Autocheckpoint)  BY <2>4, AutocheckpointStep
  <2>5. CASE Backend(PrepareUpdate)   BY <2>5, PrepareUpdateStep
  <2>6. ASSUME NEW v \in 1 .. MaxSchema, Backend(Install(v)) PROVE IInv'
    BY <2>6, InstallStep
  <2>7. CASE Backend(Kill)            BY <2>7, KillStep
  <2>8. CASE Backend(PowerLoss)       BY <2>8, PowerLossStep
  <2> QED BY <1>1, <2>1, <2>2, <2>3, <2>4, <2>5, <2>6, <2>7, <2>8 DEF Backend, Next
<1>2. ASSUME NEW s \in ToSet(snapshots), StartRestore(s) PROVE IInv'
  BY <1>2, StartRestoreStep
<1>3. CASE Restore
  <2>1. CASE SafetyCopy   BY <2>1, SafetyCopyStep
  <2>2. CASE ReplaceDb    BY <2>2, ReplaceDbStep
  <2>3. CASE DropWal      BY <2>3, DropWalStep
  <2>4. CASE DropJournal  BY <2>4, DropJournalStep
  <2>5. CASE EndRestore   BY <2>5, EndRestoreStep
  <2> QED BY <1>3, <2>1, <2>2, <2>3, <2>4, <2>5 DEF Restore
<1>4. CASE CrashRestore
  BY <1>4, CrashRestoreStep
<1>5. CASE UNCHANGED shellVars
  BY <1>5, StutterStep
<1> QED BY <1>1, <1>2, <1>3, <1>4, <1>5 DEF ShellNext

\* The inductive invariant holds in every reachable state.
THEOREM Inductive ==
  ASSUME DurableUnlink, ~CrashUncovered
  PROVE  ShellSpec => []IInv
<1>1. IInv /\ [ShellNext]_shellVars => IInv'
  BY NextIInv
<1> QED BY InitIInv, <1>1, PTL DEF ShellSpec

\* Every file has the form the code reads and writes.
THEOREM TypeCorrect ==
  ASSUME DurableUnlink, ~CrashUncovered
  PROVE  ShellSpec => []TypeOK
<1>1. IInv => TypeOK
  BY DEF IInv, Typed
<1> QED BY Inductive, <1>1, PTL

\* Whenever the process or the shell is interrupted, the next start finds all that was answered
\* (or answered since the user's choice of a snapshot), but for the last commits a power loss
\* took, and a database that is whole; it is not half migrated either, unless a power loss took
\* the end of a migration and no start has come to its end since (WorkRecoverable).  The snapshot
\* a journal names is never pruned.
THEOREM WorkIsRecoverable ==
  ASSUME DurableUnlink, ~CrashUncovered
  PROVE  ShellSpec => []WorkRecoverableByChoice
<1>1. IInv => WorkRecoverableByChoice
  <2> SUFFICES ASSUME IInv, shell = "idle" PROVE WorkRecoverableByChoice
    BY DEF WorkRecoverableByChoice
  <2>1. Found(Recovered) /\ (journal # None => Kept(journal))
    BY DEF IInv, NextStart, Recovered
  <2>2. GoodFile(Recovered)
    <3>1. CASE journal = None
      <4>1. WalFits
        BY <3>1 DEF IInv, NextStart
      <4> QED BY <3>1, <4>1, SeenGood DEF IInv, Recovered
    <3>2. CASE journal # None
      BY <3>2 DEF IInv, FilesGood, Recovered
    <3> QED BY <3>1, <3>2
  <2>3. Recovered # None => Recovered.state # "mixed"
    BY <2>2 DEF GoodFile, Good
  <2> QED BY <2>1, <2>3 DEF WorkRecoverableByChoice, WorkRecoverable, Found, Kept
<1> QED BY Inductive, <1>1, PTL

\* Requests are served only from a database that was migrated to the backend's own version to
\* the end, with that version recorded.
THEOREM ServesOnlyMigrated ==
  ASSUME DurableUnlink, ~CrashUncovered
  PROVE  ShellSpec => []ServesMigrated
<1>1. IInv => ServesMigrated
  BY DEF IInv, StartOK, RunOK, ServesMigrated
<1> QED BY Inductive, <1>1, PTL

\* When the shell has put a snapshot back, the next start works on that one: no -wal file and no
\* journal of the old database is left.
THEOREM RestoresTakeEffect ==
  ASSUME DurableUnlink, ~CrashUncovered
  PROVE  ShellSpec => []RestoreTakesEffect
<1>1. IInv => RestoreTakesEffect
  BY SeenBare DEF IInv, ShellOK, RestoreTakesEffect, Recovered
<1> QED BY Inductive, <1>1, PTL
-----------------------------------------------------------------------------
\* As long as there is a journal and the user has not chosen a snapshot, the files hold no more
\* transactions than the snapshot the journal names: nobody was served since.
Interrupted ==
  /\ pc \in {"restore", "cleanup", "finish"} /\ journal # None => journal = session
  /\ ~chosen /\ journal # None /\ journal.existed =>
       /\ db # None => db.work = journal.snapshot.work
       /\ wal # None => /\ wal.now.work = journal.snapshot.work
                        /\ \A d \in wal.older \ {None} : d.work = journal.snapshot.work

LEMMA InterruptedSeen ==
  ASSUME IInv, Interrupted, ~chosen, journal # None, journal.existed
  PROVE  Opened = None \/ Opened.work = journal.snapshot.work
<1>1. CASE db = None \/ wal = None
  BY <1>1 DEF Interrupted, Opened
<1>2. CASE db # None /\ wal # None
  <2>1. [db EXCEPT !.state = "mixed"].work = db.work
    BY <1>2 DEF IInv, Typed, TypeOK, Content
  <2> QED BY <1>2, <2>1 DEF Interrupted, Opened
<1> QED BY <1>1, <1>2

\* A write of the backend at work leaves the transactions as they are, but for a request, and
\* there is no journal then.
LEMMA InterruptedWrite ==
  ASSUME IInv, Interrupted, pc \in {"migrate", "seed", "stamp"}, NEW d \in Content, Write(d),
         d.work = Opened.work, UNCHANGED <<db, journal, chosen, shell>>, shell = "idle",
         pc' \notin {"restore", "cleanup", "finish"}
  PROVE  Interrupted'
<1>1. WalFits /\ db # None /\ db \in Content /\ Opened # None
  BY Running
<1>2. /\ wal'.now = d
      /\ \A e \in wal'.older \ {None} : wal # None /\ e \in (wal.older \ {None}) \cup {wal.now}
  BY <1>1, WriteIsSeen DEF IInv
<1> QED BY <1>1, <1>2, InterruptedSeen DEF Interrupted

LEMMA InterruptedStart ==
  ASSUME IInv, Interrupted, Backend(StartStep)
  PROVE  Interrupted'
<1>1. CASE Backend(Launch)
  BY <1>1 DEF Interrupted, Backend, Launch, disk
<1>2. CASE Backend(ReadJournal)
  BY <1>2 DEF Interrupted, Backend, ReadJournal, FindJournal, Goto, disk
<1>3. CASE Backend(RestoreDb)
  BY <1>3 DEF Interrupted, Backend, RestoreDb, Goto
<1>4. CASE Backend(RemoveWal)
  BY <1>4 DEF Interrupted, Backend, RemoveWal, Goto
<1>5. CASE Backend(FinishRecovery)
  BY <1>5 DEF Interrupted, Backend, FinishRecovery, RecoveredJournal, Goto
<1>6. CASE Backend(Unmark)
  BY <1>6 DEF IInv, Typed, TypeOK, Interrupted, Backend, Unmark
<1>7. CASE Backend(Inspect)
  BY <1>7 DEF IInv, StartOK, SessionOK, Interrupted, Backend, Inspect, Goto
<1>8. CASE Backend(Snapshot)
  BY <1>8 DEF IInv, StartOK, SessionOK, Interrupted, Backend, Snapshot
<1>9. CASE Backend(WriteJournal)
  <2>1. session # None /\ session.snapshot = db /\ wal = None
    BY <1>9 DEF IInv, StartOK, SessionOK, PrepareOK, Backend, WriteJournal
  <2> QED BY <1>9, <2>1 DEF Interrupted, Backend, WriteJournal, NewJournal, Goto
<1>10. CASE Backend(Open)
  <2>1. journal = session /\ (session # None => session.snapshot = db) /\ wal = None
    BY <1>10 DEF IInv, StartOK, SessionOK, PrepareOK, Backend, Open
  <2>2. journal # None /\ journal.existed => db # None
    <3>1. journal # None /\ journal.existed => journal.snapshot \in Content
      BY DEF IInv, Typed, TypeOK, NextStart, Kept
    <3> QED BY <2>1, <3>1, NoneAssumption
  <2>3. ASSUME journal # None, journal.existed
        PROVE  db' = db /\ (wal' # None => wal'.now.work = db.work /\ wal'.older \subseteq {None})
    <3>1. db' = db /\ db \in Content
      BY <1>10, <2>2, <2>3 DEF IInv, Typed, TypeOK, Backend, Open
    <3>2. [db EXCEPT !.state = "partial"].work = db.work
      BY <3>1 DEF Content
    <3>3. CASE wal' = wal
      BY <2>1, <3>1, <3>3
    <3>4. CASE wal' = Logged(db, [db EXCEPT !.state = "partial"])
      <4>1. wal'.now = [db EXCEPT !.state = "partial"] /\ wal'.older = {None}
        BY <2>1, <3>4 DEF Logged
      <4> QED BY <3>1, <3>2, <4>1
    <3> QED BY <1>10, <3>1, <3>3, <3>4 DEF Backend, Open
  <2>4. UNCHANGED <<journal, chosen>> /\ pc' \in {"migrate", "seed"}
    BY <1>10 DEF Backend, Open, Goto
  <2> QED BY <2>1, <2>3, <2>4 DEF Interrupted
<1>11. CASE Backend(Migrate)
  <2> DEFINE d == [Opened EXCEPT !.state = "clean", !.schema = app]
  <2>1. Opened \in Content /\ app \in Version
    BY <1>11, Running DEF Backend, Migrate
  <2>2. d \in Content /\ d.work = Opened.work
    BY <2>1 DEF Content
  <2>3. PICK q \in Content : q = d /\ q.work = Opened.work
    BY <2>2
  <2>4. Write(q)
    BY <1>11, <2>3 DEF Backend, Migrate
  <2> QED BY <1>11, <2>3, <2>4, InterruptedWrite DEF Backend, Migrate, Goto
<1>12. CASE Backend(Seed)
  <2>1. PICK q \in Content : q = Opened
    BY <1>12, Running DEF Backend, Seed
  <2>2. Write(q) /\ q.work = Opened.work
    BY <1>12, <2>1 DEF Backend, Seed
  <2>3. pc' \notin {"restore", "cleanup", "finish"}
    BY <1>12 DEF Backend, Seed, Goto
  <2> QED BY <1>12, <2>2, <2>3, InterruptedWrite DEF Backend, Seed, Goto
<1>13. CASE Backend(CommitStamp)
  <2> DEFINE d == [Opened EXCEPT !.stamp = Stamp]
  <2>1. Opened \in Content /\ app \in Version
    BY <1>13, Running DEF Backend, CommitStamp
  <2>2. d \in Content /\ d.work = Opened.work
    BY <2>1 DEF Content, Stamp
  <2>3. PICK q \in Content : q = d /\ q.work = Opened.work
    BY <2>2
  <2>4. Write(q)
    BY <1>13, <2>3 DEF Backend, CommitStamp
  <2> QED BY <1>13, <2>3, <2>4, InterruptedWrite DEF Backend, CommitStamp, Goto
<1>14. CASE Backend(RemoveJournal)
  BY <1>14 DEF Interrupted, Backend, RemoveJournal, Goto
<1>15. CASE Backend(Tidy)
  BY <1>15 DEF Interrupted, Backend, Tidy
<1> QED BY <1>1, <1>2, <1>3, <1>4, <1>5, <1>6, <1>7, <1>8, <1>9, <1>10, <1>11, <1>12, <1>13,
           <1>14, <1>15 DEF Backend, StartStep

LEMMA InterruptedNext ==
  ASSUME DurableUnlink, IInv, Interrupted, [ShellNext]_shellVars
  PROVE  Interrupted'
<1>1. CASE Backend(Next)
  <2>1. CASE Backend(StartStep)
    BY <2>1, InterruptedStart
  <2>2. CASE Backend(FailInit)
    <3>1. pc' = "restore" => session # None
      BY <2>2 DEF Backend, FailInit
    <3>2. pc' \in {"restore", "off"} /\ UNCHANGED <<journal, session, chosen>>
          /\ db' = Opened /\ wal' = None
      BY <2>2 DEF Backend, FailInit, Checkpoint
    <3>3. journal # None => journal = session
      BY <2>2 DEF IInv, StartOK, SessionOK, Backend, FailInit
    <3> QED BY <3>2, <3>3, InterruptedSeen DEF Interrupted
  <2>3. CASE Backend(Work)
    BY <2>3 DEF IInv, StartOK, SessionOK, Interrupted, Backend, Work, process
  <2>4. CASE Backend(Autocheckpoint)
    <3>1. UNCHANGED <<pc, session, journal, chosen>> /\ db' = Opened /\ wal' = None
      BY <2>4 DEF Backend, Autocheckpoint, Checkpoint, process
    <3> QED BY <3>1, InterruptedSeen DEF Interrupted
  <2>5. CASE Backend(PrepareUpdate)
    BY <2>5 DEF Interrupted, Backend, PrepareUpdate, process
  <2>6. ASSUME NEW v \in 1 .. MaxSchema, Backend(Install(v)) PROVE Interrupted'
    BY <2>6 DEF Interrupted, Backend, Install, disk, process
  <2>7. CASE Backend(Kill)
    BY <2>7 DEF Interrupted, Backend, Kill, Stop, disk
  <2>8. CASE Backend(PowerLoss)
    <3>1. journal' = journal /\ UNCHANGED <<db, chosen>> /\ pc' = "off"
      BY <2>8 DEF Backend, PowerLoss, Stop
    <3>2. wal' # None => /\ wal # None /\ wal'.older = {}
                         /\ wal'.now \in {wal.now} \cup (wal.older \ {None})
      BY <2>8, LeftOver DEF IInv, Backend, PowerLoss
    <3> QED BY <3>1, <3>2 DEF Interrupted
  <2> QED BY <1>1, <2>1, <2>2, <2>3, <2>4, <2>5, <2>6, <2>7, <2>8 DEF Backend, Next
<1>2. ASSUME NEW s \in ToSet(snapshots), StartRestore(s) PROVE Interrupted'
  BY <1>2 DEF Interrupted, StartRestore, Stop, disk
<1>3. CASE Restore
  <2>1. pc = "off"
    BY <1>3 DEF IInv, ShellOK, Restore, SafetyCopy, ReplaceDb, DropWal, DropJournal, EndRestore
  <2>2. CASE SafetyCopy
    BY <2>2 DEF Interrupted, SafetyCopy, process
  <2>3. CASE ReplaceDb
    BY <2>1, <2>3 DEF Interrupted, ReplaceDb, process
  <2>4. CASE DropWal
    BY <2>4 DEF Interrupted, DropWal, process
  <2>5. CASE DropJournal
    BY <2>5 DEF Interrupted, DropJournal, DropJournalFile, process
  <2>6. CASE EndRestore
    BY <2>6 DEF Interrupted, EndRestore
  <2> QED BY <1>3, <2>2, <2>3, <2>4, <2>5, <2>6 DEF Restore
<1>4. CASE CrashRestore
  BY <1>4 DEF Interrupted, CrashRestore, disk, process
<1>5. CASE UNCHANGED shellVars
  BY <1>5 DEF Interrupted, shellVars, vars, disk, process
<1> QED BY <1>1, <1>2, <1>3, <1>4, <1>5 DEF ShellNext

\* A start puts a snapshot back only when nobody was served since it was made, unless the user
\* has chosen a snapshot in between (RestoresOnlyInterrupted; manager.go, recoverInterruptedMigration).
THEOREM StartsRestoreOnlyInterrupted ==
  ASSUME DurableUnlink, ~CrashUncovered
  PROVE  ShellSpec =>
           [][pc = "recover" /\ pc' = "restore" /\ journal.existed /\ ~chosen =>
                Opened = None \/ Opened.work = journal.snapshot.work]_shellVars
<1>1. ShellInit => Interrupted
  BY DEF ShellInit, Init, Interrupted
<1>2. IInv /\ Interrupted /\ [ShellNext]_shellVars => Interrupted'
  BY InterruptedNext
<1>3. IInv /\ Interrupted /\ [ShellNext]_shellVars =>
        [pc = "recover" /\ pc' = "restore" /\ journal.existed /\ ~chosen =>
           Opened = None \/ Opened.work = journal.snapshot.work]_shellVars
  <2> SUFFICES ASSUME IInv, Interrupted, ShellNext, pc = "recover", pc' = "restore",
                      journal.existed, ~chosen
               PROVE  Opened = None \/ Opened.work = journal.snapshot.work
    OBVIOUS
  <2>1. journal # None
    BY DEF ShellNext, Backend, Next, StartStep, Launch, ReadJournal, FindJournal, RestoreDb,
           RemoveWal, FinishRecovery, Unmark, Inspect, Snapshot, WriteJournal, Open, Migrate,
           Seed,
           CommitStamp, RemoveJournal, Tidy, FailInit, Work, Autocheckpoint, PrepareUpdate,
           Install,
           Kill, PowerLoss, Stop, StartRestore, Restore, SafetyCopy, ReplaceDb, DropWal,
           DropJournal, EndRestore, CrashRestore, Goto, process
  <2> QED BY <2>1, InterruptedSeen
<1> QED BY <1>1, <1>2, <1>3, Inductive, PTL DEF ShellSpec
=============================================================================
