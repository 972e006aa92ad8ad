---------------------------- MODULE DocLifecycle ----------------------------
(***************************************************************************)
(* The reusable DocType service of the ERP (modules/framework/doctype):    *)
(* every document runs Draft -> Submitted -> Cancelled and a cancelled     *)
(* document may be amended into a new draft.  Each operation is one        *)
(* database transaction which first reads the row (load) and later writes  *)
(* it back with UPDATE ... WHERE version = <the version read>, and adds a  *)
(* row to document_revisions.  Requests run concurrently, so the read and  *)
(* the write are separate steps here; the write, the revision and the      *)
(* After* hook become visible together, at COMMIT.                         *)
(*                                                                         *)
(* A document's business fields are the set of edits it contains: a save   *)
(* sends back the fields the browser was shown plus one more edit.  What   *)
(* the hooks of a definition do (post to a ledger after submit, reverse    *)
(* it before cancel) is the variable ledger.                               *)
(***************************************************************************)
EXTENDS Integers, Sequences

CONSTANTS
  Doc,            \* primary keys the service can draw (uuid.NewString)
  Client,         \* browsers, each with at most one request in flight
  Edit,           \* changes a user can make to the business fields
  BaseNo,         \* document numbers of documents that are not amendments
  MaxVersion,     \* bound on the saves of one document
  ByNumber,       \* do clients also address documents by document_no?
  IsSubmittable   \* Definition.IsSubmittable

ASSUME DocAssumption == Doc \subseteq Nat \ {0}
ASSUME BoundAssumption == MaxVersion \in Nat \ {0}
ASSUME FlagAssumption == ByNumber \in BOOLEAN /\ IsSubmittable \in BOOLEAN

VARIABLES
  docs,     \* table of the DocType, one row per primary key
  revs,     \* document_revisions, per document in commit order
  ledger,   \* net effect of the hooks of each document
  view,     \* the copy of a document each browser holds
  txn       \* the open transaction of each client's request

vars == <<docs, revs, ledger, view, txn>>

NoDoc == 0
NoBase == ""
Status == {"absent", "draft", "submitted", "cancelled"}
Op == {"save", "submit", "cancel", "amend"}

Row == [status : Status, version : Nat, base : BaseNo \cup {NoBase},
        amendNo : Nat, from : Doc \cup {NoDoc}, data : SUBSET Edit]
Revision == [version : Nat, action : Op \cup {"create"},
             status : Status, data : SUBSET Edit]
View == [doc : Doc \cup {NoDoc}, version : Nat, data : SUBSET Edit]
Txn == [op : Op \cup {"none"}, doc : Doc \cup {NoDoc}, row : Row,
        data : SUBSET Edit]

Absent == [status |-> "absent", version |-> 0, base |-> NoBase,
           amendNo |-> 0, from |-> NoDoc, data |-> {}]
Idle == [op |-> "none", doc |-> NoDoc, row |-> Absent, data |-> {}]

Present(d) == docs[d].status # "absent"
Active(c) == txn[c].op # "none"

\* document_no: the base number, with -N appended for amendment number N.
SameNumber(d1, d2) ==
  /\ docs[d1].base = docs[d2].base
  /\ docs[d1].amendNo = docs[d2].amendNo

\* load(): WHERE id = ? OR document_no = ?, and First() orders by primary
\* key.  The rows a request meant for document d can be given.
Loaded(d) ==
  {x \in Doc :
     /\ Present(x)
     /\ \/ x = d
        \/ /\ ByNumber
           /\ SameNumber(x, d)
           /\ \A y \in Doc : Present(y) /\ SameNumber(y, d) => x <= y}

-----------------------------------------------------------------------------
\* snapshot(): the revision that records a row.
Snapshot(row, action) ==
  [version |-> row.version, action |-> action,
   status |-> row.status, data |-> row.data]

\* What a response shows to the browser; when it is lost the old view stays.
Shown(d, row) == [doc |-> d, version |-> row.version, data |-> row.data]
Respond(c, d, row) ==
  view' \in {view, [view EXCEPT ![c] = Shown(d, row)]}

\* The status an operation demands of the row it loaded.
RequiredStatus(op) ==
  CASE op \in {"save", "submit"} -> "draft"
    [] op = "cancel" -> "submitted"
    [] op = "amend" -> "cancelled"

Init ==
  /\ docs = [d \in Doc |-> Absent]
  /\ revs = [d \in Doc |-> <<>>]
  /\ ledger = [d \in Doc |-> 0]
  /\ view = [c \in Client |-> [doc |-> NoDoc, version |-> 0, data |-> {}]]
  /\ txn = [c \in Client |-> Idle]

\* Insert a new row with its first revision.
Insert(c, d, row, action) ==
  /\ ~Present(d)
  /\ docs' = [docs EXCEPT ![d] = row]
  /\ revs' = [revs EXCEPT ![d] = Append(@, Snapshot(row, action))]
  /\ Respond(c, d, row)

\* CreateDraft: the transaction reads no row, so it is one step.  The number
\* is the user's, the Naming hook's or the id; nothing keeps it unique.
CreateDraft(c, d, b) ==
  /\ ~Active(c)
  /\ Insert(c, d, [status |-> "draft", version |-> 1, base |-> b,
                   amendNo |-> 0, from |-> NoDoc, data |-> {}], "create")
  /\ UNCHANGED <<ledger, txn>>

\* GET of one document: the browser now holds this copy.
Get(c, d) ==
  /\ ~Active(c)
  /\ \E x \in Loaded(d) : view' = [view EXCEPT ![c] = Shown(x, docs[x])]
  /\ UNCHANGED <<docs, revs, ledger, txn>>

\* The transaction begins and loads row x; it goes on when the status is the
\* one the operation needs, otherwise the request ends with an error.
Begin(c, op, x, data) ==
  /\ ~Active(c)
  /\ docs[x].status = RequiredStatus(op)
  /\ txn' = [txn EXCEPT ![c] =
               [op |-> op, doc |-> x, row |-> docs[x], data |-> data]]
  /\ UNCHANGED <<docs, revs, ledger, view>>

\* SaveDraft: the payload is the browser's copy with edit e, and carries the
\* version of that copy, which must be the version of the loaded row.
BeginSave(c, e) ==
  /\ view[c].doc # NoDoc
  /\ view[c].version < MaxVersion
  /\ \E x \in Loaded(view[c].doc) :
       /\ view[c].version = docs[x].version
       /\ Begin(c, "save", x, view[c].data \cup {e})

\* Submit, Cancel and Amend name a document and send nothing else.
BeginTransition(c, op, d) ==
  /\ IsSubmittable
  /\ \E x \in Loaded(d) : Begin(c, op, x, {})

\* Mutant: UPDATE ... WHERE id = ? only.
RowUnchangedUnchecked(c) == Active(c)

\* UPDATE ... WHERE id = ? AND version = ?: one row is affected only when no
\* other transaction has committed since this one loaded the row.
RowUnchanged(c) == docs[txn[c].doc].version = txn[c].row.version

\* Mutants: the version is not counted up, or is counted down.
NewRowSameVersion(c) ==
  LET old == txn[c].row
  IN  CASE txn[c].op = "save"   -> [old EXCEPT !.data = txn[c].data]
        [] txn[c].op = "submit" -> [old EXCEPT !.status = "submitted"]
        [] txn[c].op = "cancel" -> [old EXCEPT !.status = "cancelled"]
NewRowVersionDown(c) ==
  [NewRowSameVersion(c) EXCEPT !.version = @ - 1]

\* The row this transaction writes: all columns come from what it loaded
\* (or, for a save, from the request).
NewRow(c) ==
  LET old == txn[c].row
      next == [old EXCEPT !.version = @ + 1]
  IN  CASE txn[c].op = "save"   -> [next EXCEPT !.data = txn[c].data]
        [] txn[c].op = "submit" -> [next EXCEPT !.status = "submitted"]
        [] txn[c].op = "cancel" -> [next EXCEPT !.status = "cancelled"]

\* The hooks of a definition that posts on submit and reverses on cancel.
HookEffect(op) ==
  CASE op = "submit" -> 1 [] op = "cancel" -> -1 [] op = "save" -> 0

\* UPDATE, snapshot, After hook and COMMIT.
CommitUpdate(c) ==
  /\ Active(c)
  /\ txn[c].op # "amend"
  /\ RowUnchanged(c)
  /\ LET d == txn[c].doc IN
       /\ docs' = [docs EXCEPT ![d] = NewRow(c)]
       /\ revs' = [revs EXCEPT ![d] =
                     Append(@, Snapshot(NewRow(c), txn[c].op))]
       /\ ledger' = [ledger EXCEPT ![d] = @ + HookEffect(txn[c].op)]
       /\ Respond(c, d, NewRow(c))
  /\ txn' = [txn EXCEPT ![c] = Idle]

\* Amend inserts a new draft made from the cancelled row it loaded.
CommitAmend(c, d) ==
  /\ Active(c)
  /\ txn[c].op = "amend"
  /\ LET old == txn[c].row IN
       Insert(c, d, [old EXCEPT !.status = "draft", !.version = 1,
                                !.amendNo = @ + 1, !.from = txn[c].doc],
              "amend")
  /\ txn' = [txn EXCEPT ![c] = Idle]
  /\ UNCHANGED ledger

\* ErrVersionConflict, an error of a hook, a lost connection or a crash of
\* the process: the transaction is rolled back.
Rollback(c) ==
  /\ Active(c)
  /\ txn' = [txn EXCEPT ![c] = Idle]
  /\ UNCHANGED <<docs, revs, ledger, view>>

Next ==
  \E c \in Client :
    \/ \E d \in Doc, b \in BaseNo : CreateDraft(c, d, b)
    \/ \E d \in Doc : Get(c, d)
    \/ \E e \in Edit : BeginSave(c, e)
    \/ \E d \in Doc, op \in {"submit", "cancel", "amend"} :
         BeginTransition(c, op, d)
    \/ CommitUpdate(c)
    \/ \E d \in Doc : CommitAmend(c, d)
    \/ Rollback(c)

Spec == Init /\ [][Next]_vars
-----------------------------------------------------------------------------
TypeOK ==
  /\ docs \in [Doc -> Row]
  /\ revs \in [Doc -> Seq(Revision)]
  /\ ledger \in [Doc -> Int]
  /\ view \in [Client -> View]
  /\ txn \in [Client -> Txn]

\* Every change of a document is kept as a snapshot: revision number i of a
\* document is the snapshot of its version i, no version is missing or
\* recorded twice, and the newest one is the row as it stands (the audit
\* trail Amend and cancelled documents are kept for).
RevisionTrail ==
  \A d \in Doc :
    /\ Len(revs[d]) = docs[d].version
    /\ \A i \in 1 .. Len(revs[d]) : revs[d][i].version = i
    /\ Present(d) => /\ docs[d].version > 0
                     /\ revs[d][docs[d].version].status = docs[d].status
                     /\ revs[d][docs[d].version].data = docs[d].data

\* Two browsers that save the same draft never overwrite each other: what an
\* earlier version contained is still there in every later one.
NoLostUpdate ==
  \A d \in Doc : \A i, j \in 1 .. Len(revs[d]) :
    i <= j => revs[d][i].data \subseteq revs[d][j].data

\* The hooks run in the transaction of the status change, so a document is
\* posted exactly while it is submitted, however many requests raced.
PostedWhileSubmitted ==
  \A d \in Doc : ledger[d] = IF docs[d].status = "submitted" THEN 1 ELSE 0

\* A submitted document can only be cancelled, and a cancelled one never
\* changes; neither ever changes its business fields again.
Immutable ==
  \A d \in Doc :
    /\ docs[d].status = "submitted" =>
         docs'[d] \in {docs[d], [docs[d] EXCEPT !.status = "cancelled",
                                                !.version = @ + 1]}
    /\ docs[d].status = "cancelled" => docs'[d] = docs[d]
ImmutableOnceSubmitted == [][Immutable]_vars

\* The revisions of a document are a history as DocHistory describes it: the
\* service with its transactions and version checks implements the one-step
\* store.
History == INSTANCE DocHistory WITH
  history <- [d \in Doc |-> [i \in DOMAIN revs[d] |->
                [status |-> revs[d][i].status, data |-> revs[d][i].data]]]
ImplementsHistory == History!Spec

(***************************************************************************)
(* Why the version check is enough.  While a transaction is open, its row  *)
(* is the current one unless the version has moved on; the same holds of   *)
(* the copy in a browser that addresses documents by primary key.          *)
(***************************************************************************)
TxnFresh ==
  \A c \in Client : Active(c) =>
    LET t == txn[c] IN
      /\ t.doc \in Doc
      /\ t.row.status = RequiredStatus(t.op)
      /\ t.row.version <= docs[t.doc].version
      /\ t.row.version = docs[t.doc].version => t.row = docs[t.doc]
      /\ t.op = "amend" => t.row = docs[t.doc]

ViewFresh ==
  \A c \in Client : view[c].doc # NoDoc =>
    LET d == view[c].doc IN
      /\ view[c].version > 0
      /\ view[c].version <= docs[d].version
      /\ view[c].version = docs[d].version => view[c].data = docs[d].data

\* The payload of an open save is the row it will overwrite plus an edit.
SaveExtends ==
  \A c \in Client : txn[c].op = "save" =>
    \E e \in Edit : txn[c].data = txn[c].row.data \cup {e}

\* A primary key not drawn yet has no row.
Blank == \A d \in Doc : ~Present(d) => docs[d] = Absent

IInv == TypeOK /\ Blank /\ RevisionTrail /\ TxnFresh /\ PostedWhileSubmitted
IInvById == IInv /\ ViewFresh /\ SaveExtends
=============================================================================
