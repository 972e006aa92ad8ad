------------------------ MODULE DocLifecycle_proofs ------------------------
(***************************************************************************)
(* Proofs about DocLifecycle, for any number of documents, clients, edits  *)
(* and versions.  The argument has one idea: the version of a row names    *)
(* its content, so a transaction that finds the version it loaded also     *)
(* finds the row it loaded (TxnFresh).  IInv adds to it that revisions     *)
(* and rows move together; the audit trail, immutability and the hooks'    *)
(* postings follow.  The second part is about documents addressed by       *)
(* primary key: no save is ever overwritten, and the service implements    *)
(* DocHistory.                                                             *)
(***************************************************************************)
EXTENDS DocLifecycle, SequenceTheorems, TLAPS

LEMMA Literals ==
  /\ {"absent", "draft", "submitted", "cancelled"} \subseteq Status
  /\ {"save", "submit", "cancel", "amend"} \subseteq Op
  /\ NoBase \in BaseNo \cup {NoBase}
  /\ NoDoc \in Doc \cup {NoDoc}
  /\ NoDoc \notin Doc
  BY DocAssumption DEF Status, Op, NoDoc

\* Hooks and required statuses have the values the case tables list.
LEMMA HookTable ==
  /\ HookEffect("submit") = 1
  /\ HookEffect("cancel") = -1
  /\ HookEffect("save") = 0
  BY DEF HookEffect

LEMMA StatusTable ==
  /\ RequiredStatus("save") = "draft"
  /\ RequiredStatus("submit") = "draft"
  /\ RequiredStatus("cancel") = "submitted"
  /\ RequiredStatus("amend") = "cancelled"
  BY DEF RequiredStatus

LEMMA NextNumbers ==
  ASSUME NEW row \in Row
  PROVE  row.version + 1 \in Nat /\ row.amendNo + 1 \in Nat
  BY DEF Row

\* The row a committing update writes: the loaded one, one version later,
\* with the payload of a save or the new status of a transition.
LEMMA NewRowFields ==
  ASSUME NEW c \in Client, TypeOK, Active(c), txn[c].op # "amend"
  PROVE  /\ NewRow(c) \in Row
         /\ NewRow(c).version = txn[c].row.version + 1
         /\ NewRow(c).base = txn[c].row.base
         /\ NewRow(c).amendNo = txn[c].row.amendNo
         /\ NewRow(c).from = txn[c].row.from
         /\ NewRow(c).status =
              CASE txn[c].op = "save" -> txn[c].row.status
                [] txn[c].op = "submit" -> "submitted"
                [] txn[c].op = "cancel" -> "cancelled"
         /\ NewRow(c).data = IF txn[c].op = "save" THEN txn[c].data
                                                   ELSE txn[c].row.data
<1>1. /\ txn[c].op \in {"save", "submit", "cancel"}
      /\ txn[c].row \in Row
      /\ txn[c].data \in SUBSET Edit
  BY DEF TypeOK, Txn, Active, Op
<1> DEFINE next == [txn[c].row EXCEPT !.version = @ + 1]
<1>a. next \in Row
  BY <1>1 DEF Row
<1>2. CASE txn[c].op = "save"
  <2>1. NewRow(c) = [next EXCEPT !.data = txn[c].data]
    BY <1>2 DEF NewRow
  <2>2. QED
    BY <1>1, <1>a, <1>2, <2>1 DEF Row
<1>3. CASE txn[c].op = "submit"
  <2>1. NewRow(c) = [next EXCEPT !.status = "submitted"]
    BY <1>3 DEF NewRow
  <2>2. QED
    BY <1>1, <1>a, <1>3, <2>1, Literals DEF Row
<1>4. CASE txn[c].op = "cancel"
  <2>1. NewRow(c) = [next EXCEPT !.status = "cancelled"]
    BY <1>4 DEF NewRow
  <2>2. QED
    BY <1>1, <1>a, <1>4, <2>1, Literals DEF Row
<1>5. QED
  BY <1>1, <1>2, <1>3, <1>4

LEMMA IdleTyped == Absent \in Row /\ Idle \in Txn
<1>1. Absent \in Row
  BY Literals DEF Absent, Row
<1>2. QED
  BY <1>1, Literals DEF Idle, Txn

LEMMA TypedInit == Init => TypeOK
<1> SUFFICES ASSUME Init PROVE TypeOK
  OBVIOUS
<1>1. [doc |-> NoDoc, version |-> 0, data |-> {}] \in View
  BY Literals DEF View
<1>2. <<>> \in Seq(Revision)
  OBVIOUS
<1>3. QED
  BY <1>1, <1>2, IdleTyped DEF Init, TypeOK

\* A response leaves every browser with a well-formed copy.
LEMMA RespondTyped ==
  ASSUME NEW c \in Client, NEW d \in Doc, NEW row \in Row,
         view \in [Client -> View], Respond(c, d, row)
  PROVE  view' \in [Client -> View]
<1>1. Shown(d, row) \in View
  BY DEF Shown, View, Row
<1>2. QED
  BY <1>1 DEF Respond

\* Inserting a row with its first revision keeps the tables well formed.
LEMMA InsertTyped ==
  ASSUME NEW c \in Client, NEW d \in Doc, NEW row \in Row,
         NEW action \in {"create", "amend"},
         TypeOK, Insert(c, d, row, action)
  PROVE  /\ docs' \in [Doc -> Row]
         /\ revs' \in [Doc -> Seq(Revision)]
         /\ view' \in [Client -> View]
<1>1. Snapshot(row, action) \in Revision
  BY Literals DEF Snapshot, Revision, Row
<1>2. Append(revs[d], Snapshot(row, action)) \in Seq(Revision)
  BY <1>1 DEF TypeOK
<1>3. docs' \in [Doc -> Row] /\ revs' \in [Doc -> Seq(Revision)]
  BY <1>2 DEF Insert, TypeOK
<1>4. QED
  BY <1>3, RespondTyped DEF Insert, TypeOK

\* The row of a new draft, and of an amendment.
DraftRow(b) == [status |-> "draft", version |-> 1, base |-> b,
                amendNo |-> 0, from |-> NoDoc, data |-> {}]
AmendRow(c) == [txn[c].row EXCEPT !.status = "draft", !.version = 1,
                                  !.amendNo = @ + 1, !.from = txn[c].doc]

LEMMA AmendRowFields ==
  ASSUME NEW c \in Client, TypeOK
  PROVE  /\ AmendRow(c) \in Row
         /\ AmendRow(c).status = "draft"
         /\ AmendRow(c).version = 1
         /\ AmendRow(c).base = txn[c].row.base
         /\ AmendRow(c).amendNo = txn[c].row.amendNo + 1
         /\ AmendRow(c).from = txn[c].doc
         /\ AmendRow(c).data = txn[c].row.data
<1>1. txn[c].row \in Row /\ txn[c].doc \in Doc \cup {NoDoc}
  BY DEF TypeOK, Txn
<1> DEFINE r1 == [txn[c].row EXCEPT !.status = "draft", !.version = 1]
           r2 == [r1 EXCEPT !.amendNo = @ + 1]
<1>2. r1 \in Row
  BY <1>1, Literals DEF Row
<1>3. r2 \in Row
  <2>1. r1.amendNo + 1 \in Nat
    BY <1>2, NextNumbers
  <2>2. QED
    BY <1>2, <2>1 DEF Row
<1>4. AmendRow(c) = [r2 EXCEPT !.from = txn[c].doc]
  BY DEF AmendRow
<1>5. QED
  BY <1>1, <1>3, <1>4 DEF Row

LEMMA TypedStep == TypeOK /\ [Next]_vars => TypeOK'
<1> SUFFICES ASSUME TypeOK, [Next]_vars PROVE TypeOK'
  OBVIOUS
<1>1. ASSUME NEW c \in Client, NEW d \in Doc, NEW b \in BaseNo,
             CreateDraft(c, d, b)
      PROVE  TypeOK'
  <2>1. DraftRow(b) \in Row
    BY Literals DEF DraftRow, Row
  <2>2. QED
    BY <1>1, <2>1, InsertTyped DEF CreateDraft, DraftRow, TypeOK
<1>2. ASSUME NEW c \in Client, NEW d \in Doc, Get(c, d)
      PROVE  TypeOK'
  <2>1. PICK x \in Doc : view' = [view EXCEPT ![c] = Shown(x, docs[x])]
    BY <1>2 DEF Get, Loaded
  <2>2. Shown(x, docs[x]) \in View
    BY DEF Shown, View, Row, TypeOK
  <2>3. QED
    BY <1>2, <2>1, <2>2 DEF Get, TypeOK
<1>3. ASSUME NEW c \in Client, NEW x \in Doc, NEW op \in Op,
             NEW data \in SUBSET Edit, Begin(c, op, x, data)
      PROVE  TypeOK'
  <2>1. [op |-> op, doc |-> x, row |-> docs[x], data |-> data] \in Txn
    BY DEF TypeOK, Txn
  <2>2. QED
    BY <1>3, <2>1 DEF Begin, TypeOK
<1>4. ASSUME NEW c \in Client, NEW e \in Edit, BeginSave(c, e)
      PROVE  TypeOK'
  <2>1. PICK x \in Doc : Begin(c, "save", x, view[c].data \cup {e})
    BY <1>4 DEF BeginSave, Loaded
  <2>2. view[c].data \cup {e} \in SUBSET Edit
    BY DEF TypeOK, View
  <2>3. QED
    BY <1>3, <2>1, <2>2, Literals
<1>5. ASSUME NEW c \in Client, NEW d \in Doc,
             NEW op \in {"submit", "cancel", "amend"},
             BeginTransition(c, op, d)
      PROVE  TypeOK'
  <2>1. PICK x \in Doc : Begin(c, op, x, {})
    BY <1>5 DEF BeginTransition, Loaded
  <2>2. QED
    BY <1>3, <2>1, Literals
<1>6. ASSUME NEW c \in Client, CommitUpdate(c)
      PROVE  TypeOK'
  <2> DEFINE d == txn[c].doc
             rev == Snapshot(NewRow(c), txn[c].op)
  <2>1. NewRow(c) \in Row /\ txn[c].op \in {"save", "submit", "cancel"}
    BY <1>6, NewRowFields DEF CommitUpdate, TypeOK, Txn, Active, Op
  <2>2. rev \in Revision
    BY <2>1, Literals DEF Snapshot, Revision, Row
  <2>3. HookEffect(txn[c].op) \in Int
    BY <2>1, HookTable
  <2>4. docs' \in [Doc -> Row]
    BY <1>6, <2>1 DEF CommitUpdate, TypeOK
  <2>5. revs' \in [Doc -> Seq(Revision)]
    <3>1. d \in Doc => Append(revs[d], rev) \in Seq(Revision)
      BY <2>2 DEF TypeOK
    <3>2. revs' = [revs EXCEPT ![d] = Append(revs[d], rev)]
      BY <1>6 DEF CommitUpdate
    <3>3. QED
      BY <3>1, <3>2 DEF TypeOK
  <2>6. ledger' \in [Doc -> Int]
    <3>1. d \in Doc => ledger[d] + HookEffect(txn[c].op) \in Int
      BY <2>3 DEF TypeOK
    <3>2. ledger' = [ledger EXCEPT ![d] = ledger[d] + HookEffect(txn[c].op)]
      BY <1>6 DEF CommitUpdate
    <3>3. QED
      BY <3>1, <3>2 DEF TypeOK
  <2>7. view' \in [Client -> View]
    <3>1. Shown(d, NewRow(c)) \in View
      BY <2>1 DEF Shown, View, Row, TypeOK, Txn
    <3>2. QED
      BY <1>6, <3>1 DEF CommitUpdate, Respond, TypeOK
  <2>8. txn' \in [Client -> Txn]
    BY <1>6, IdleTyped DEF CommitUpdate, TypeOK
  <2>9. QED
    BY <2>4, <2>5, <2>6, <2>7, <2>8 DEF TypeOK
<1>7. ASSUME NEW c \in Client, NEW d \in Doc, CommitAmend(c, d)
      PROVE  TypeOK'
  <2>1. Insert(c, d, AmendRow(c), "amend")
    BY <1>7 DEF CommitAmend, AmendRow
  <2>2. QED
    BY <1>7, <2>1, InsertTyped, AmendRowFields, IdleTyped
    DEF CommitAmend, TypeOK
<1>8. ASSUME NEW c \in Client, Rollback(c)
      PROVE  TypeOK'
  BY <1>8, IdleTyped DEF Rollback, TypeOK
<1>9. CASE UNCHANGED vars
  BY <1>9 DEF vars, TypeOK
<1>10. QED
  BY <1>1, <1>2, <1>4, <1>5, <1>6, <1>7, <1>8, <1>9 DEF Next

\* Every reachable state of the service is well formed.
THEOREM TypeCorrect == Spec => []TypeOK
<1>1. QED
  BY TypedInit, TypedStep, PTL DEF Spec
-----------------------------------------------------------------------------
(* Every step leaves the tables alone or adds one version to one document. *)
Grows(d, row, action) ==
  /\ row \in Row
  /\ row.status # "absent"
  /\ row.version = docs[d].version + 1
  /\ docs' = [docs EXCEPT ![d] = row]
  /\ revs' = [revs EXCEPT ![d] = Append(revs[d], Snapshot(row, action))]

\* An insert draws an unused key, so the document grows from nothing.
LEMMA InsertGrows ==
  ASSUME NEW c \in Client, NEW d \in Doc, NEW row \in Row, NEW action,
         TypeOK, Blank, Insert(c, d, row, action),
         row.version = 1, row.status = "draft"
  PROVE  Grows(d, row, action) /\ docs[d] = Absent
<1>1. docs[d] = Absent
  BY DEF Insert, Blank
<1>2. row.version = docs[d].version + 1
  BY <1>1 DEF Absent
<1>3. QED
  BY <1>1, <1>2 DEF Insert, Grows

\* An update that finds the version it loaded finds the row it loaded.
LEMMA UpdateGrows ==
  ASSUME NEW c \in Client, TypeOK, TxnFresh, CommitUpdate(c)
  PROVE  /\ txn[c].doc \in Doc
         /\ txn[c].op \in {"save", "submit", "cancel"}
         /\ txn[c].row = docs[txn[c].doc]
         /\ docs[txn[c].doc].status = RequiredStatus(txn[c].op)
         /\ Grows(txn[c].doc, NewRow(c), txn[c].op)
<1>1. /\ txn[c].doc \in Doc
      /\ txn[c].row = docs[txn[c].doc]
      /\ docs[txn[c].doc].status = RequiredStatus(txn[c].op)
  BY DEF TxnFresh, CommitUpdate, RowUnchanged
<1>2. txn[c].op \in {"save", "submit", "cancel"}
  BY DEF CommitUpdate, TypeOK, Txn, Active, Op
<1>3. /\ NewRow(c) \in Row
      /\ NewRow(c).version = docs[txn[c].doc].version + 1
      /\ NewRow(c).status # "absent"
  BY <1>1, <1>2, NewRowFields, StatusTable DEF CommitUpdate
<1>4. QED
  BY <1>1, <1>2, <1>3 DEF CommitUpdate, Grows

LEMMA TrailGrows ==
  ASSUME NEW d \in Doc, NEW row, NEW action,
         TypeOK, RevisionTrail, Grows(d, row, action)
  PROVE  RevisionTrail'
<1> SUFFICES ASSUME NEW x \in Doc
             PROVE  /\ Len(revs'[x]) = docs'[x].version
                    /\ \A i \in 1 .. Len(revs'[x]) : revs'[x][i].version = i
                    /\ docs'[x].status # "absent" =>
                         /\ docs'[x].version > 0
                         /\ revs'[x][docs'[x].version].status = docs'[x].status
                         /\ revs'[x][docs'[x].version].data = docs'[x].data
  BY DEF RevisionTrail, Present
<1>1. CASE x # d
  BY <1>1 DEF Grows, RevisionTrail, Present, TypeOK
<1>2. CASE x = d
  <2> DEFINE rev == Snapshot(row, action)
  <2>1. /\ docs'[d] = row
        /\ revs'[d] = Append(revs[d], rev)
        /\ revs[d] \in Seq(Revision)
        /\ Len(revs[d]) = docs[d].version
        /\ row.version = docs[d].version + 1
    BY DEF Grows, RevisionTrail, TypeOK
  <2>2. /\ rev.version = row.version
        /\ rev.status = row.status
        /\ rev.data = row.data
    BY DEF Snapshot
  <2>3. Len(revs'[d]) = row.version
    BY <2>1
  <2>4. \A i \in 1 .. Len(revs[d]) : revs[d][i].version = i
    BY DEF RevisionTrail
  <2>5. \A i \in 1 .. Len(revs'[d]) : revs'[d][i].version = i
    BY <2>1, <2>2, <2>4
  <2>6. revs'[d][row.version] = rev /\ row.version > 0
    BY <2>1
  <2>7. QED
    BY <1>2, <2>1, <2>2, <2>3, <2>5, <2>6
<1>3. QED
  BY <1>1, <1>2

LEMMA BlankGrows ==
  ASSUME NEW d \in Doc, NEW row, NEW action,
         TypeOK, Blank, Grows(d, row, action)
  PROVE  Blank'
  BY DEF Blank, Grows, Present, TypeOK

\* Open transactions on a document that grows are left behind, unless they
\* are amendments, whose document is cancelled and cannot grow.
LEMMA FreshGrows ==
  ASSUME NEW d \in Doc, NEW row, NEW action,
         TypeOK, TxnFresh, Grows(d, row, action),
         docs[d].status # "cancelled",
         NEW c \in Client, txn' = [txn EXCEPT ![c] = Idle] \/ txn' = txn
  PROVE  TxnFresh'
<1> SUFFICES ASSUME NEW x \in Client, txn'[x].op # "none"
             PROVE  /\ txn'[x].doc \in Doc
                    /\ txn'[x].row.status = RequiredStatus(txn'[x].op)
                    /\ txn'[x].row.version <= docs'[txn'[x].doc].version
                    /\ txn'[x].row.version = docs'[txn'[x].doc].version
                         => txn'[x].row = docs'[txn'[x].doc]
                    /\ txn'[x].op = "amend" => txn'[x].row = docs'[txn'[x].doc]
  BY DEF TxnFresh, Active, RequiredStatus
<1>1. txn'[x] = txn[x] /\ Active(x)
  BY DEF TypeOK, Idle, Active
<1> DEFINE t == txn[x]
<1>2. /\ t.doc \in Doc
      /\ t.row.status = RequiredStatus(t.op)
      /\ t.row.version <= docs[t.doc].version
      /\ t.row.version = docs[t.doc].version => t.row = docs[t.doc]
      /\ t.op = "amend" => t.row = docs[t.doc]
  BY <1>1 DEF TxnFresh
<1>3. CASE t.doc # d
  <2>1. docs'[t.doc] = docs[t.doc]
    BY <1>2, <1>3 DEF Grows, TypeOK
  <2>2. QED
    BY <1>1, <1>2, <2>1
<1>4. CASE t.doc = d
  <2>1. docs'[t.doc] = row /\ row.version = docs[t.doc].version + 1
    BY <1>4 DEF Grows, TypeOK
  <2>2. t.op # "amend"
    BY <1>2, <1>4, StatusTable
  <2>3. t.row.version \in Nat /\ docs[t.doc].version \in Nat
    BY <1>2 DEF TypeOK, Txn, Row
  <2>4. t.row.version < row.version
    BY <1>2, <2>1, <2>3
  <2>5. QED
    BY <1>1, <1>2, <2>1, <2>2, <2>3, <2>4
<1>5. QED
  BY <1>3, <1>4

\* The three ways to change the tables, with what each does to the ledger.
LEMMA TableStep ==
  ASSUME IInv, Next
  PROVE  \/ UNCHANGED <<docs, revs, ledger>>
         \/ \E d \in Doc, row \in Row, action \in {"create", "amend"} :
              /\ docs[d] = Absent
              /\ row.status = "draft"
              /\ row.from # NoDoc =>
                   /\ docs[row.from].status = "cancelled"
                   /\ row.base = docs[row.from].base
                   /\ row.amendNo = docs[row.from].amendNo + 1
                   /\ row.data = docs[row.from].data
              /\ Grows(d, row, action)
              /\ UNCHANGED ledger
         \/ \E c \in Client : CommitUpdate(c)
<1>1. ASSUME NEW c \in Client, NEW d \in Doc, NEW b \in BaseNo,
             CreateDraft(c, d, b)
      PROVE  /\ docs[d] = Absent
             /\ DraftRow(b) \in Row
             /\ DraftRow(b).status = "draft"
             /\ DraftRow(b).from = NoDoc
             /\ Grows(d, DraftRow(b), "create")
             /\ UNCHANGED ledger
  <2>1. DraftRow(b) \in Row
    BY Literals DEF DraftRow, Row
  <2>2. Insert(c, d, DraftRow(b), "create")
    BY <1>1 DEF CreateDraft, DraftRow
  <2>3. DraftRow(b).version = 1 /\ DraftRow(b).status = "draft"
        /\ DraftRow(b).from = NoDoc
    BY DEF DraftRow
  <2>4. QED
    BY <1>1, <2>1, <2>2, <2>3, InsertGrows DEF IInv, CreateDraft
<1>2. ASSUME NEW c \in Client, NEW d \in Doc, CommitAmend(c, d)
      PROVE  LET row == AmendRow(c) IN
             /\ docs[d] = Absent
             /\ row \in Row
             /\ row.status = "draft"
             /\ docs[row.from].status = "cancelled"
             /\ row.base = docs[row.from].base
             /\ row.amendNo = docs[row.from].amendNo + 1
             /\ row.data = docs[row.from].data
             /\ Grows(d, row, "amend")
             /\ UNCHANGED ledger
  <2>1. Insert(c, d, AmendRow(c), "amend")
    BY <1>2 DEF CommitAmend, AmendRow
  <2>2. Grows(d, AmendRow(c), "amend") /\ docs[d] = Absent
    BY <2>1, InsertGrows, AmendRowFields DEF IInv
  <2>3. txn[c].row = docs[txn[c].doc] /\ txn[c].row.status = "cancelled"
    BY <1>2, StatusTable DEF CommitAmend, IInv, TxnFresh
  <2>4. QED
    BY <1>2, <2>2, <2>3, AmendRowFields DEF IInv, CommitAmend
<1>3. ASSUME NEW c \in Client,
             \/ \E d \in Doc : Get(c, d)
             \/ \E e \in Edit : BeginSave(c, e)
             \/ \E d \in Doc, op \in {"submit", "cancel", "amend"} :
                  BeginTransition(c, op, d)
             \/ Rollback(c)
      PROVE  UNCHANGED <<docs, revs, ledger>>
  BY <1>3 DEF Get, BeginSave, BeginTransition, Begin, Rollback
<1>4. QED
  BY <1>1, <1>2, <1>3 DEF Next

LEMMA LedgerStep ==
  ASSUME IInv, Next
  PROVE  PostedWhileSubmitted'
<1> SUFFICES ASSUME NEW x \in Doc
             PROVE  ledger'[x] = IF docs'[x].status = "submitted" THEN 1 ELSE 0
  BY DEF PostedWhileSubmitted
<1>1. /\ ledger[x] = IF docs[x].status = "submitted" THEN 1 ELSE 0
      /\ docs \in [Doc -> Row]
      /\ ledger \in [Doc -> Int]
  BY DEF IInv, PostedWhileSubmitted, TypeOK
<1>2. CASE UNCHANGED <<docs, revs, ledger>>
  BY <1>1, <1>2
<1>3. ASSUME NEW d \in Doc, NEW row \in Row, NEW action,
             docs[d] = Absent, row.status = "draft",
             Grows(d, row, action), UNCHANGED ledger
      PROVE  ledger'[x] = IF docs'[x].status = "submitted" THEN 1 ELSE 0
  BY <1>1, <1>3 DEF Grows, Absent
<1>4. ASSUME NEW c \in Client, CommitUpdate(c)
      PROVE  ledger'[x] = IF docs'[x].status = "submitted" THEN 1 ELSE 0
  <2> DEFINE d == txn[c].doc
             op == txn[c].op
  <2>1. /\ d \in Doc
        /\ op \in {"save", "submit", "cancel"}
        /\ txn[c].row = docs[d]
        /\ docs[d].status = RequiredStatus(op)
        /\ docs' = [docs EXCEPT ![d] = NewRow(c)]
    BY <1>4, UpdateGrows DEF IInv, Grows
  <2>2. ledger' = [ledger EXCEPT ![d] = ledger[d] + HookEffect(op)]
    BY <1>4 DEF CommitUpdate
  <2>3. CASE x # d
    BY <1>1, <2>1, <2>2, <2>3
  <2>4. CASE x = d
    <3>1. docs'[x] = NewRow(c) /\ ledger'[x] = ledger[x] + HookEffect(op)
      BY <1>1, <2>1, <2>2, <2>4
    <3>2. NewRow(c).status = CASE op = "save" -> docs[d].status
                               [] op = "submit" -> "submitted"
                               [] op = "cancel" -> "cancelled"
      BY <1>4, <2>1, NewRowFields DEF IInv, CommitUpdate
    <3>3. CASE op = "save"
      BY <1>1, <2>1, <2>4, <3>1, <3>2, <3>3, HookTable, StatusTable
    <3>4. CASE op = "submit"
      BY <1>1, <2>1, <2>4, <3>1, <3>2, <3>4, HookTable, StatusTable
    <3>5. CASE op = "cancel"
      BY <1>1, <2>1, <2>4, <3>1, <3>2, <3>5, HookTable, StatusTable
    <3>6. QED
      BY <2>1, <3>3, <3>4, <3>5
  <2>5. QED
    BY <2>3, <2>4
<1>5. QED
  BY <1>2, <1>3, <1>4, TableStep

\* A transaction that begins has just loaded the current row.
LEMMA FreshBegin ==
  ASSUME NEW c \in Client, NEW op \in Op, NEW x \in Doc, NEW data,
         TypeOK, TxnFresh, Begin(c, op, x, data)
  PROVE  TxnFresh'
<1>1. /\ docs' = docs
      /\ txn' = [txn EXCEPT ![c] = [op |-> op, doc |-> x, row |-> docs[x],
                                    data |-> data]]
      /\ docs[x].status = RequiredStatus(op)
      /\ docs[x].version \in Nat
      /\ txn \in [Client -> Txn]
  BY DEF Begin, TypeOK, Row
<1> SUFFICES ASSUME NEW y \in Client, txn'[y].op # "none"
             PROVE  /\ txn'[y].doc \in Doc
                    /\ txn'[y].row.status = RequiredStatus(txn'[y].op)
                    /\ txn'[y].row.version <= docs[txn'[y].doc].version
                    /\ txn'[y].row.version = docs[txn'[y].doc].version
                         => txn'[y].row = docs[txn'[y].doc]
                    /\ txn'[y].op = "amend" => txn'[y].row = docs[txn'[y].doc]
  BY <1>1 DEF TxnFresh, Active, RequiredStatus
<1>2. CASE y = c
  BY <1>1, <1>2
<1>3. CASE y # c
  <2>1. txn'[y] = txn[y]
    BY <1>1, <1>3
  <2>2. QED
    BY <2>1 DEF TxnFresh, Active
<1>4. QED
  BY <1>2, <1>3

LEMMA FreshStep ==
  ASSUME IInv, Next
  PROVE  TxnFresh'
<1> USE DEF IInv
<1>1. ASSUME NEW c \in Client, NEW d \in Doc, NEW b \in BaseNo,
             CreateDraft(c, d, b)
      PROVE  TxnFresh'
  <2>1. DraftRow(b) \in Row /\ DraftRow(b).version = 1
        /\ DraftRow(b).status = "draft"
    BY Literals DEF DraftRow, Row
  <2>2. Insert(c, d, DraftRow(b), "create")
    BY <1>1 DEF CreateDraft, DraftRow
  <2>3. Grows(d, DraftRow(b), "create") /\ docs[d].status # "cancelled"
    BY <2>1, <2>2, InsertGrows DEF Absent
  <2>4. QED
    BY <1>1, <2>3, FreshGrows DEF CreateDraft
<1>2. ASSUME NEW c \in Client, NEW d \in Doc, CommitAmend(c, d)
      PROVE  TxnFresh'
  <2>1. Insert(c, d, AmendRow(c), "amend")
    BY <1>2 DEF CommitAmend, AmendRow
  <2>2. Grows(d, AmendRow(c), "amend") /\ docs[d].status # "cancelled"
    BY <2>1, InsertGrows, AmendRowFields DEF Absent
  <2>3. QED
    BY <1>2, <2>2, FreshGrows DEF CommitAmend
<1>3. ASSUME NEW c \in Client, CommitUpdate(c)
      PROVE  TxnFresh'
  <2>1. /\ txn[c].doc \in Doc
        /\ Grows(txn[c].doc, NewRow(c), txn[c].op)
        /\ docs[txn[c].doc].status # "cancelled"
    BY <1>3, UpdateGrows, StatusTable
  <2>2. txn' = [txn EXCEPT ![c] = Idle]
    BY <1>3 DEF CommitUpdate
  <2>3. QED
    BY <2>1, <2>2, FreshGrows
<1>4. ASSUME NEW c \in Client, NEW e \in Edit, BeginSave(c, e)
      PROVE  TxnFresh'
  <2>1. PICK x \in Doc : Begin(c, "save", x, view[c].data \cup {e})
    BY <1>4 DEF BeginSave, Loaded
  <2>2. QED
    BY <2>1, Literals, FreshBegin
<1>5. ASSUME NEW c \in Client, NEW d \in Doc,
             NEW op \in {"submit", "cancel", "amend"},
             BeginTransition(c, op, d)
      PROVE  TxnFresh'
  <2>1. PICK x \in Doc : Begin(c, op, x, {})
    BY <1>5 DEF BeginTransition, Loaded
  <2>2. QED
    BY <2>1, Literals, FreshBegin
<1>6. ASSUME NEW c \in Client, NEW d \in Doc, Get(c, d)
      PROVE  TxnFresh'
  BY <1>6 DEF Get, TxnFresh, Active, RequiredStatus
<1>7. ASSUME NEW c \in Client, Rollback(c)
      PROVE  TxnFresh'
  BY <1>7 DEF Rollback, TxnFresh, Active, RequiredStatus, Idle, TypeOK
<1>8. QED
  BY <1>1, <1>2, <1>3, <1>4, <1>5, <1>6, <1>7 DEF Next

LEMMA InductiveStep == IInv /\ [Next]_vars => IInv'
<1>1. ASSUME IInv, Next
      PROVE  IInv'
  <2>1. TypeOK'
    BY <1>1, TypedStep DEF IInv
  <2>2. Blank' /\ RevisionTrail'
    <3>1. CASE UNCHANGED <<docs, revs, ledger>>
      BY <1>1, <3>1 DEF IInv, Blank, RevisionTrail, Present
    <3>2. CASE \E d \in Doc, row \in Row, action \in Op \cup {"create"} :
                 Grows(d, row, action)
      BY <1>1, <3>2, TrailGrows, BlankGrows DEF IInv
    <3>3. CASE \E c \in Client : CommitUpdate(c)
      <4>1. PICK c \in Client : CommitUpdate(c)
        BY <3>3
      <4>2. Grows(txn[c].doc, NewRow(c), txn[c].op) /\ txn[c].doc \in Doc
        BY <1>1, <4>1, UpdateGrows DEF IInv
      <4>3. QED
        BY <1>1, <4>2, TrailGrows, BlankGrows DEF IInv
    <3>4. QED
      BY <1>1, <3>1, <3>2, <3>3, TableStep, Literals
  <2>3. TxnFresh'
    BY <1>1, FreshStep
  <2>4. PostedWhileSubmitted'
    BY <1>1, LedgerStep
  <2>5. QED
    BY <2>1, <2>2, <2>3, <2>4 DEF IInv
<1>2. ASSUME IInv, UNCHANGED vars
      PROVE  IInv'
  BY <1>2 DEF IInv, vars, TypeOK, Blank, RevisionTrail, TxnFresh,
              PostedWhileSubmitted, Present, Active, RequiredStatus
<1>3. QED
  BY <1>1, <1>2

LEMMA InductiveInit == Init => IInv
<1> SUFFICES ASSUME Init PROVE IInv
  OBVIOUS
<1>1. /\ docs = [d \in Doc |-> Absent]
      /\ revs = [d \in Doc |-> <<>>]
      /\ ledger = [d \in Doc |-> 0]
      /\ txn = [c \in Client |-> Idle]
  BY DEF Init
<1>2. Blank /\ RevisionTrail /\ PostedWhileSubmitted
  BY <1>1 DEF Blank, RevisionTrail, PostedWhileSubmitted, Present, Absent
<1>3. TxnFresh
  BY <1>1 DEF TxnFresh, Active, Idle
<1>4. QED
  BY <1>2, <1>3, TypedInit DEF IInv

THEOREM Inductive == Spec => []IInv
<1>1. QED
  BY InductiveInit, InductiveStep, PTL DEF Spec

\* However many requests race on a document, its revisions record every one
\* of its versions exactly once, and end with the row as it stands.
THEOREM AuditTrailComplete == Spec => []RevisionTrail
<1>1. IInv => RevisionTrail
  BY DEF IInv
<1>2. QED
  BY <1>1, Inductive, PTL

\* A document's postings are on the books exactly while it is submitted:
\* racing submits post once and racing cancels reverse once.
THEOREM PostingsFollowStatus == Spec => []PostedWhileSubmitted
<1>1. IInv => PostedWhileSubmitted
  BY DEF IInv
<1>2. QED
  BY <1>1, Inductive, PTL

\* Submitted and cancelled documents are never edited, whatever transactions
\* were open when they were submitted or cancelled.
THEOREM SubmittedIsFinal == Spec => ImmutableOnceSubmitted
<1>1. IInv /\ [Next]_vars => [Immutable]_vars
  <2> SUFFICES ASSUME IInv, Next, NEW x \in Doc
               PROVE  /\ docs[x].status = "submitted" =>
                           docs'[x] \in {docs[x],
                             [docs[x] EXCEPT !.status = "cancelled",
                                             !.version = @ + 1]}
                      /\ docs[x].status = "cancelled" => docs'[x] = docs[x]
    BY DEF Immutable
  <2>1. CASE UNCHANGED <<docs, revs, ledger>>
    BY <2>1
  <2>2. ASSUME NEW d \in Doc, NEW row \in Row, NEW action,
               docs[d] = Absent, Grows(d, row, action)
        PROVE  x # d => docs'[x] = docs[x]
    BY <2>2 DEF Grows, IInv, TypeOK
  <2>3. ASSUME NEW c \in Client, CommitUpdate(c), x = txn[c].doc
        PROVE  /\ docs[x].status # "cancelled"
               /\ docs[x].status = "submitted" =>
                    docs'[x] = [docs[x] EXCEPT !.status = "cancelled",
                                               !.version = @ + 1]
    <3>1. /\ txn[c].op \in {"save", "submit", "cancel"}
          /\ txn[c].row = docs[x]
          /\ docs[x].status = RequiredStatus(txn[c].op)
          /\ docs'[x] = NewRow(c)
      BY <2>3, UpdateGrows DEF IInv, Grows, TypeOK
    <3>2. docs[x].status # "cancelled"
      BY <3>1, StatusTable
    <3>3. ASSUME docs[x].status = "submitted"
          PROVE  docs'[x] = [docs[x] EXCEPT !.status = "cancelled",
                                            !.version = @ + 1]
      <4>1. txn[c].op = "cancel"
        BY <3>1, <3>3, StatusTable
      <4>2. QED
        BY <3>1, <4>1 DEF NewRow, IInv, TypeOK, Row
    <3>4. QED
      BY <3>2, <3>3
  <2>4. ASSUME NEW c \in Client, CommitUpdate(c), x # txn[c].doc
        PROVE  docs'[x] = docs[x]
    BY <2>4 DEF CommitUpdate, IInv, TypeOK
  <2>5. CASE \E d \in Doc, row \in Row, action \in {"create", "amend"} :
               docs[d] = Absent /\ Grows(d, row, action)
    <3>1. PICK d \in Doc, row \in Row, action \in {"create", "amend"} :
            docs[d] = Absent /\ Grows(d, row, action)
      BY <2>5
    <3>2. x = d => docs[x].status = "absent"
      BY <3>1 DEF Absent
    <3>3. x # d => docs'[x] = docs[x]
      BY <2>2, <3>1
    <3>4. QED
      BY <3>2, <3>3
  <2>6. CASE \E c \in Client : CommitUpdate(c)
    <3>1. PICK c \in Client : CommitUpdate(c)
      BY <2>6
    <3>2. QED
      BY <2>3, <2>4, <3>1
  <2>7. QED
    BY <2>1, <2>5, <2>6, TableStep
<1>2. QED
  BY <1>1, Inductive, PTL DEF Spec, ImmutableOnceSubmitted

----------------------------------------------------------------------------
(* Documents addressed by primary key: a browser whose copy has the version *)
(* of the row has the row's fields (ViewFresh), so the payload of a save is *)
(* the row it will overwrite plus one edit (SaveExtends), and every step    *)
(* extends one history.                                                     *)

\* A document loaded by its primary key is that document.
LEMMA LoadedById ==
  ASSUME ~ByNumber, NEW d, NEW x \in Loaded(d)
  PROVE  x \in Doc /\ x = d /\ Present(d)
  BY DEF Loaded

\* What a browser holds is what it held, or a row as it now stands.
LEMMA ViewFollows ==
  ASSUME IInv, Next, NEW k \in Client
  PROVE  \/ view'[k] = view[k]
         \/ \E x \in Doc : view'[k] = Shown(x, docs'[x]) /\ docs'[x].status # "absent"
<1>t. /\ TypeOK
      /\ docs \in [Doc -> Row]
      /\ view \in [Client -> View]
  BY DEF IInv, TypeOK
<1>1. ASSUME NEW c \in Client, NEW d \in Doc, NEW row, Respond(c, d, row)
      PROVE  view'[k] = view[k] \/ view'[k] = Shown(d, row)
  BY <1>1, <1>t DEF Respond
<1>2. ASSUME NEW c \in Client, NEW d \in Doc, NEW row, NEW action,
             Insert(c, d, row, action), row.status = "draft"
      PROVE  \/ view'[k] = view[k]
             \/ view'[k] = Shown(d, docs'[d]) /\ docs'[d].status # "absent"
  <2>1. docs'[d] = row
    BY <1>2, <1>t DEF Insert
  <2> QED
    BY <1>1, <1>2, <2>1 DEF Insert
<1>3. ASSUME NEW c \in Client, NEW d \in Doc, NEW b \in BaseNo, CreateDraft(c, d, b)
      PROVE  \/ view'[k] = view[k]
             \/ view'[k] = Shown(d, docs'[d]) /\ docs'[d].status # "absent"
  <2>1. Insert(c, d, DraftRow(b), "create") /\ DraftRow(b).status = "draft"
    BY <1>3 DEF CreateDraft, DraftRow
  <2> QED
    BY <1>2, <2>1
<1>4. ASSUME NEW c \in Client, NEW d \in Doc, CommitAmend(c, d)
      PROVE  \/ view'[k] = view[k]
             \/ view'[k] = Shown(d, docs'[d]) /\ docs'[d].status # "absent"
  <2>1. Insert(c, d, AmendRow(c), "amend")
    BY <1>4 DEF CommitAmend, AmendRow
  <2> QED
    BY <1>2, <1>t, <2>1, AmendRowFields
<1>5. ASSUME NEW c \in Client, CommitUpdate(c)
      PROVE  \/ view'[k] = view[k]
             \/ \E x \in Doc : view'[k] = Shown(x, docs'[x]) /\ docs'[x].status # "absent"
  <2>1. /\ txn[c].doc \in Doc
        /\ Grows(txn[c].doc, NewRow(c), txn[c].op)
        /\ Respond(c, txn[c].doc, NewRow(c))
    BY <1>5, UpdateGrows DEF IInv, CommitUpdate
  <2>2. docs'[txn[c].doc] = NewRow(c) /\ NewRow(c).status # "absent"
    BY <2>1, <1>t DEF Grows
  <2> QED
    BY <1>1, <2>1, <2>2
<1>6. ASSUME NEW c \in Client, NEW d \in Doc, Get(c, d)
      PROVE  \/ view'[k] = view[k]
             \/ \E x \in Doc : view'[k] = Shown(x, docs'[x]) /\ docs'[x].status # "absent"
  <2>1. PICK x \in Loaded(d) : view' = [view EXCEPT ![c] = Shown(x, docs[x])]
    BY <1>6 DEF Get
  <2>2. x \in Doc /\ docs'[x] = docs[x] /\ docs[x].status # "absent"
    BY <1>6, <2>1 DEF Get, Loaded, Present
  <2>3. view'[k] = view[k] \/ view'[k] = Shown(x, docs[x])
    BY <2>1, <1>t
  <2> QED
    BY <2>2, <2>3
<1>7. ASSUME NEW c \in Client,
             \/ \E e \in Edit : BeginSave(c, e)
             \/ \E d \in Doc, op \in {"submit", "cancel", "amend"} :
                  BeginTransition(c, op, d)
             \/ Rollback(c)
      PROVE  view' = view
  BY <1>7 DEF BeginSave, BeginTransition, Begin, Rollback
<1> QED
  BY <1>3, <1>4, <1>5, <1>6, <1>7 DEF Next

\* A row stays as it is or moves to its next version.
LEMMA RowGrows ==
  ASSUME IInv, Next, NEW x \in Doc
  PROVE  docs'[x] = docs[x] \/ docs'[x].version = docs[x].version + 1
<1>t. docs \in [Doc -> Row]
  BY DEF IInv, TypeOK
<1>1. ASSUME NEW d \in Doc, NEW row, NEW action, Grows(d, row, action)
      PROVE  docs'[x] = docs[x] \/ docs'[x].version = docs[x].version + 1
  BY <1>1, <1>t DEF Grows
<1>2. CASE \E c \in Client : CommitUpdate(c)
  <2>1. PICK c \in Client : CommitUpdate(c)
    BY <1>2
  <2>2. txn[c].doc \in Doc /\ Grows(txn[c].doc, NewRow(c), txn[c].op)
    BY <2>1, UpdateGrows DEF IInv
  <2> QED
    BY <1>1, <2>2
<1>3. CASE UNCHANGED <<docs, revs, ledger>>
  BY <1>3
<1>4. CASE \E d \in Doc, row \in Row, action \in {"create", "amend"} : Grows(d, row, action)
  BY <1>1, <1>4
<1> QED
  BY <1>2, <1>3, <1>4, TableStep

LEMMA ViewStep ==
  ASSUME IInv, IInv', ViewFresh, Next
  PROVE  ViewFresh'
<1> SUFFICES ASSUME NEW k \in Client, view'[k].doc # NoDoc
             PROVE  /\ view'[k].version > 0
                    /\ view'[k].version <= docs'[view'[k].doc].version
                    /\ view'[k].version = docs'[view'[k].doc].version
                         => view'[k].data = docs'[view'[k].doc].data
  BY DEF ViewFresh
<1>1. CASE view'[k] = view[k]
  <2> DEFINE d == view[k].doc
  <2>1. d \in Doc /\ view[k].version \in Nat
    BY <1>1 DEF IInv, TypeOK, View
  <2>2. /\ view[k].version > 0
        /\ view[k].version <= docs[d].version
        /\ view[k].version = docs[d].version => view[k].data = docs[d].data
    BY <1>1 DEF ViewFresh
  <2>3. docs[d].version \in Nat
    BY <2>1 DEF IInv, TypeOK, Row
  <2>4. docs'[d] = docs[d] \/ docs'[d].version = docs[d].version + 1
    BY <2>1, RowGrows
  <2> QED
    BY <1>1, <2>1, <2>2, <2>3, <2>4
<1>2. ASSUME NEW x \in Doc, view'[k] = Shown(x, docs'[x]), docs'[x].status # "absent"
      PROVE  /\ view'[k].version > 0
             /\ view'[k].version <= docs'[view'[k].doc].version
             /\ view'[k].version = docs'[view'[k].doc].version
                  => view'[k].data = docs'[view'[k].doc].data
  <2>1. docs'[x].version > 0 /\ docs'[x].version \in Nat
    BY <1>2 DEF IInv, RevisionTrail, Present, TypeOK, Row
  <2>2. view'[k].doc = x /\ view'[k].version = docs'[x].version /\ view'[k].data = docs'[x].data
    BY <1>2 DEF Shown
  <2> QED
    BY <2>1, <2>2
<1> QED
  BY <1>1, <1>2, ViewFollows

\* A save that begins finds the version of the browser's copy, and so the copy.
LEMMA PayloadStep ==
  ASSUME ~ByNumber, IInv, ViewFresh, SaveExtends, Next
  PROVE  SaveExtends'
<1> SUFFICES ASSUME NEW k \in Client, txn'[k].op = "save"
             PROVE  \E e \in Edit : txn'[k].data = txn'[k].row.data \cup {e}
  BY DEF SaveExtends
<1>t. txn \in [Client -> Txn] /\ docs \in [Doc -> Row] /\ view \in [Client -> View]
  BY DEF IInv, TypeOK
<1>1. CASE txn'[k] = txn[k]
  BY <1>1 DEF SaveExtends
<1>2. ASSUME NEW c \in Client, txn' = [txn EXCEPT ![c] = Idle]
      PROVE  txn'[k] = txn[k]
  BY <1>2, <1>t DEF Idle
<1>3. ASSUME NEW c \in Client, NEW e \in Edit, BeginSave(c, e)
      PROVE  \E f \in Edit : txn'[k].data = txn'[k].row.data \cup {f}
  <2>1. PICK x \in Loaded(view[c].doc) :
          view[c].version = docs[x].version /\ Begin(c, "save", x, view[c].data \cup {e})
    BY <1>3 DEF BeginSave
  <2>2. x = view[c].doc /\ view[c].doc # NoDoc
    BY <1>3, LoadedById DEF BeginSave
  <2>3. view[c].data = docs[x].data
    BY <2>1, <2>2 DEF ViewFresh
  <2>4. txn' = [txn EXCEPT ![c] = [op |-> "save", doc |-> x, row |-> docs[x], data |-> view[c].data \cup {e}]]
    BY <2>1 DEF Begin
  <2>5. CASE k = c
    <3>1. txn'[k].data = view[c].data \cup {e} /\ txn'[k].row = docs[x]
      BY <2>4, <2>5, <1>t
    <3> QED
      BY <2>3, <3>1
  <2>6. CASE k # c
    BY <2>4, <2>6, <1>t, <1>1
  <2> QED
    BY <2>5, <2>6
<1>4. ASSUME NEW c \in Client, NEW d \in Doc, NEW op \in {"submit", "cancel", "amend"},
             BeginTransition(c, op, d)
      PROVE  txn'[k] = txn[k]
  <2>1. PICK x : txn' = [txn EXCEPT ![c] = [op |-> op, doc |-> x, row |-> docs[x], data |-> {}]]
    BY <1>4 DEF BeginTransition, Begin
  <2> QED
    BY <2>1, <1>t
<1>5. ASSUME NEW c \in Client,
             \/ \E d \in Doc, b \in BaseNo : CreateDraft(c, d, b)
             \/ \E d \in Doc : Get(c, d)
      PROVE  txn' = txn
  BY <1>5 DEF CreateDraft, Get
<1>6. ASSUME NEW c \in Client,
             CommitUpdate(c) \/ (\E d \in Doc : CommitAmend(c, d)) \/ Rollback(c)
      PROVE  txn' = [txn EXCEPT ![c] = Idle]
  BY <1>6 DEF CommitUpdate, CommitAmend, Rollback
<1> QED
  BY <1>1, <1>2, <1>3, <1>4, <1>5, <1>6 DEF Next

LEMMA IdInit == Init => IInvById
<1> SUFFICES ASSUME Init PROVE IInvById
  OBVIOUS
<1>1. ViewFresh /\ SaveExtends
  BY DEF Init, ViewFresh, SaveExtends, Idle
<1> QED
  BY <1>1, InductiveInit DEF IInvById

LEMMA IdStep == ASSUME ~ByNumber, IInvById, [Next]_vars PROVE IInvById'
<1>1. IInv'
  BY InductiveStep DEF IInvById
<1>2. CASE Next
  BY <1>1, <1>2, ViewStep, PayloadStep DEF IInvById
<1>3. CASE UNCHANGED vars
  BY <1>1, <1>3 DEF vars, IInvById, ViewFresh, SaveExtends
<1> QED
  BY <1>2, <1>3

\* The inductive invariant when browsers address documents by primary key: copies
\* and payloads are as new as their version says.
THEOREM InductiveById == ASSUME ~ByNumber PROVE Spec => []IInvById
<1>1. Init => IInvById
  BY IdInit
<1>2. IInvById /\ [Next]_vars => IInvById'
  BY IdStep
<1> QED
  BY <1>1, <1>2, PTL DEF Spec

-----------------------------------------------------------------------------
(* Every step extends one history *)

Hist == [d \in Doc |-> [i \in DOMAIN revs[d] |->
          [status |-> revs[d][i].status, data |-> revs[d][i].data]]]

\* What a step may append to the revisions of d.
Legal(d, status, data) ==
  \/ ~History!Exists(d) /\ status = "draft" /\ data = {}
  \/ History!Is(d, "draft") /\ status = "draft" /\ \E e \in Edit : data = History!Newest(d).data \cup {e}
  \/ History!Is(d, "draft") /\ status = "submitted" /\ data = History!Newest(d).data
  \/ History!Is(d, "submitted") /\ status = "cancelled" /\ data = History!Newest(d).data
  \/ ~History!Exists(d) /\ status = "draft"
       /\ \E old \in Doc : History!Is(old, "cancelled") /\ data = History!Newest(old).data

\* The history of a document has its revisions' length, and its newest state is the row.
Alike ==
  \A d \in Doc :
    /\ Hist[d] \in Seq([status : Status, data : SUBSET Edit])
    /\ Len(Hist[d]) = Len(revs[d])
    /\ \A i \in 1 .. Len(revs[d]) : Hist[d][i] = [status |-> revs[d][i].status, data |-> revs[d][i].data]

LEMMA HistoryIs == IInv => Alike
<1> SUFFICES ASSUME IInv, NEW d \in Doc
             PROVE  /\ Hist[d] \in Seq([status : Status, data : SUBSET Edit])
                    /\ Len(Hist[d]) = Len(revs[d])
                    /\ \A i \in 1 .. Len(revs[d]) : Hist[d][i] = [status |-> revs[d][i].status, data |-> revs[d][i].data]
  BY DEF Alike
<1>1. revs[d] \in Seq(Revision)
  BY DEF IInv, TypeOK
<1>2. Len(revs[d]) \in Nat /\ DOMAIN revs[d] = 1 .. Len(revs[d])
  BY <1>1, LenProperties
<1> DEFINE H == [i \in 1 .. Len(revs[d]) |-> [status |-> revs[d][i].status, data |-> revs[d][i].data]]
           S == [status : Status, data : SUBSET Edit]
<1>3. Hist[d] = H
  BY <1>2 DEF Hist
<1>4. \A i \in 1 .. Len(revs[d]) : [status |-> revs[d][i].status, data |-> revs[d][i].data] \in S
  <2> TAKE i \in 1 .. Len(revs[d])
  <2>1. revs[d][i] \in Revision
    BY <1>1, ElementOfSeq
  <2> QED
    BY <2>1 DEF Revision
<1>5. H \in [1 .. Len(revs[d]) -> S]
  BY <1>4
<1>6. H \in Seq(S)
  BY <1>2, <1>5, SeqDef
<1>7. Len(H) = Len(revs[d])
  <2> HIDE DEF H, S
  <2>1. DOMAIN H = 1 .. Len(H) /\ Len(H) \in Nat
    BY <1>6, LenProperties
  <2>2. DOMAIN H = 1 .. Len(revs[d])
    BY <1>5
  <2> QED
    BY <1>2, <2>1, <2>2
<1> QED
  BY <1>3, <1>6, <1>7

LEMMA NewestIs ==
  ASSUME IInv, NEW d \in Doc
  PROVE  /\ History!Exists(d) <=> Present(d)
         /\ Present(d) => History!Newest(d) = [status |-> docs[d].status, data |-> docs[d].data]
<1>1. /\ Len(Hist[d]) = Len(revs[d])
      /\ \A i \in 1 .. Len(revs[d]) : Hist[d][i] = [status |-> revs[d][i].status, data |-> revs[d][i].data]
  BY HistoryIs DEF Alike
<1>2. History!Exists(d) <=> Len(Hist[d]) > 0
  BY DEF History!Exists, Hist
<1>3. History!Newest(d) = Hist[d][Len(Hist[d])]
  BY DEF History!Newest, Hist
<1>4. Len(revs[d]) = docs[d].version /\ docs[d].version \in Nat
  BY DEF IInv, RevisionTrail, TypeOK, Row
<1>5. CASE Present(d)
  <2>1. /\ docs[d].version > 0
        /\ revs[d][docs[d].version].status = docs[d].status
        /\ revs[d][docs[d].version].data = docs[d].data
    BY <1>5 DEF IInv, RevisionTrail
  <2>2. docs[d].version \in 1 .. Len(revs[d])
    BY <1>4, <2>1
  <2> QED
    BY <1>1, <1>2, <1>3, <1>4, <1>5, <2>1, <2>2
<1>6. CASE ~Present(d)
  <2>1. docs[d].version = 0
    BY <1>6 DEF IInv, Blank, Absent
  <2> QED
    BY <1>1, <1>2, <1>4, <1>6, <2>1
<1> QED
  BY <1>5, <1>6

\* A row that is written, with its revision, extends the history of its document.
LEMMA GrowsExtends ==
  ASSUME IInv, IInv', NEW d \in Doc, NEW row \in Row, NEW action, Grows(d, row, action)
  PROVE  History!Extend(d, row.status, row.data)
<1> DEFINE S == [status : Status, data : SUBSET Edit]
           st == [status |-> row.status, data |-> row.data]
<1>1. revs' = [revs EXCEPT ![d] = Append(revs[d], Snapshot(row, action))]
  BY DEF Grows
<1>2. revs \in [Doc -> Seq(Revision)]
  BY DEF IInv, TypeOK
<1>3. /\ revs'[d] = Append(revs[d], Snapshot(row, action))
      /\ \A x \in Doc \ {d} : revs'[x] = revs[x]
  BY <1>1, <1>2
<1>4. /\ Hist[d] \in Seq(S) /\ Len(Hist[d]) = Len(revs[d])
      /\ \A i \in 1 .. Len(revs[d]) : Hist[d][i] = [status |-> revs[d][i].status, data |-> revs[d][i].data]
  BY HistoryIs DEF Alike
<1>5. /\ Hist'[d] \in Seq(S) /\ Len(Hist'[d]) = Len(revs'[d])
      /\ \A i \in 1 .. Len(revs'[d]) : Hist'[d][i] = [status |-> revs'[d][i].status, data |-> revs'[d][i].data]
  <2>1. Alike'
    BY HistoryIs, PTL
  <2> QED
    BY <2>1 DEF Alike
<1>6. st \in S
  BY DEF Row
<1>7. /\ Len(revs[d]) \in Nat
      /\ Len(revs'[d]) = Len(revs[d]) + 1
      /\ \A i \in 1 .. Len(revs[d]) : revs'[d][i] = revs[d][i]
      /\ revs'[d][Len(revs[d]) + 1] = Snapshot(row, action)
  BY <1>2, <1>3
<1>8. [status |-> Snapshot(row, action).status, data |-> Snapshot(row, action).data] = st
  BY DEF Snapshot
<1> HIDE DEF S, st
<1>9. Hist'[d] = Append(Hist[d], st)
  <2>1. Append(Hist[d], st) \in Seq(S) /\ Len(Append(Hist[d], st)) = Len(revs[d]) + 1
    BY <1>4, <1>6, <1>7
  <2>2. \A i \in 1 .. Len(Hist'[d]) : Hist'[d][i] = Append(Hist[d], st)[i]
    <3> SUFFICES ASSUME NEW i \in 1 .. Len(Hist'[d])
                 PROVE  Hist'[d][i] = Append(Hist[d], st)[i]
      OBVIOUS
    <3>1. i \in 1 .. Len(revs[d]) + 1
      BY <1>5, <1>7
    <3>2. CASE i = Len(revs[d]) + 1
      BY <1>4, <1>5, <1>6, <1>7, <1>8, <3>2
    <3>3. CASE i \in 1 .. Len(revs[d])
      <4>1. Hist'[d][i] = Hist[d][i]
        BY <1>4, <1>5, <1>7, <3>3
      <4>2. Append(Hist[d], st)[i] = Hist[d][i]
        BY <1>4, <3>3
      <4> QED
        BY <4>1, <4>2
    <3>4. Len(revs[d]) \in Nat
      BY <1>7
    <3>5. i = Len(revs[d]) + 1 \/ i \in 1 .. Len(revs[d])
      BY <3>1, <3>4
    <3> QED
      BY <3>2, <3>3, <3>5
  <2>3. Len(Hist'[d]) = Len(Append(Hist[d], st))
    BY <1>5, <1>7, <2>1
  <2> QED
    BY <1>5, <2>1, <2>2, <2>3, SeqEqual
<1>10. \A x \in Doc \ {d} : Hist'[x] = Hist[x]
  BY <1>3 DEF Hist
<1>11. Hist' = [Hist EXCEPT ![d] = Append(Hist[d], st)]
  <2>1. Hist' = [x \in Doc |-> Hist'[x]] /\ Hist = [x \in Doc |-> Hist[x]]
    BY DEF Hist
  <2> QED
    BY <1>9, <1>10, <2>1
<1> QED
  BY <1>11 DEF History!Extend, Hist, st

\* Each step of the service that writes a row writes one a history may go on with.
LEMMA StepIsLegal ==
  ASSUME IInvById, Next
  PROVE  \/ UNCHANGED revs
         \/ \E d \in Doc, row \in Row, action \in Op \cup {"create"} :
              Grows(d, row, action) /\ Legal(d, row.status, row.data)
<1>i. IInv /\ SaveExtends
  BY DEF IInvById
<1>t. TypeOK /\ Blank /\ TxnFresh
  BY <1>i DEF IInv
<1>1. ASSUME NEW c \in Client, NEW d \in Doc, NEW b \in BaseNo, CreateDraft(c, d, b)
      PROVE  \E row \in Row : Grows(d, row, "create") /\ Legal(d, row.status, row.data)
  <2>1. DraftRow(b) \in Row
    BY Literals DEF DraftRow, Row
  <2>2. Insert(c, d, DraftRow(b), "create")
    BY <1>1 DEF CreateDraft, DraftRow
  <2>3. DraftRow(b).version = 1 /\ DraftRow(b).status = "draft" /\ DraftRow(b).data = {}
    BY DEF DraftRow
  <2>4. Grows(d, DraftRow(b), "create")
    BY <1>t, <2>1, <2>2, <2>3, InsertGrows
  <2>5. ~History!Exists(d)
    BY <1>i, <2>2, NewestIs DEF Insert
  <2> QED
    BY <2>1, <2>3, <2>4, <2>5 DEF Legal
<1>2. ASSUME NEW c \in Client, NEW d \in Doc, CommitAmend(c, d)
      PROVE  \E row \in Row : Grows(d, row, "amend") /\ Legal(d, row.status, row.data)
  <2>1. Insert(c, d, AmendRow(c), "amend")
    BY <1>2 DEF CommitAmend, AmendRow
  <2>2. Grows(d, AmendRow(c), "amend")
    BY <1>t, <2>1, InsertGrows, AmendRowFields
  <2>3. /\ txn[c].doc \in Doc /\ txn[c].row = docs[txn[c].doc] /\ txn[c].row.status = "cancelled"
    BY <1>2, <1>t, StatusTable DEF CommitAmend, TxnFresh
  <2>4. ~History!Exists(d)
    BY <1>i, <2>1, NewestIs DEF Insert
  <2> DEFINE old == txn[c].doc
  <2>5. History!Is(old, "cancelled") /\ History!Newest(old).data = docs[old].data
    <3>1. Present(old)
      BY <2>3 DEF Present
    <3>2. History!Exists(old) /\ History!Newest(old) = [status |-> docs[old].status, data |-> docs[old].data]
      BY <1>i, <2>3, <3>1, NewestIs
    <3> QED
      BY <2>3, <3>2 DEF History!Is
  <2>6. History!Newest(old).data = AmendRow(c).data
    BY <1>t, <2>3, <2>5, AmendRowFields
  <2> QED
    BY <1>t, <2>2, <2>3, <2>4, <2>5, <2>6, AmendRowFields DEF Legal
<1>3. ASSUME NEW c \in Client, CommitUpdate(c)
      PROVE  \E d \in Doc, row \in Row, action \in Op : Grows(d, row, action) /\ Legal(d, row.status, row.data)
  <2> DEFINE d == txn[c].doc
  <2>1. /\ d \in Doc /\ txn[c].op \in {"save", "submit", "cancel"}
        /\ txn[c].row = docs[d] /\ docs[d].status = RequiredStatus(txn[c].op)
        /\ Grows(d, NewRow(c), txn[c].op)
    BY <1>3, <1>t, UpdateGrows
  <2>2. /\ NewRow(c) \in Row
        /\ NewRow(c).status = CASE txn[c].op = "save" -> docs[d].status
                                 [] txn[c].op = "submit" -> "submitted"
                                 [] txn[c].op = "cancel" -> "cancelled"
        /\ NewRow(c).data = IF txn[c].op = "save" THEN txn[c].data ELSE docs[d].data
    BY <1>3, <1>t, <2>1, NewRowFields DEF CommitUpdate
  <2>3. docs[d].status \in {"draft", "submitted"} /\ Present(d)
    BY <2>1, StatusTable DEF Present
  <2>4. History!Newest(d).data = docs[d].data /\ History!Is(d, docs[d].status)
    <3>1. History!Exists(d) /\ History!Newest(d) = [status |-> docs[d].status, data |-> docs[d].data]
      BY <1>i, <2>1, <2>3, NewestIs
    <3> QED
      BY <3>1 DEF History!Is
  <2> HIDE DEF d
  <2>5. CASE txn[c].op = "save"
    <3>1. PICK e \in Edit : txn[c].data = docs[d].data \cup {e}
      BY <1>i, <2>1, <2>5 DEF SaveExtends
    <3>2. docs[d].status = "draft" /\ NewRow(c).status = "draft"
      BY <2>1, <2>2, <2>5, StatusTable
    <3>3. NewRow(c).data = History!Newest(d).data \cup {e}
      BY <2>2, <2>4, <2>5, <3>1
    <3>4. Legal(d, NewRow(c).status, NewRow(c).data)
      BY <2>4, <3>2, <3>3 DEF Legal
    <3> QED
      BY <2>1, <2>2, <2>5, <3>4, Literals
  <2>6. CASE txn[c].op \in {"submit", "cancel"}
    <3>1. Legal(d, NewRow(c).status, NewRow(c).data)
      BY <2>1, <2>2, <2>4, <2>6, StatusTable DEF Legal
    <3> QED
      BY <2>1, <2>2, <2>6, <3>1, Literals
  <2> QED
    BY <2>1, <2>5, <2>6
<1>4. ASSUME NEW c \in Client,
             \/ \E d \in Doc : Get(c, d)
             \/ \E e \in Edit : BeginSave(c, e)
             \/ \E d \in Doc, op \in {"submit", "cancel", "amend"} : BeginTransition(c, op, d)
             \/ Rollback(c)
      PROVE  UNCHANGED revs
  BY <1>4 DEF Get, BeginSave, BeginTransition, Begin, Rollback
<1> QED
  BY <1>1, <1>2, <1>3, <1>4, Literals DEF Next

-----------------------------------------------------------------------------
LEMMA LostNothing ==
  ASSUME IInvById, NoLostUpdate, [Next]_vars
  PROVE  NoLostUpdate'
<1>1. CASE UNCHANGED revs
  BY <1>1 DEF NoLostUpdate
<1>2. ASSUME NEW d \in Doc, NEW row \in Row, NEW action,
             Grows(d, row, action), Legal(d, row.status, row.data)
      PROVE  NoLostUpdate'
  <2>1. revs \in [Doc -> Seq(Revision)] /\ revs' = [revs EXCEPT ![d] = Append(revs[d], Snapshot(row, action))]
    BY <1>2 DEF Grows, IInvById, IInv, TypeOK
  <2>2. /\ revs'[d] = Append(revs[d], Snapshot(row, action))
        /\ revs[d] \in Seq(Revision)
        /\ \A x \in Doc \ {d} : revs'[x] = revs[x]
    BY <2>1
  <2>3. /\ Len(revs[d]) \in Nat
        /\ Len(revs'[d]) = Len(revs[d]) + 1
        /\ \A i \in 1 .. Len(revs[d]) : revs'[d][i] = revs[d][i]
        /\ revs'[d][Len(revs[d]) + 1].data = row.data
    BY <2>2 DEF Snapshot
  <2>4. \A i \in 1 .. Len(revs[d]) : revs[d][i].data \subseteq row.data
    <3> SUFFICES ASSUME NEW i \in 1 .. Len(revs[d])
                 PROVE  revs[d][i].data \subseteq row.data
      OBVIOUS
    <3>1. Len(revs[d]) \in 1 .. Len(revs[d]) /\ i <= Len(revs[d]) /\ Len(revs[d]) = docs[d].version
      BY <2>3 DEF IInvById, IInv, RevisionTrail
    <3>2. Present(d)
      BY <2>3, <3>1 DEF IInvById, IInv, Blank, Absent
    <3>3. revs[d][Len(revs[d])].data = docs[d].data
      BY <3>1, <3>2 DEF IInvById, IInv, RevisionTrail
    <3>4. History!Exists(d) /\ History!Newest(d).data = docs[d].data
      BY <3>2, NewestIs DEF IInvById
    <3>5. docs[d].data \subseteq row.data
      BY <1>2, <3>4 DEF Legal
    <3>6. revs[d][i].data \subseteq revs[d][Len(revs[d])].data
      BY <3>1 DEF NoLostUpdate
    <3> QED
      BY <3>3, <3>5, <3>6
  <2> SUFFICES ASSUME NEW x \in Doc, NEW i \in 1 .. Len(revs'[x]), NEW j \in 1 .. Len(revs'[x]), i <= j
               PROVE  revs'[x][i].data \subseteq revs'[x][j].data
    BY DEF NoLostUpdate
  <2>5. CASE x # d
    BY <2>2, <2>5 DEF NoLostUpdate
  <2>6. CASE x = d /\ j <= Len(revs[d])
    <3>1. i \in 1 .. Len(revs[d]) /\ j \in 1 .. Len(revs[d])
      BY <2>3, <2>6
    <3>2. revs[d][i].data \subseteq revs[d][j].data
      BY <3>1 DEF NoLostUpdate
    <3> QED
      BY <2>3, <2>6, <3>1, <3>2
  <2>7. CASE x = d /\ j > Len(revs[d])
    <3>1. j = Len(revs[d]) + 1
      BY <2>3, <2>7
    <3>2. CASE i = j
      BY <3>2
    <3>3. CASE i # j
      <4>1. i \in 1 .. Len(revs[d])
        BY <2>3, <2>7, <3>1, <3>3
      <4> QED
        BY <2>3, <2>4, <2>7, <3>1, <4>1
    <3> QED
      BY <3>2, <3>3
  <2> QED
    BY <2>3, <2>5, <2>6, <2>7
<1> QED
  BY <1>1, <1>2, StepIsLegal DEF vars

\* Two browsers that save the same document never overwrite each other: the version
\* the payload carries is that of the copy it was made from (service.go SaveDraft).
THEOREM NothingIsLost == ASSUME ~ByNumber PROVE Spec => []NoLostUpdate
<1>1. Init => NoLostUpdate
  BY DEF Init, NoLostUpdate
<1>2. IInvById /\ NoLostUpdate /\ [Next]_vars => NoLostUpdate'
  BY LostNothing
<1> QED
  BY <1>1, <1>2, InductiveById, PTL DEF Spec

\* The service with its transactions and version checks implements the one-step store.
THEOREM ServiceImplementsHistory == ASSUME ~ByNumber PROVE Spec => ImplementsHistory
<1>1. Init => History!Init
  BY DEF Init, History!Init
<1>2. ASSUME IInvById, IInvById', [Next]_vars
      PROVE  [History!Next]_Hist
  <2>1. CASE UNCHANGED revs
    BY <2>1 DEF Hist
  <2>2. ASSUME NEW d \in Doc, NEW row \in Row, NEW action,
               Grows(d, row, action), Legal(d, row.status, row.data)
        PROVE  History!Next
    <3>1. History!Extend(d, row.status, row.data)
      BY <1>2, <2>2, GrowsExtends DEF IInvById
    <3>2. CASE ~History!Exists(d) /\ row.status = "draft" /\ row.data = {}
      <4>1. History!Create(d)
        BY <3>1, <3>2 DEF History!Create, History!Extend
      <4> QED
        BY <4>1 DEF History!Next
    <3>3. CASE /\ History!Is(d, "draft") /\ row.status = "draft"
               /\ \E e \in Edit : row.data = History!Newest(d).data \cup {e}
      <4>1. PICK e \in Edit : row.data = History!Newest(d).data \cup {e}
        BY <3>3
      <4>2. History!Save(d, e)
        BY <3>1, <3>3, <4>1 DEF History!Save, History!Extend
      <4> QED
        BY <4>2 DEF History!Next
    <3>4. CASE History!Is(d, "draft") /\ row.status = "submitted" /\ row.data = History!Newest(d).data
      <4>1. History!Submit(d)
        BY <3>1, <3>4 DEF History!Submit, History!Extend
      <4> QED
        BY <4>1 DEF History!Next
    <3>5. CASE History!Is(d, "submitted") /\ row.status = "cancelled" /\ row.data = History!Newest(d).data
      <4>1. History!Cancel(d)
        BY <3>1, <3>5 DEF History!Cancel, History!Extend
      <4> QED
        BY <4>1 DEF History!Next
    <3>6. CASE /\ ~History!Exists(d) /\ row.status = "draft"
               /\ \E old \in Doc : History!Is(old, "cancelled") /\ row.data = History!Newest(old).data
      <4>1. PICK old \in Doc : History!Is(old, "cancelled") /\ row.data = History!Newest(old).data
        BY <3>6
      <4>2. History!Amend(old, d)
        BY <3>1, <3>6, <4>1 DEF History!Amend, History!Extend
      <4> QED
        BY <4>2 DEF History!Next
    <3> QED
      BY <2>2, <3>2, <3>3, <3>4, <3>5, <3>6 DEF Legal
  <2> QED
    BY <1>2, <2>1, <2>2, StepIsLegal DEF vars
<1> QED
  BY <1>1, <1>2, InductiveById, PTL DEF Spec, ImplementsHistory, History!Spec, Hist
============================================================================
