# Verification of the enterprise backend, its web applications and its desktop edition

This directory holds TLA+ specifications of the parts of the repository whose
correctness depends on what happens at the same time, in which order, and after
a crash. TLC checks them on small instances; TLAPS proves theorems for every size
of the system about the document lifecycle, invoices and their Credit Notes, the
storefront's checkout and its payments, the sessions of the admin application,
the tenants' connection pools and the provisioning of tenants.

## 1. The system and its parts

The repository is a Go backend (gin and gorm, on MySQL, or on SQLite in the
desktop edition), a React admin application, a landing site with a shop, and a
Tauri shell that ships the backend as a sidecar. The backend serves an ERP
(stock, selling, buying, accounting, HR, manufacturing, projects), the shop, and
a platform API for the tenants. Of the learning platform it grew out of, with
its wallets and withdrawals, the code is still there and most routes are not
registered any more (`docs/CORE_EXTRACTION.md`).

Requests run concurrently, each in its own goroutine. Most state is in database
tables; almost all controllers use the same pattern, *read, check, then write in
a transaction*, and differ in what protects the time between the read and the
write: a version column (DocType), a unique index (stock documents,
provisioning), a conditional UPDATE (store orders), a row lock (checkout), or
nothing (Sales Invoice). The browsers keep copies of that state and change it in
the order in which answers arrive. Those differences are what most of this
project is about.

| Component | State it keeps | Operations | Interacts with | What is hard | What makes it correct |
|---|---|---|---|---|---|
| DocType lifecycle (`modules/framework/doctype`) | document rows with a version, `document_revisions` | CreateDraft, SaveDraft, Submit, Cancel, Amend, Get | hooks of a definition, in the same transaction | browsers save the same draft, submit twice, amend twice; lost answers | no edit is lost, every version has a revision, posted exactly while submitted, submitted is final |
| Stock Entry, Delivery Note, Purchase Receipt (`modules/stock/controller`) | header, lines, `stock_ledger_entries` | Create, CreateReturn, Update, Submit, Cancel, Delete | the ledger, shared by all | the status is checked outside the transaction | the ledger agrees with the status |
| Stock Ledger report (`stock_ledger_controller.go`) | none of its own | opening it inserts ledger rows it does not find | the documents above | a reader that writes, beside Submit and Cancel | it adds what is missing and nothing else |
| Sales Invoice and Credit Note (`sales_invoice_controller.go`, `loyalty_award.go`, the invoice page) | invoices, selling ledger, loyalty entries | Create, Update, Submit, Cancel, CreateReturn, MarkPaid, Refund, Delete, amendment by the page | Credit Notes of one invoice | whole rows saved as they were loaded; several settlements of one invoice | credits within the sale, outstanding and postings agree, no unit refunded that was not paid for |
| Storefront cart and checkout (`lib/commerce.tsx`, `routes/checkout.tsx`, `store_controller.go`) | the cart in each tab and in the database, stock of the shop, orders | add, set, remove, load, CreateOrder | Xendit, storefront payment | changes shown before they are made and taken back when they fail; tabs that are not told; buyers race for the last units | no unit sold twice, a cart makes one order, the quantity sold is the one shown |
| Storefront payment (`payment_xendit.go`, `order_sync.go`, the payment page) | order status, Sales Orders, the page's status | webhook, payment status, MarkStoreOrderPaid, EnsureERPSalesOrder | Xendit, the ERP | webhooks lost, repeated and reordered; answers that overtake each other | paid when the invoice is, one Sales Order, shown in the end |
| Sessions of the admin application (`lib/api.ts`, `lib/impersonation.ts`, `controller/auth.go`, `controller/impersonation.go`) | tokens in localStorage, the queue of each tab, impersonation sessions | call, refresh, login, logout, begin and end an impersonation | tabs of one browser, the server's revocations | several calls refused at once, answers that come after the session has changed | no call hangs, sessions do not mix, the administrator gets back |
| Desktop migration recovery (`internal/desktoprecovery`, `model.InitDB`) | SQLite file, `-wal`, snapshots, journal, marker | Prepare, Commit, Rollback, recovery | the shell that starts and kills it | a crash between any two file operations, a power loss with commits not synced | answered work survives but for what a power loss takes; no half-migrated database is served |
| Desktop shell (`src-tauri/src/lib.rs`) | the same files, from another process | start, kill, update marker, restore of a snapshot | the backend | the user restores while the backend starts | the choice of the user takes effect |
| Tenant routing (`internal/tenancy`) | tenant records, host cache, pools, flights | resolve, gate, GetDB, evict, close, change a status, migrate | every ERP request | cache fills against invalidation, pools opened together | one pool per tenant, the right pool, suspension takes effect |
| Tenant provisioning (`internal/platform/provisioning`) | registry row, database, account, schema, administrator | Create, from the API and the command line | tenant routing, changes of status by hand | seven steps in three databases, no transaction, nothing resumed | what is made active is ready, the password told opens it, provisioning ends |
| Stock Reconciliation, Pick List, Shipment | tables of the stock module | the same kind of operations | the ledger balance | the difference to a balance read without a lock | the balance is the counted one |
| Entitlements, rate limits, passkeys | plan cache, counters | single checks | - | a cache with the race of the registry | - |
| Chat and the hub of websockets | connections per user, who is online | register, unregister, broadcast | every open page | writes of several goroutines on one connection; counts and deletions under different locks | who is online is shown online |
| Purchase Order and Invoice, Work Order, Payroll, Timesheet, onboarding, accounting, projects, POS and quotations | documents without ledger rows | create, update, submit, cancel | - | the status is checked before the write | submitted is final |
| Form pages of the admin application | the form of one document | load, save, submit | the controllers | a late answer fills the form of another document | what is shown is the document of the address |

`PROJECT.json` lists every component with its sources and status, and under
`hazards` what is hard to test, at its line, with the property that covers it or
the reason why none does yet.

## 2. Modules

| Module | Models |
|---|---|
| `DocLifecycle` | the DocType service, one read and one write step per transaction |
| `DocHistory` | what that service promises: a document is a growing history of legal states |
| `StockVoucher` | one stock document of any controller, its ledger rows, the requests on it and the report |
| `StockDocuments` | the kinds of documents of the three controllers: rules and movements |
| `SalesInvoice` | invoices, their Credit Notes and amendments, with the requests on them |
| `StoreCheckout` | carts in browsers and in the database, and the transaction of CreateOrder |
| `StorePayment` | an order from its invoice at Xendit to its Sales Order |
| `StoreOrderLife` | what storefront orders promise: open, then paid with one Sales Order, or expired |
| `AuthSession` | the stored session of a browser, its tabs, and the server's tokens |
| `DesktopRecovery` | the start-up of the desktop backend on its files, with crashes |
| `DesktopShell` | extends it by the shell's restore, another process on the same files |
| `Tenancy` | requests through the registry cache, the gate and the pools, with the platform API |
| `Provisioning` | calls that make tenants, and administrators who change them by hand |
| `DocLifecycle_proofs`, `StockVoucher_proofs`, `SalesInvoice_proofs`, `AuthSession_proofs`, `DesktopShell_proofs` | the theorems about that module |
| `Storefront_proofs` | the theorems about `StoreCheckout` and `StorePayment`, both extended |
| `Platform_proofs` | the theorems about `Tenancy` and `Provisioning`, both extended |
| `FiniteSums` | lemmas about sums over finite sets, for the proofs about invoices and stock |
| `MC*` | instances for TLC: model values, kinds, symmetry |

### DocLifecycle

`docs` is the table of the DocType, `revs` is `document_revisions`, `ledger` is
the net effect of the hooks, `view` is the copy each browser shows, `txn` the
open transaction of its request. `Begin*` is `load()` with the checks behind it,
`CommitUpdate` is `UPDATE ... WHERE version = ?` with the revision, the After
hook and COMMIT, `Rollback` is every error, conflict and crash. Business fields
are abstracted to the set of edits they contain, so that a lost update is a set
that shrinks. A lost answer is a commit that leaves `view` as it was.
`document_no` is the pair of base number and amendment number, because nothing
else is compared. A transaction's reads are MySQL's consistent reads and its
UPDATE sees the newest committed row; that is why a commit compares
`docs[...]`, not the row it loaded.

### StockVoucher and StockDocuments

The three controllers are one machine with different parameters. The header is
read (`ReadHeader`), the lines are read by gorm's Preload (`ReadLines`), and the
transaction writes (`CommitSubmit`, `CommitCancel`, `CommitUpdate`,
`CommitDelete`) without reading again. `SaveRead` is gorm's Save: every column
as it was read, an upsert of the lines, and an INSERT when the row is gone. The
unique index on `voucher_detail_id` is `Inserts`. `StockDocuments` gives the
rules (`DocumentRules`: who can cancel, which Delete is conditional, which
Update draws new line ids) and the movements of a line (`DocumentMoves`).

A fourth controller writes too: opening the Stock Ledger report runs
`syncMissingSLEs`. It finds the submitted documents (`BeginReport`), then their
lines, then looks for each row it demands (`DocumentSyncMoves`, `Missing`) and
inserts those it does not find, without a transaction (`Sync`). The rows it
demands are not those Submit has written: for a Stock Entry they follow the
warehouses given and not the type, for a Purchase Receipt they have another key,
and for a Delivery Note there are none.

### SalesInvoice

`row` has the columns the handlers decide on. Amounts are counted in units of one
item: an invoice is owed, paid, set off and refunded by the unit. That keeps who
owes whom how often, and leaves out money, in which the code's own amounts do not
agree (section 3). Every handler loads (`Load`, with its checks) and commits
later; `req` keeps the row it has seen, and Save writes all of it back. `posted`,
`refunds` and `awards` count the entries in the ledgers, `paidUnits` the units
that were owed when invoices were marked paid. The page's amendment is `Amend`: it
creates the invoice anew from what it shows. `Load` only reads here, while
`loadSalesInvoice` (43-61) also copies the items of a POS invoice of the same
number into an invoice that has none; invoices of the model always have items.

### StoreCheckout

A buyer has several tabs and several calls under way, each made in one of the
tabs (`TabOf`). `shown` is the bag of each tab, React state of its
CommerceProvider (`commerce.tsx:93`): an answer changes the bag of the tab that
asked, and no other tab is told. A call keeps the quantity a failure will put back
in its tab (`previous`). `stale` remembers the tabs that may be out of date: since
they last loaded the bag another tab has changed the cart, or an answer was lost.
The handlers of the cart read
and write in two statements; CreateOrder is a transaction that locks the rows of
the cart from its first read, over the call to Xendit, to its end (`lock`), and
takes the stock with a conditional UPDATE (`Enough`). One product stands for
all, because rows are changed and stock is guarded one by one. Its price is left
out: the handler reads it anew (`store_controller.go:447`), so that of what is
charged only the quantity is claimed.

### StorePayment and StoreOrderLife

`invoice` is the invoice at Xendit and `events` the notifications it has still
to deliver, which are repeated until they are answered with success, may be lost
and may overtake each other. `webhook` and `poll` are the two handlers at work:
both read the order, ask or look, and end in `MarkPaid`, whose first statement
locks the order's row, so that it is one step. `page` is the payment page, which
asks every four seconds and shows the answers in the order they arrive.
`StoreOrderLife` is the promise to the buyer and the ERP; `ImplementsLife` maps
the statuses and the live Sales Orders to it.

### AuthSession

`store` is the localStorage of the browser, shared by its tabs; `isRefreshing`,
`failedQueue` and `flight` are those of each tab's script. A handler runs without
interruption from one await to the next, which is one action. Tokens are records
(account, impersonation session, period of minting); `epoch` counts lifetimes of
access tokens, so that an older token has expired. The server has the sessions
of impersonations and those revoked.

### DesktopRecovery and DesktopShell

Files are variables: the main file, the `-wal` file (with the content it was
made on), the journal, the marker, the snapshots. `pc` is the next step of the
backend; each file operation of `Manager` is a step, and `Kill` and `PowerLoss`
are possible between any two. `PowerLoss` may also undo a removal that was not
synced, when `DurableUnlink` is FALSE. A database is abstracted to the number of
user transactions in it, the schema its tables have, the version recorded in
`desktop_schema_migrations`, and whether it is clean, partly migrated, or a
mixture of a main file and a `-wal` file of another one. `owed` is the set of
transaction counts the user may rightly find. SQLite itself is external:
`Opened`, `Write`, `Checkpoint` state what the code relies on. The database is
opened with `_journal_mode=WAL` and without `_synchronous` (`model/main.go:82`,
`manager.go:366`), so a commit is not synced before the next checkpoint: the
`-wal` file remembers its earlier states (`older`), and `PowerLoss` leaves any of
them (`Left`). `dropped` remembers that a power loss took commits that no journal
covers, until the next start has come to its end.

`DesktopShell` has the steps of `desktop_restore_recovery_backup`, one per file
operation, while the backend (`Backend`, the actions of `DesktopRecovery`) may be
in any step of its start. What the shell itself copies, renames and removes it does
not sync either; a power loss in the middle of its restore is not modelled (one of
the backend is, and a crash of the shell is). `chosen` remembers that the user has restored, because
from then on what is owed is what was answered since.

### Tenancy

A step is what a goroutine does under one lock, one statement on the platform
database, or the opening of a pool. `Lookup`, `Query`, `Fill` are the parts of
`ResolveByHost` that other goroutines can come between; `GetDB`, `Join`,
`Recheck`, `OpenPool`, `Insert`, `Deliver` those of `GetDB`, with
`singleflight.Do` as leader, waiters and delivery. Statuses are two: those that
are served (active, trial, read_only) and those that are refused. Time is
abstracted: a cache entry may expire (`Expire`) and a pool may be evicted
(`EvictIdle`) at any moment, also one that is used, because the code measures
from the last hand-out.

### Provisioning

`registry` is the row of each slug in `platform_tenants`, `server` the database
of the slug on the database server, `call` the progress of each call of
`Service.Create`. The steps are those of the function: `Check` is FindBySlug,
`InsertRow` the registry's transaction with its unique indexes, `CreateDatabase` and
`CreateAccount` the four statements of `MySQLProvisioner`, then `Open`,
`Migrate`, `Bootstrap` and `Activate`. `OnServer` says what a statement may do:
take effect and succeed, take effect and report an error, or do nothing and
report an error. Every error leads to `RecordFailure`, which is `fail()`. It uses
the context of the call: when the HTTP client has gone (`ClientLeaves`) every
statement fails, that one too. `Crash` is the end of the process. A call that ends
without having recorded its failure is `interrupted` when it was cut off, and
`unrecorded` when it lived: the registry made the row and answered Create with an
error (`service.go:95-97`), or the update of `fail()` failed, whose error is
ignored (99).
`SetTenantState` and `MigrateTenant` are what administrators do by hand at any
time. `setBy` remembers who wrote a status last.

## 3. Runs

Passing runs:

| Run | Instance | What it shows |
|---|---|---|
| `doc_lifecycle` | 2 documents, 2 browsers, 2 edits, versions to 3 | No interleaving loses an edit (`NoLostUpdate`), leaves a version without its revision (`RevisionTrail`), posts twice or forgets a reversal (`PostedWhileSubmitted`) or changes a submitted document (`ImmutableOnceSubmitted`). The service implements `DocHistory` (`ImplementsHistory`). |
| `stock_documents` | 3 users, 3 lines, 6 kinds, 2 line contents | Submits, cancels, conditional deletes and views of the report that overlap still leave a ledger that says what the status says (`LedgerFollowsStatus`). |
| `sales_invoice` | 4 documents, 2 requests, quantities to 2 | Credits stay within the sale (`CreditsWithinSale`), the outstanding amount, the postings and the points agree with the documents (`AccountsAgree`), and no unit is refunded that was not paid for (`RefundedUnitsWerePaid`), through drafts, deletions, amendments and partial credits. |
| `store_checkout` | 2 buyers, 2 calls each, of the first in two tabs and of the second, who only adds and pays, in one; stock 2, quantities to 2 | No unit is sold twice (`StockAccounted`), a cart makes one order (`CartAccounted`), a tab that is not out of date shows the server's cart once all is quiet (`ShownIsCart`), and what is ordered in it is the quantity it showed (`ChargedAsShown`). |
| `store_payment` | 1 order, 2 webhooks and 2 requests of the page at once, 2 database errors | Paid exactly when the invoice is, with one Sales Order (`OrderFollowsInvoice`); the page shows what is true (`PageTellsTruth`) and shows a payment in the end even if no webhook arrives (`PaymentShown`). The handlers implement `StoreOrderLife` (`ImplementsLife`). |
| `auth_session` | 2 tabs with 2 requests each, 2 accounts, 1 impersonation, 1 expiry, 2 calls at once | A queued call always has a refresh that will answer it (`QueueHasRefresh`); two sessions are mixed only by a refresh answer that comes too late (`MixedOnlyByLateAnswer`); every call ends, also one that is refused again after the refresh (`CallsSettle`). |
| `auth_nested` | 2 tabs, 3 accounts, 2 impersonations | The administrator's own session is not replaced while an impersonation lasts, also when another is begun inside it or in the other tab (`OriginalSurvives`). |
| `desktop_restore` | 2 schema versions, 2 user transactions, 4 faults, retention 1, restores at any time | The next start finds all that was answered, or all since the user's choice, but for what a power loss took (`WorkRecoverableByChoice`); a backend serves only a database that was migrated to its end (`ServesMigrated`); the restored snapshot is what the next start works on (`RestoreTakesEffect`); when the faults stop the backend comes up by itself (`ComesUp`). |
| `tenancy` | 2 goroutines, 2 tenants, 2 hosts, 2 pools each, 1 platform request | No duplicate and no lost pool (`OnePool`), nobody on the pool of another tenant (`OwnPool`), every request ends (`Answered`), and a tenant that stays suspended is in the end refused on every host and has no pool (`SuspendedGoesQuiet`). |
| `provisioning` | a request and a command line, 2 slugs, 2 domains | A tenant that provisioning made active is migrated and has its administrator, and the password that was told opens it (`ProvisionedIsReady`); a tenant does not stay in provisioning unless its call was cut off or the registry answered it with an error (`ProvisioningEnds`). |

Runs that find a disagreement between the code and what a comment or an answer
of the code says; each checks the one property that fails:

| Run | What happens |
|---|---|
| `stock_edit_race` (`EditsOnlyDrafts`) | An Update that read the draft before a Submit committed replaces the lines of the submitted document and writes Draft back; its movements stay. |
| `stock_report` (`SyncsOnlyMissing`) | The report looks for the rows of a Purchase Receipt under the bare line id, Submit has written them with a suffix: the first view of the report after a receipt was submitted posts its accepted quantity a second time, for a return with the wrong sign, and Cancel reverses only the first posting. |

### Named restrictions of the passing runs

What a disagreement shows would otherwise hide everything behind it, so the
passing runs exclude it by a constant, and only that:

- `ByNumber = FALSE` (DocLifecycle): browsers use primary keys.
- `RacingEdits = FALSE` (StockVoucher): Update and the unconditional Delete
  overlap nothing; Submit, Cancel, the conditional Delete and the report overlap
  freely.
- `Reported` has the kinds of Stock Entry, and their lines give the warehouses
  their type needs and no other (`MCStockDocuments`): those are the documents the
  report demands the right rows of. With Purchase Receipts it posts twice (the
  run `stock_report`); with a type that posts one leg, or none, and lines or a
  header that give both warehouses it adds rows Submit has not made.
- `CreateStatus = {"Draft"}`: with a payload that says Submitted, Create stores a
  submitted document without movements.
- the kinds of `stock_documents` all post. With a Stock Entry type that posts
  nothing the unique index protects nothing, and a Submit under way brings a
  cancelled document back to Submitted.
- `Overlap = FALSE` (SalesInvoice): two requests do not change one document, or
  the Credit Notes of one invoice, at the same time; requests on other documents
  interleave freely. `CancelSettled = FALSE`: what was paid, refunded or set off
  is not cancelled.
- `Overlap = FALSE` (StoreCheckout): a buyer waits, in all tabs, for the answer to
  a change of the bag, or to a load of it, before anything else. Loads are
  included because the first load of a page can be overtaken by an AddToCart and
  then shows the old bag. Checkouts of one buyer overlap each other, and buyers
  overlap freely.
- `stale` (StoreCheckout) is an exception in the properties: `ShownIsCart` and
  `ChargedAsShown` say nothing of a tab that is out of date.
- `EarlyFailures = FALSE` (StorePayment): FAILED and VOIDED are told only of
  invoices that cannot be paid any more.
- `DurableUnlink = TRUE`, `CrashUncovered = FALSE`: a removed journal stays
  removed, and the shell does not die in the one window that has neither the old
  nor the new database consistent. The crash of the shell at every other step is
  in the run.
- `Tenancy`, `AuthSession` and `Provisioning` have none: what they disagree about
  is reachable in the passing runs, whose properties hold nevertheless.

### Known disagreements without a run of their own

Each was found with the modules here, by the constant or the property named, and
can be looked at by changing the `.cfg`:

- `ByNumber = TRUE` breaks `NoLostUpdate` and `ImplementsHistory`: `load()` accepts the document number,
  which two amendments of one document share, so that a save meant for one
  overwrites its sibling when the versions match.
- `RepeatIsSafe` (StorePayment) fails: "Calling it repeatedly is safe"
  (`order_sync.go:17`), but the unique index on the store order also holds Sales
  Orders that were deleted in the ERP; from then on every confirmation of the
  paid order fails.
- `EarlyFailures = TRUE` breaks `OrderFollowsInvoice` and `PaymentShown`: an
  order expired by such a message stays so when its invoice is paid.
- A tab is not told what another tab did (`commerce.tsx:93`): a buyer who pays in
  the tab that shows 1, after the other tab has set 2, is charged for 2. Without
  `TabOf[b][c] \notin stale[b]` in `ChargedAsShown`, or `t \notin stale[b]` in
  `ShownIsCart`, the run fails; the same after an answer that was lost.
- `Overlap = TRUE` (StoreCheckout) breaks `CartAccounted`, `ShownIsCart` and
  `ChargedAsShown`: AddCart reads and writes without a lock, and a failed change
  puts back what was shown when it was made. With several products there is one
  more: the deletion at the end of CreateOrder removes rows that were added while
  it waited for Xendit.
- `Overlap = TRUE` (SalesInvoice) breaks all three properties: two requests for a
  Credit Note read the same earlier ones and together credit more than was sold
  (`sales_invoice_controller.go:536`, which answers "Kuantitas Credit Note
  melebihi sisa invoice" to the second when they come one after the other), and
  Save writes back the outstanding amount it read. `CancelSettled = TRUE` breaks
  `AccountsAgree` and `RefundedUnitsWerePaid`: Cancel undoes neither a payment
  nor a set-off.
- Sales Invoice, in money (the model counts units): MarkPaid collects the rounded
  total (`sales_invoice_controller.go:103-118`), while a Credit Note sets off and
  pays back its grand total (632, 721), and CreateReturn does not carry the
  invoice's discount (550-555). One invoice that was paid and then credited in
  full can be refunded more than was paid, without any race.
- Sales Invoice, without any race: Cancel posts no reversal to the selling ledger; a Credit Note
  made before the payment and submitted after it stays "Credit Available"; the
  amendment of a paid and cancelled invoice keeps `is_paid`.
- AuthSession: `MixedOnlyByLateAnswer` says how two sessions are mixed, and they
  are: the answer to a refresh is stored over another tab's login, over the
  restored administrator, or after a logout (`api.ts:138`).
- `FailureRecorded` (Provisioning) fails: "Jika gagal setelah registry dibuat,
  status berubah menjadi `failed`" (`docs/erp/MULTI_TENANT_OPERATIONS.md:253`),
  but `fail()` writes with the request's context; a client that goes away, like a
  crash, leaves the tenant in provisioning for good, since the next call is
  refused. So does a registry that answers with an error: to Create after the row
  was committed (`service.go:95-97` returns without `fail()`), or to the update of
  `fail()`, whose error is ignored (99).
- `SuspensionStays` (Provisioning) fails: the last UpdateState overwrites a
  suspension set meanwhile, and so does `fail()`. The opposite also happens:
  SetTenantState makes a tenant active whose database answers a ping and is not
  migrated or has no administrator; hence `setBy` in `ActiveIsReady`.
- `SuspendedRefused` (Tenancy) fails: a record read before the suspension is
  cached after the invalidation, and the tenant is served until the entry
  expires. `ClosesUnused` fails: a request or migration longer than the idle TTL
  has its pool closed, because the TTL counts from the hand-out.
- A power loss takes what was answered since the last checkpoint, for SQLite is
  opened with WAL and without `_synchronous` (`model/main.go:82`). And the
  journal's removal may reach the disk before the commits of the migration it
  covered: then the database is half migrated and has no journal, until the next
  start migrates it. Without `owed'` and `dropped` in `PowerLoss`
  `WorkRecoverable` fails on either.
- `DurableUnlink = FALSE` breaks `RestoresOnlyInterrupted` (DesktopRecovery): the
  journal's removal is not synced; a power loss brings it back and the next start
  replaces the database in use by the old snapshot.
- `SafetyCopyComplete` (DesktopShell) fails: the safety copy is a copy of the
  main file, and what is only in the `-wal` file is lost when the restore removes
  it. `CrashUncovered = TRUE` breaks `NeverMixed`: a crash between the
  replacement of the database and the removal of the `-wal` file leaves the old
  `-wal` beside the new database.

### Bounds

Each bound is a constant. Two browsers are enough for a lost update or a double
posting, which needs one transaction that reads before the other commits; two
documents for an amendment and for two documents with one number; three versions
for create, save and transition, the longest life of a document with one edit.
Three users on a stock document let a submit, a second submit and a cancel, or a
report between them, be open together; three lines let an Update draw new ids
while old ledger rows exist. Four invoices are one with two Credit Notes and an
amendment, or two with a Credit Note each; quantity 2 can be credited in one part
or two. Two buyers with two calls and a stock of 2 let both try to take the last
units, and one buyer check out twice; two tabs of one of them, that one tab is out of
date and one is not. The second buyer only adds, pays and pays twice (`MCNext`), which
is what the first can feel of him; the theorems are about buyers who all do
everything. Two webhooks and two requests of the page
let each overtake one of its own kind and one of the other; one order is enough,
because no statement touches two. Two tabs with two calls give a call that waits
in the queue of each while a session changes in the other; the second
impersonation, inside the first or in the other tab, needs three accounts and no
expiry. `CallsSettle` is checked of one request of one tab, since the
specification treats all tabs alike, and all requests of a tab. Four
faults allow a crash in the migration, one in its recovery, one in the repeated
recovery and one after it; two schema versions allow an upgrade and a first
installation; retention 1 makes every new snapshot prune the one before, so that a journal's
would be lost as soon as it could (the code keeps more). Two goroutines are a leader and a waiter,
or a request and a change of status; one change to a status is a suspension, an
activation, a migration or a health check, and the initial statuses are
arbitrary. Two pools per tenant let one that was closed still be held while the
next is opened. Two calls of Create race for one slug, for one domain, or for
neither; administrators act at any time and as often as they like.

### Fairness

`DesktopRecovery` and `DesktopShell` assume weak fairness of the start-up's own
steps and of a restore that was begun: the process runs, and a closed
application is opened again. Faults are bounded, which is what "once crashes
stop" means. `Tenancy` assumes weak fairness of each goroutine that is under way
(the Go scheduler), of each cache entry's expiry (time passes), and of the
eviction of a pool that nobody asks for any more (the ticker runs every minute).
`AuthSession` assumes it of each request and of each tab's refresh: it is answered,
or fails, and then its continuation runs. (A call is with the server or with the
tab and never with both, so one condition per call covers the two.) `StorePayment` assumes
it of the page that asks while it is open and of the handlers at work, and strong
fairness of Xendit's answers to the page's question, because every question may
fail but not all of them. Nothing is assumed about webhooks: they may all be
lost. `Provisioning` assumes it of a call's own steps: statements return, with a
result or an error. Nothing is assumed about users, who need not act. The other
specifications are checked for safety only and state none.

## 4. Proofs

`DocLifecycle_proofs`, for all sets of documents, browsers, edits and base
numbers and every bound on versions, with documents addressed by id or by
number:

- `TypeCorrect`: the types.
- `AuditTrailComplete`: revision *i* of a document is its version *i*
  (`RevisionTrail`).
- `PostingsFollowStatus`: posted exactly while submitted
  (`PostedWhileSubmitted`).
- `SubmittedIsFinal`: the action property `ImmutableOnceSubmitted`, from the
  same invariant.

They rest on `Inductive`, the invariant `IInv == TypeOK /\ Blank /\
RevisionTrail /\ TxnFresh /\ PostedWhileSubmitted`. The properties alone are not
inductive: a commit compares only the version with what the transaction read,
while the transaction goes on with the whole row it read. `TxnFresh` says why
that is enough: the version names the content, so a transaction whose row still
has the version it read has read the row as it is. `Blank` says that a key that was
not drawn yet has no row, which is what a create and an amendment need. Assumptions: `DocAssumption`, `BoundAssumption`, `FlagAssumption` (what
the constants are).

The second part of the module goes on from there when documents are addressed by
primary key (`~ByNumber`, as in the run; by number both properties fail, see
section 3):

- `NothingIsLost`: what an earlier version contained is in every later one
  (`NoLostUpdate`).
- `ServiceImplementsHistory`: every step extends one history by one legal state
  (`ImplementsHistory`).

`IInvById` adds to `IInv` that a copy in a browser with the version of the row has
its fields (`ViewFresh`), which makes the payload of an open save the row it will
overwrite plus an edit (`SaveExtends`). `Legal` lists what may follow a history;
each commit appends one such state, and the mapped revisions are that history
again with the state appended.

`Platform_proofs`, about `Tenancy`, for any number of goroutines, tenants, hosts and
pools:

- `TypeCorrect`: the types.
- `OneOpenPool`: a tenant never has two open pools, and an open pool is in the
  map or about to be put there (`OnePool`).
- `ServedFromOwnPool`: nobody has the pool of another tenant, and what the map
  has is open (`OwnPool`).

Here `IInv` adds to the two properties `OneLeader` (at most one goroutine per
tenant is inside `singleflight.Do`), `Registered` (one is exactly while the call
is registered, which makes a newcomer wait), `OpensMissing` (while it opens a
pool the map has none for the tenant: only it could put one there, and evictions
only remove) and `ChangesStatus` (only a change to a status comes to write one).
There is a lemma for each kind of step: those that change one goroutine and
nothing else (`LocalStep`), those of a leader that stays one (`LeaderStep`),
joining, delivering, and closing a pool. Assumptions: `HostAssumption` (a host
belongs to one tenant), `NoneAssumption`, `TenantAssumption`, `BoundAssumption`.

The second part of `Platform_proofs`, about `Provisioning`, for any number of calls,
slugs and domains:

- `MakingTypeCorrect`: the types.
- `ProvisioningIsSafe`: what provisioning makes active is ready, and the password
  that was told opens it (`ProvisionedIsReady`).

`MakingInv` adds `Owned` (a call past its insertion is the owner of the row of its
slug, which the unique index gives to one call only), `OwnAdmins` (a database has
no administrator but the owner's, because only the owner bootstraps it) and
`Made` (a call at some step finds what its steps before have made; administrators
can only add to it). Without `Owned` a second call's bootstrap could find the
administrator of the first and answer with a password that opens nothing.
Assumption: `CallAssumption`.

`Storefront_proofs`, about `StoreCheckout`, for any number of buyers and calls, any stock and any
quantities:

- `NoUnitSoldTwice`: stock and orders together are what there was
  (`StockAccounted`). It has no hypothesis: it holds whether buyers wait for the
  answers to their changes or not.
- `TypeCorrect`, `CartIsAccounted` (`CartAccounted`), `TheBagIsTheCart`
  (`ShownIsCart`) and the action property `ChargesWhatWasShown`
  (`ChargedAsShown`), for buyers who wait (`~Overlap`, as in the run; section 3
  says what happens otherwise).

`IInv` has two parts. `InStock` is about all buyers: the conditional UPDATE takes
from the stock what the order gets. `Fits` is about one buyer: a change of the bag
is the only call under way (`Alone`), so that what it has read is still the cart,
and while a checkout holds the lock the cart is what it has read (`OnItsWay`); what
each tab that is not out of date shows is the cart with its own change under way
applied, and what a failure would put back in it is the cart (`TabFits`, for every
tab in `ShownFits`). `ShownIsCart` alone says nothing of a tab that waits, and so
cannot be inductive. Each action has to show two things: that the tab of its call
still fits, and that every other tab does or is out of date from now on
(`OtherTabs`). `InBounds` gives the types: the proof showed that a tab that has
lost answers can show more than a buyer
may ask for at once, up to `MaxPut` and not `MaxQty`, which no instance with
`MaxPut = MaxQty` shows; `TypeOK` says so now. Assumption: `CheckoutAssumption`.

The second part of `Storefront_proofs`, about `StorePayment`, for any number of orders, deliveries handled at once and
requests of a page, when FAILED is only told of an invoice that can no longer be
paid (`~EarlyFailures`, as in the run; section 3 says what happens otherwise):

- `PaymentTypeCorrect`: the types.
- `OrdersFollowTheMoney`: an order is paid only when its invoice was, and then has
  its one Sales Order unless the ERP deleted it (`OrderFollowsInvoice`).
- `BuyersAreToldTheTruth`: the page says paid or expired only of orders that are
  (`PageTellsTruth`).
- `OrdersLive`: every step is a step of `StoreOrderLife` or leaves the orders
  alone (`ImplementsLife`).

`PaymentInv` adds what makes late and repeated confirmations harmless: a notification
and a delivery being handled agree with an invoice that is final and stays so
(`Told`); what a request of the page has seen is so (`Polled`: until it is recorded
it agrees with the invoice, afterwards with the order); an order has an invoice
(`Placed`), and a page is open and a Sales Order deleted only of an order that is
there and paid (`Opened`, `DeletedPaid`). The refinement uses it where a handler
confirms an order that is already paid: then the Sales Order is there and the step
changes nothing. Assumption: `PaymentAssumption`.

`AuthSession_proofs`, for any number of tabs, requests, accounts, ranks and
impersonations, without hypotheses beyond what the module assumes of its constants
(`SessionAssumption`, `NoneAssumption`):

- `TypeCorrect`: the types.
- `NoneIsForgotten`: a queued call has a refresh that will answer it
  (`QueueHasRefresh`).
- `TheSessionIsOne`: two sessions are mixed only by a refresh answer that is
  stored over another session (`MixedOnlyByLateAnswer`).
- `TheOriginalSurvives`: the session set aside is not replaced while an
  impersonation lasts (the action property `OriginalSurvives`).

`IInv` adds, for each tab, that its queue, its flag and its refresh fit the states
of its requests in both directions (`Queued`, `Flying`); that a granted refresh
renews the session of the token that was sent (`GrantedIsOwn`) and an impersonation
that was begun is one of the server's (`BegunIsKnown`), so that a late answer mixes
sessions only by being late and never by being wrong; and that the two keys of an
impersonation come and go together (`KeysTogether`), without which an impersonation
inside another would set aside the impersonated session. `Replaced` lists
everything a step may do to localStorage.

`SalesInvoice_proofs`, for any number of documents, requests and quantities, when
requests do not change one document at the same time and settled documents are not
cancelled (`~Overlap`, `~CancelSettled`, as in the run; section 3 says what happens
otherwise):

- `TypeCorrect`: the types, and a Credit Note is one of an invoice.
- `NeverOverCredited`: the Credit Notes of an invoice stay within what was sold
  (`CreditsWithinSale`).
- `BooksAgree`: outstanding amounts, postings, refunds and points agree with the
  documents (`AccountsAgree`).
- `RefundsArePaidFor`: all units refunded together are at most those that were paid
  for (`RefundedUnitsWerePaid`). In money the code does not give this (section 3).

`IInv` has three parts. `DocsOK` says what each document can be (`RowOK`), what its
invoice is if it is a Credit Note (`NoteOK`) and what the amounts are (`AmountsOK`).
`ReqsOK` says what a request finds when it commits: the row it has seen, but for
what is owed on a submitted invoice, which a Credit Note's Submit changes meanwhile
(`SameCore`), and at most the quantity that was free when it looked. `UnitsOK` is
what the refunds need: they are paid out by several Credit Notes of several
invoices, some with a refund and some set off against what is owed, and an
invoice's amendment starts anew. Each document stands for some of the units
paid for (`WorthOf`): a paid invoice for what its Credit Notes leave of it, a Credit
Note of a paid invoice for what it pays back; every handler moves worth from one
document to another or destroys it, and only a payment adds some. Assumption:
`InvoiceAssumption`.

The proofs about `SalesInvoice` and `StoreCheckout` need sums over sets.
`FiniteSums` proves what they use of `MapThenSumSet`: the sum of naturals is a
natural, it is the sum without an element plus that element, it changes by as much
as the one or two terms that change, and it is monotone. The community modules
define it by a fold that takes out elements in an unknown order, so these are
inductions over subsets. The library's induction theorems take an operator as a
parameter and cannot be used here; instead the lemmas take the set of those
subsets that have the property, and a smallest subset outside it (the subset order
of a finite set is well-founded).

`StockVoucher_proofs`, for any number of clients, lines and kinds of documents, under
`Supposed`, which collects the restrictions of the run `stock_documents` (section 3):
`~RacingEdits`, `CreateStatus` has nothing but Draft, every line of a document moves
something (`EveryLinePosts`), and the report demands only legs that Submit posts
(`DemandsWhatIsPosted`):

- `TypeCorrect`: the types.
- `LedgerAgrees`: no rows for a draft, one row per movement for a submitted document,
  and each with its reversal for a cancelled one (`LedgerFollowsStatus`).
- `OnlyDraftsAreEdited`: the action property `EditsOnlyDrafts`, which the run
  `stock_edit_race` breaks with `RacingEdits`: the race is the only way to break it.
- `ReportAddsNothing`: the action property `SyncsOnlyMissing`, which the run
  `stock_report` breaks with Purchase Receipts, for which `DemandsWhatIsPosted` is
  false.
- `ControllersQualify`: the movements of the three controllers fulfil
  `EveryLinePosts`, and `DemandsWhatIsPosted` for Stock Entries whose lines give the
  warehouses of their type. So the hypotheses are not about other documents than
  those of the code.

`LedgerFollowsStatus` is not inductive because a Submit or Cancel posts the lines it
has read some steps before. `IInv` says which bag of rows belongs to each status
(`LedgerIs`), that such a request has read the lines the document still has (`Read`)
and finds it in one of a few statuses (`Finds`), and that an Update is the only
request under way (`Alone`). All requests that post would then write the same rows;
the unique index lets the first one in, and because a line posts at least one row
the second finds that row and fails. Assumptions: `KindAssumption`, `MovesAssumption`
(quantities are integers), `ReportAssumption`.

`DesktopShell_proofs`, for any number of schema versions, transactions and faults and
any retention, when a removed journal stays removed and the shell does not die in the
window no journal covers (`DurableUnlink`, `~CrashUncovered`, as in the run):

- `TypeCorrect`: the types. The proof showed that `BoundAssumption` allowed no schema
  version at all, with which an installation could not begin, and that nothing kept
  the value for an absent file apart from the files; both are assumed now.
- `WorkIsRecoverable`: wherever it is interrupted, the next start finds what was
  answered, but for the last commits a power loss took, on a database no two files
  were mixed into, half migrated only when a power loss took the end of its
  migration; and the snapshot of a journal is kept (`WorkRecoverableByChoice`).
- `ServesOnlyMigrated`: it serves only a database migrated to its own version
  (`ServesMigrated`).
- `RestoresTakeEffect`: after a restore the next start works on the chosen snapshot
  (`RestoreTakesEffect`).
- `StartsRestoreOnlyInterrupted`: until the user restores one, a start puts a snapshot
  back only when no transaction was made since. This is `RestoresOnlyInterrupted` of
  `DesktopRecovery` in the composition with the shell.

`IInv` says of every file and snapshot, and of every earlier state a power loss may
leave of the `-wal` file, that it is whole and that a recorded version is a finished
migration (`FilesGood`); of the disk, at any moment, that a journal names a
kept snapshot with all that is owed, or else the `-wal` file fits the database and
both together hold it (`NextStart`); and for each step of the backend and of the
shell what the steps before have done (`StartOK`, `ShellOK`). `NextStart` must hold at
every moment because the process may be killed at every moment; that the journal is
removed only after `Commit` has recorded the version, and a session's snapshot is put
back before its `-wal` file is removed but under the journal, is what keeps it. The
one moment it excludes is after the shell has replaced the database and before it has
removed the `-wal` file, and a death of the shell there, without a journal, is what
`~CrashUncovered` excludes. `Interrupted`, inductive together with `IInv`, adds
that under a journal the files have as many transactions as its snapshot.
Assumptions: `BoundAssumption`, `NoneAssumption`.

Only model-checked is liveness (`ComesUp`, `Answered`, `SuspendedGoesQuiet`,
`CallsSettle`, `PaymentShown`, `ProvisioningEnds`): liveness under fairness and ENABLED
are outside the prover's reach. No module here has recursion, and every safety
property of a passing run is a theorem.

## 5. Not modelled, and why

- The contents of documents (prices, taxes, discounts, totals): arithmetic without
  interleaving. What that hides about refunds is said in section 3. Number formats, file formats, checksums and logging.
- List, Options and report requests that only read. (The Stock Ledger report
  writes and is modelled; the list of Sales Invoices first copies POS invoices
  into it, and loading one copies the items of its POS namesake when it has none,
  which are not.)
- A power loss while the shell restores a snapshot, whose copies, renames and
  removals are not synced.
- The hub of websockets: every change of who is online is broadcast to all
  administrators, each broadcast a read and several writes by goroutines of their
  own, so that three connections already have millions of states, and what
  matters, that the lists shown agree in the end, is liveness. Its races are
  listed as hazards.
- A second desktop instance on the same files, and snapshots whose checksum is
  missing after a crash (hazards without a property).
- The password of the desktop onboarding, which only the first start receives (a
  hazard without a property: the model's database has no users).
- Tenancy: domain verification, credential encryption, and
  `DatabaseManager.Close`, which the command line calls after its last request.
- Registration, passkeys and the hand-off between the applications: checks of one
  request against a table.
- The components with status `not_modelled` in `PROJECT.json`: some are planned
  below, the others are single-row forms or cryptography.

## 6. Plan

In the order of what can go wrong for users:

1. `DeliveryReturn` (returns of one delivery do not exceed it, with two
   CreateReturn at once), and Stock Reconciliation over the ledger of
   `StockVoucher`: Submit sums the ledger in its transaction without a lock and
   posts the difference, while other documents post.
2. A module of one form page and its document: answers to a load that come after
   the address has changed, Save and Submit pressed together, a document saved by
   a Submit that then fails.
3. `Entitlement`, whose cache has the race of the registry; `RateLimiter`.
4. `DesktopShell` with two instances; snapshots with their checksum file.
5. Proofs: the new modules' safety properties as they come. For the modules here, what
   holds without their restrictions: that with `Overlap` the cart only loses what a
   second change of the same buyer overwrote, that with `CrashUncovered` only the
   uncovered window mixes files, and that with `RacingEdits` the movements of a
   document still are those of lines it once had.

## 7. Running

    tlc -workers 2 -config MCDocLifecycle.cfg MCDocLifecycle.tla
    tlapm DocLifecycle_proofs.tla
    tlapm StockVoucher_proofs.tla
    tlapm SalesInvoice_proofs.tla
    tlapm Storefront_proofs.tla
    tlapm AuthSession_proofs.tla
    tlapm Platform_proofs.tla
    tlapm DesktopShell_proofs.tla
    tlapm FiniteSums.tla

Every run of `PROJECT.json` names its module and its `.cfg`. The longest takes
some minutes on two cores.
