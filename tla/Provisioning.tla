---------------------------- MODULE Provisioning ----------------------------
(***************************************************************************)
(* How a tenant comes into being.  A call of provisioning.Service.Create   *)
(* (a request of the platform API, or a run of the command line tool)      *)
(* looks for the slug, inserts the tenant's row in the registry with the   *)
(* status "provisioning", makes a database and an account for it on the    *)
(* database server, opens it, migrates it, bootstraps its administrator    *)
(* and sets the status to "active".  Each of these is a statement (or a    *)
(* few) in one of three databases; no transaction holds them together.  On *)
(* any error the call sets the status to "failed" and gives up; nothing is *)
(* undone and nothing is ever resumed, since the next call finds the slug  *)
(* taken.                                                                  *)
(*                                                                         *)
(* Meanwhile the platform's administrators set the status of any tenant,   *)
(* and migrate any database, by hand.  "active" stands for the states in   *)
(* which the tenant is served (trial, read_only), "suspended" for those in *)
(* which it is not (terminated).  Connection pools are Tenancy's: here a   *)
(* closed pool is an error like others.  All calls name the same           *)
(* administrator, and give a password each.                                *)
(***************************************************************************)
EXTENDS FiniteSets

CONSTANTS
  Call,         \* calls of Create
  ByRequest,    \* those whose context ends when the HTTP client goes away
  Slug,         \* names of tenants
  Domain,       \* their host names
  Unset          \* no call, no domain

ASSUME CallAssumption == ByRequest \subseteq Call /\ Unset \notin Call
ASSUME DomainAssumption == Unset \notin Domain

VARIABLES
  registry,     \* row of the platform's tenants table per slug
  server,       \* the database of each slug on the database server
  call          \* progress of each call

provisioningVars == <<registry, server, call>>

\* setBy: who wrote the status last.  owner: the call that made the row, and
\* whose account and password the row holds.
Record == [status : {"absent", "provisioning", "active", "failed", "suspended"},
           setBy : {"create", "hand"},
           owner : Call \cup {Unset}, domain : Domain \cup {Unset}]
\* granted: calls whose account may use the database.  admins: calls whose
\* password opens the administrator's account in it.
Database == [made : BOOLEAN, granted : SUBSET Call,
             schema : {"none", "part", "full"}, admins : SUBSET Call]
Working == {"check", "insert", "database", "account", "open", "migrate",
            "bootstrap", "activate", "fail"}
Ended == {"idle", "refused", "failed", "created", "interrupted", "unrecorded"}
Progress == [step : Working \cup Ended, gone : BOOLEAN,
             slug : Slug, domain : Domain]

Ready(s) == server[s].schema = "full" /\ server[s].admins # {}
\* The stored account opens the database.
Opens(s) == server[s].made /\ registry[s].owner \in server[s].granted
-----------------------------------------------------------------------------
ProvisioningInit ==
  /\ registry = [s \in Slug |-> [status |-> "absent", setBy |-> "create",
                                 owner |-> Unset, domain |-> Unset]]
  /\ server = [s \in Slug |-> [made |-> FALSE, granted |-> {},
                               schema |-> "none", admins |-> {}]]
  /\ call \in [Call -> [step : {"idle"}, gone : {FALSE},
                        slug : Slug, domain : Domain]]

GoOn(c, step) == call' = [call EXCEPT ![c].step = step]

\* The request reaches the service.
BeginCreate(c) ==
  /\ call[c].step = "idle"
  /\ GoOn(c, "check")
  /\ UNCHANGED <<registry, server>>

\* FindBySlug: the slug must be free (or the query fails).
Check(c) ==
  /\ call[c].step = "check"
  /\ \/ /\ registry[call[c].slug].status = "absent"
        /\ ~call[c].gone
        /\ GoOn(c, "insert")
     \/ GoOn(c, "refused")
  /\ UNCHANGED <<registry, server>>

\* Mutant: no unique index; the row read by slug is the later one.
IndexAllowsAny(c) == TRUE
\* The unique indexes on the slug and on the domain.
IndexAllows(c) ==
  /\ registry[call[c].slug].status = "absent"
  /\ \A s \in Slug : registry[s].domain # call[c].domain

\* registry.Create: the row and its domain, in one transaction.  When the commit has
\* taken effect and is answered with an error, the call answers the error without
\* fail(), and the row stays as it is.
InsertRow(c) ==
  /\ call[c].step = "insert"
  /\ \/ /\ IndexAllows(c)
        /\ registry' = [registry EXCEPT ![call[c].slug] =
                          [status |-> "provisioning", setBy |-> "create",
                           owner |-> c, domain |-> call[c].domain]]
        /\ \/ GoOn(c, IF call[c].gone THEN "interrupted" ELSE "database")
           \/ ~call[c].gone /\ GoOn(c, "unrecorded")
     \/ UNCHANGED registry /\ GoOn(c, "refused")
  /\ UNCHANGED server

\* The step after the step that has succeeded.
After == [database |-> "account", account |-> "open", open |-> "migrate",
          migrate |-> "bootstrap", bootstrap |-> "activate",
          activate |-> "created"]

\* A step that makes of the tenant's database what `effect' says.  It may
\* report an error though it has taken effect, and does when the context is
\* cancelled.
OnServer(c, step, effect) ==
  /\ call[c].step = step
  /\ \/ /\ server' = [server EXCEPT ![call[c].slug] = effect]
        /\ \/ ~call[c].gone /\ GoOn(c, After[step])
           \/ GoOn(c, "fail")
     \/ UNCHANGED server /\ GoOn(c, "fail")
  /\ UNCHANGED registry

Mine(c) == server[call[c].slug]

\* CREATE DATABASE IF NOT EXISTS.
CreateDatabase(c) ==
  OnServer(c, "database", [Mine(c) EXCEPT !.made = TRUE])
\* CREATE USER, ALTER USER, GRANT: the account is of use after the last.
CreateAccount(c) ==
  OnServer(c, "account", [Mine(c) EXCEPT !.granted = @ \cup {c}])

\* databases.GetDB with the record this call has made.
Open(c) ==
  /\ call[c].step = "open"
  /\ \/ Mine(c).made /\ c \in Mine(c).granted /\ ~call[c].gone
          /\ GoOn(c, After["open"])
     \/ GoOn(c, "fail")
  /\ UNCHANGED <<registry, server>>

\* MigrateTenantSchema: many statements, each of which may be the last.
Migrate(c) ==
  \/ OnServer(c, "migrate", [Mine(c) EXCEPT !.schema = "full"])
  \/ /\ call[c].step = "migrate"
     /\ Mine(c).schema = "none"
     /\ server' = [server EXCEPT ![call[c].slug].schema = "part"]
     /\ GoOn(c, "fail")
     /\ UNCHANGED registry

\* BootstrapTenantAdmin: an administrator with this address is left as found.
Bootstrap(c) ==
  OnServer(c, "bootstrap",
    [Mine(c) EXCEPT !.admins = IF @ = {} THEN {c} ELSE @])

\* Mutant: a status spelt in another way.
SpelledStatus(c, status) ==
  registry' = [s \in Slug |->
     IF registry[s].owner = c
       THEN [registry[s] EXCEPT !.status =
               IF status = "active" THEN "Active" ELSE status]
       ELSE registry[s]]
\* registry.UpdateState of the row this call has made, whatever its status.
UpdateState(c, status) ==
  registry' = [s \in Slug |->
     IF registry[s].owner = c
       THEN [registry[s] EXCEPT !.status = status, !.setBy = "create"]
       ELSE registry[s]]

Activate(c) ==
  /\ call[c].step = "activate"
  /\ \/ /\ UpdateState(c, "active")
        /\ \/ ~call[c].gone /\ GoOn(c, "created")
           \/ GoOn(c, "fail")
     \/ UNCHANGED registry /\ GoOn(c, "fail")
  /\ UNCHANGED server

\* Mutant: the error is only answered.
AnswersOnly(c) ==
  /\ call[c].step = "fail"
  /\ GoOn(c, "failed")
  /\ UNCHANGED <<registry, server>>
\* fail(): with the context of the call, its error ignored.
RecordFailure(c) ==
  /\ call[c].step = "fail"
  /\ \/ ~call[c].gone /\ UpdateState(c, "failed") /\ GoOn(c, "failed")
     \/ /\ UNCHANGED registry
        /\ GoOn(c, IF call[c].gone THEN "interrupted" ELSE "unrecorded")
  /\ UNCHANGED server

\* The HTTP client goes away: the context of its request is cancelled.
ClientLeaves(c) ==
  /\ c \in ByRequest
  /\ call[c].step \in Working
  /\ ~call[c].gone
  /\ call' = [call EXCEPT ![c].gone = TRUE]
  /\ UNCHANGED <<registry, server>>

\* The process ends.
Crash(c) ==
  /\ call[c].step \in Working
  /\ GoOn(c, "interrupted")
  /\ UNCHANGED <<registry, server>>

\* SetTenantState: any tenant, in any state; to be served, its database has
\* to answer a ping.
SetTenantState(s, status) ==
  /\ registry[s].status # "absent"
  /\ status = "active" => Opens(s)
  /\ registry' = [registry EXCEPT ![s].status = status, ![s].setBy = "hand"]
  /\ UNCHANGED <<server, call>>

\* MigrateTenant, all of the way or a part of it.
MigrateTenant(s) ==
  /\ registry[s].status # "absent"
  /\ Opens(s)
  /\ server[s].schema # "full"
  /\ \E schema \in {"part", "full"} :
       server' = [server EXCEPT ![s].schema = schema]
  /\ UNCHANGED <<registry, call>>

Proceed(c) ==
  \/ Check(c)
  \/ InsertRow(c)
  \/ CreateDatabase(c)
  \/ CreateAccount(c)
  \/ Open(c)
  \/ Migrate(c)
  \/ Bootstrap(c)
  \/ Activate(c)
  \/ RecordFailure(c)

ProvisioningNext ==
  \/ \E c \in Call : BeginCreate(c) \/ Proceed(c) \/ ClientLeaves(c) \/ Crash(c)
  \/ \E s \in Slug : \/ \E status \in {"active", "suspended"} :
                           SetTenantState(s, status)
                     \/ MigrateTenant(s)

\* Statements return, with a result or an error.
ProvisioningSpec ==
  /\ ProvisioningInit /\ [][ProvisioningNext]_provisioningVars
  /\ \A c \in Call : WF_provisioningVars(Proceed(c))
-----------------------------------------------------------------------------
ProvisioningTypeOK ==
  /\ registry \in [Slug -> Record]
  /\ server \in [Slug -> Database]
  /\ call \in [Call -> Progress]

\* "ActivatesOnlyAfterDatabaseMigrationAndBootstrap": a tenant that no
\* administrator has made active by hand is active only when its database is
\* migrated and has its administrator, whatever failed or ran at the same time.
ActiveIsReady ==
  \A s \in Slug : registry[s].status = "active" /\ registry[s].setBy = "create"
                    => Ready(s)

\* Who is told that the tenant was created is told a password that opens it.
PasswordOpens ==
  \A c \in Call : call[c].step = "created" =>
    /\ registry[call[c].slug].owner = c
    /\ c \in server[call[c].slug].admins

\* What provisioning promises to the tenant and to its caller.
ProvisionedIsReady == ActiveIsReady /\ PasswordOpens

\* A tenant does not stay in provisioning, unless the client of its request
\* went away, the process ended, or the registry answered the call with an error
\* when it was to make the row or to write the failure.  Nothing else that fails,
\* in any of the three databases, leaves it there.
ProvisioningEnds ==
  \A s \in Slug : \A c \in Call :
    (registry[s].status = "provisioning" /\ registry[s].owner = c) ~>
      \/ registry[s].status # "provisioning"
      \/ call[c].step \in {"interrupted", "unrecorded"}

\* A failure after the row was made is recorded as "failed".  (Not so when the
\* context of the request is cancelled, since fail() uses it too, nor when the
\* registry answers with an error: fail() ignores that of its own update.)
FailureRecorded ==
  \A c \in Call : call[c].step \in {"interrupted", "unrecorded"} =>
    \A s \in Slug : registry[s].owner = c => registry[s].status # "provisioning"

\* Who suspends a tenant has the last word.  (Not while it is provisioned: the
\* final UpdateState overwrites every status.)
SuspensionStays ==
  [][\A s \in Slug : registry[s].status = "suspended" =>
       \/ registry'[s].status = "suspended"
       \/ registry'[s].setBy = "hand"]_provisioningVars
=============================================================================
