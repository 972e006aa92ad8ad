------------------------------- MODULE Tenancy -------------------------------
(***************************************************************************)
(* Database-per-tenant routing (internal/tenancy): the registry resolves   *)
(* the host of a request to a tenant, through a cache; the middleware lets *)
(* the request pass or refuses it by the status of that record; the        *)
(* database manager hands out the connection pool of the tenant, opening   *)
(* it when there is none, and evicts pools that were not handed out for a  *)
(* while.  Beside the requests the platform API changes the status of      *)
(* tenants and migrates their databases.                                   *)
(*                                                                         *)
(* A step is what a goroutine does under one lock, in one statement on the *)
(* platform database, or while it opens a pool.  Pools are opened inside   *)
(* singleflight.Do: the first caller for a tenant is the leader, callers   *)
(* that come before it is done wait for its result.                        *)
(***************************************************************************)
EXTENDS Naturals

CONSTANTS
  Goroutine,     \* requests that are served at the same time
  Tenant,
  Host,          \* verified domains
  TenantOf,      \* the tenant each host belongs to
  Free,          \* numbers that tell the pools of a tenant apart
  None,          \* no pool, no cache entry
  MaxChanges     \* bound on the requests to the platform API

ASSUME HostAssumption == TenantOf \in [Host -> Tenant]
\* A pool is connected to the database of one tenant.
Pool == [tenant : Tenant, n : Free]
ASSUME NoneAssumption == None \notin Pool \cup {"served", "refused"}
ASSUME TenantAssumption == Tenant # {}
ASSUME BoundAssumption == MaxChanges \in Nat

VARIABLES
  status,    \* platform_tenants.status
  cache,     \* Registry.hosts
  pools,     \* DatabaseManager.pools
  open,      \* pools that are opened and not closed
  flight,    \* singleflight: is there a call for the tenant?
  proc,      \* what each goroutine is doing
  changes    \* number of requests to the platform API so far

shared == <<status, cache, pools, open, flight, changes>>
vars == <<shared, proc>>

\* Active, trial and read_only tenants are served; suspended and terminated
\* ones refused, and their pools closed.  A record is cached as its status.
Status == {"served", "refused"}
Step == {"done", "lookup", "query", "fill", "getdb", "join", "wait", "recheck",
         "open", "insert", "deliver", "use", "update", "invalidate", "close"}
\* op: a request of a tenant, a change to a status, or a migration.
Process == [pc : Step, op : {"request", "maintain"} \cup Status,
            host : Host \cup {None}, tenant : Tenant,
            record : Status, pool : Pool \cup {None}]

Idle == [pc |-> "done", op |-> "request", host |-> None,
         tenant |-> CHOOSE t \in Tenant : TRUE, record |-> "served",
         pool |-> None]

Uses(g, p) == proc[g].pc = "use" /\ proc[g].pool = p
Goto(g, step) == proc' = [proc EXCEPT ![g].pc = step]
Done(g) == proc' = [proc EXCEPT ![g] = Idle]

Init ==
  /\ status \in [Tenant -> Status]
  /\ cache = [h \in Host |-> None]
  /\ pools = [t \in Tenant |-> None]
  /\ open = {}
  /\ flight = [t \in Tenant |-> FALSE]
  /\ proc = [g \in Goroutine |-> Idle]
  /\ changes = 0
-----------------------------------------------------------------------------
Start(g, step, op, h, t) ==
  /\ proc[g].pc = "done"
  /\ proc' = [proc EXCEPT ![g] = [Idle EXCEPT !.pc = step, !.op = op,
                                              !.host = h, !.tenant = t]]

\* A request arrives for a host.
Arrive(g, h) ==
  /\ Start(g, "lookup", "request", h, TenantOf[h])
  /\ UNCHANGED shared

\* The middleware goes on with the record that was found, or refuses.
Admit(g, record) == IF record = "served" THEN Goto(g, "getdb") ELSE Done(g)

\* ResolveByHost: the cache, under the read lock.
Lookup(g) ==
  /\ proc[g].pc = "lookup"
  /\ IF cache[proc[g].host] = None THEN Goto(g, "query")
     ELSE Admit(g, cache[proc[g].host])
  /\ UNCHANGED shared

\* ResolveByHost: the platform database.
Query(g) ==
  /\ proc[g].pc = "query"
  /\ proc' = [proc EXCEPT ![g].record = status[proc[g].tenant],
                          ![g].pc = "fill"]
  /\ UNCHANGED shared

\* ResolveByHost: the record is cached, under the lock.
Fill(g) ==
  /\ proc[g].pc = "fill"
  /\ cache' = [cache EXCEPT ![proc[g].host] = proc[g].record]
  /\ Admit(g, proc[g].record)
  /\ UNCHANGED <<status, pools, open, flight, changes>>

\* Mutant: every request for the host prolongs the time to live.
SlidingExpire(h) ==
  /\ cache[h] # None /\ \A g \in Goroutine : proc[g].host # h
  /\ cache' = [cache EXCEPT ![h] = None]
  /\ UNCHANGED <<status, pools, open, flight, proc, changes>>
\* An entry reaches the end of its time to live.
Expire(h) ==
  /\ cache[h] # None
  /\ cache' = [cache EXCEPT ![h] = None]
  /\ UNCHANGED <<status, pools, open, flight, proc, changes>>
-----------------------------------------------------------------------------
\* Mutant: a migration ends like a change to a status.
WithPoolUpdates(g, p) ==
  [proc[g] EXCEPT !.pool = p,
                  !.pc = IF proc[g].op = "request" THEN "use" ELSE "update"]
\* With the pool a request is served and a database migrated; a change to a
\* status only wanted to know that the database is healthy.
WithPool(g, p) ==
  [proc[g] EXCEPT !.pool = p,
                  !.pc = IF proc[g].op \in Status THEN "update" ELSE "use"]

\* GetDB, under the lock: the pool that is there is handed out, otherwise one
\* is asked for.
GetDB(g) ==
  LET t == proc[g].tenant IN
    /\ proc[g].pc = "getdb"
    /\ IF pools[t] = None
       THEN Goto(g, "join")
       ELSE proc' = [proc EXCEPT ![g] = WithPool(g, pools[t])]
    /\ UNCHANGED shared

\* Mutant: one key for all tenants.
OneKey(t) == CHOOSE u \in Tenant : TRUE
\* The key of singleflight.Do.
Key(t) == t

\* singleflight.Do: become the leader, or wait for the one there is.
Join(g) ==
  LET k == Key(proc[g].tenant) IN
    /\ proc[g].pc = "join"
    /\ flight' = [flight EXCEPT ![k] = TRUE]
    /\ Goto(g, IF flight[k] THEN "wait" ELSE "recheck")
    /\ UNCHANGED <<status, cache, pools, open, changes>>

\* Mutant: the leader does not look again.
NoSecondLook(t) == None
\* The leader looks a second time, under the lock.
SecondLook(t) == pools[t]
\* Mutant: the leader calls GetDB instead of looking itself.
RecheckReenters(g) ==
  /\ proc[g].pc = "recheck"
  /\ Goto(g, "getdb")
  /\ UNCHANGED shared
\* What the leader does first in singleflight.Do.
Recheck(g) ==
  LET t == proc[g].tenant IN
    /\ proc[g].pc = "recheck"
    /\ IF SecondLook(t) = None
       THEN Goto(g, "open")
       ELSE proc' = [proc EXCEPT ![g].pool = SecondLook(t),
                                 ![g].pc = "deliver"]
    /\ UNCHANGED shared

\* The leader opens a new pool ...
Unused(t) == {p \in Pool : /\ p.tenant = t /\ p \notin open
                           /\ \A g \in Goroutine : proc[g].pool # p}
OpenPool(g) ==
  LET unused == Unused(proc[g].tenant)
      new == CHOOSE p \in unused : TRUE
  IN /\ proc[g].pc = "open" /\ unused # {}
     /\ open' = open \cup {new}
     /\ proc' = [proc EXCEPT ![g].pool = new, ![g].pc = "insert"]
     /\ UNCHANGED <<status, cache, pools, flight, changes>>

\* ... or cannot.
OpenFails(g) ==
  /\ proc[g].pc = "open"
  /\ Goto(g, "deliver")
  /\ UNCHANGED shared

\* A pool that does not answer the ping is closed.
PingFails(g) ==
  /\ proc[g].pc = "insert"
  /\ open' = open \ {proc[g].pool}
  /\ proc' = [proc EXCEPT ![g].pool = None, ![g].pc = "deliver"]
  /\ UNCHANGED <<status, cache, pools, flight, changes>>

\* It answers, and becomes the pool of the tenant.
Insert(g) ==
  /\ proc[g].pc = "insert"
  /\ pools' = [pools EXCEPT ![proc[g].tenant] = proc[g].pool]
  /\ Goto(g, "deliver")
  /\ UNCHANGED <<status, cache, open, flight, changes>>

\* Do returns to the leader and to everybody who waits: the pool or an error.
Callers(g) ==
  {g} \cup {w \in Goroutine : /\ proc[w].pc = "wait"
                              /\ Key(proc[w].tenant) = Key(proc[g].tenant)}
Deliver(g) ==
  LET p == proc[g].pool
  IN /\ proc[g].pc = "deliver"
     /\ flight' = [flight EXCEPT ![Key(proc[g].tenant)] = FALSE]
     /\ proc' = [w \in Goroutine |->
                   IF w \notin Callers(g) THEN proc[w]
                   ELSE IF p = None THEN Idle ELSE WithPool(w, p)]
     /\ UNCHANGED <<status, cache, pools, open, changes>>

\* The request is answered.
EndUse(g) ==
  /\ proc[g].pc = "use"
  /\ Done(g)
  /\ UNCHANGED shared

\* An error of the platform database, or an unhealthy tenant database.
Fail(g) ==
  /\ proc[g].pc \in {"query", "update"}
  /\ Done(g)
  /\ UNCHANGED shared
-----------------------------------------------------------------------------
\* Pools are closed and forgotten, under the lock.
CloseAll(ts) ==
  /\ pools' = [t \in Tenant |-> IF t \in ts THEN None ELSE pools[t]]
  /\ open' = open \ {pools[t] : t \in ts}

\* evictIdle, once a minute: pools that were last handed out IdlePoolTTL ago.
\* That can be any pool, also one that a request that runs longer still uses.
EvictIdle(t) ==
  /\ pools[t] # None
  /\ CloseAll({t})
  /\ UNCHANGED <<status, cache, flight, proc, changes>>
-----------------------------------------------------------------------------
\* SetTenantState: a tenant that is to be served must have a healthy database.
BeginChange(g, t, s) ==
  /\ changes < MaxChanges
  /\ Start(g, IF s = "served" THEN "getdb" ELSE "update", s, None, t)
  /\ changes' = changes + 1
  /\ UNCHANGED <<status, cache, pools, open, flight>>

\* UpdateState: the platform database ...
Update(g) ==
  /\ proc[g].pc = "update"
  /\ status' = [status EXCEPT ![proc[g].tenant] = proc[g].op]
  /\ proc' = [proc EXCEPT ![g].pool = None, ![g].pc = "invalidate"]
  /\ UNCHANGED <<cache, pools, open, flight, changes>>

HostsOf(t) == {h \in Host : TenantOf[h] = t}
\* ... then the cache, under the lock.
InvalidateTenant(g) ==
  /\ proc[g].pc = "invalidate"
  /\ cache' = [h \in Host |->
                 IF h \in HostsOf(proc[g].tenant) THEN None ELSE cache[h]]
  /\ IF proc[g].op = "refused" THEN Goto(g, "close") ELSE Done(g)
  /\ UNCHANGED <<status, pools, open, flight, changes>>

\* SetTenantState: the pool of a tenant that is refused is closed.
ClosePool(g) ==
  /\ proc[g].pc = "close"
  /\ CloseAll({proc[g].tenant})
  /\ Done(g)
  /\ UNCHANGED <<status, cache, flight, changes>>

\* MigrateTenant and Health take the pool whatever the status is.
BeginMaintain(g, t) ==
  /\ changes < MaxChanges
  /\ Start(g, "getdb", "maintain", None, t)
  /\ changes' = changes + 1
  /\ UNCHANGED <<status, cache, pools, open, flight>>
-----------------------------------------------------------------------------
\* A goroutine goes on with what it is doing.
Continue(g) ==
  \/ Lookup(g) \/ Query(g) \/ Fill(g)
  \/ GetDB(g) \/ Join(g) \/ Recheck(g)
  \/ OpenPool(g)
  \/ OpenFails(g) \/ PingFails(g) \/ Insert(g) \/ Deliver(g)
  \/ EndUse(g) \/ Fail(g)
  \/ Update(g) \/ InvalidateTenant(g) \/ ClosePool(g)

Begin(g) ==
  \/ \E h \in Host : Arrive(g, h)
  \/ \E t \in Tenant, s \in Status : BeginChange(g, t, s)
  \/ \E t \in Tenant : BeginMaintain(g, t)

Next ==
  \/ \E g \in Goroutine : Begin(g) \/ Continue(g)
  \/ \E h \in Host : Expire(h)
  \/ \E t \in Tenant : EvictIdle(t)

\* Goroutines are scheduled, entries expire as time passes, and a pool that
\* nobody asks for any more is evicted.
GettingDB == {"getdb", "join", "wait", "recheck", "open", "insert", "deliver"}
Unwanted(t) ==
  \A g \in Goroutine : proc[g].pc \in GettingDB => proc[g].tenant # t
Fairness ==
  /\ \A g \in Goroutine : WF_vars(Continue(g))
  /\ \A h \in Host : WF_vars(Expire(h))
  /\ \A t \in Tenant : WF_vars(Unwanted(t) /\ EvictIdle(t))

Spec == Init /\ [][Next]_vars /\ Fairness
-----------------------------------------------------------------------------
TypeOK ==
  /\ status \in [Tenant -> Status]
  /\ cache \in [Host -> Status \cup {None}]
  /\ pools \in [Tenant -> Pool \cup {None}]
  /\ open \subseteq Pool
  /\ flight \in [Tenant -> BOOLEAN]
  /\ proc \in [Goroutine -> Process]
  /\ changes \in 0 .. MaxChanges

\* "tidak ada duplicate pool race": however many first requests come at the
\* same time, evictions and suspensions in between, a tenant never has two
\* open pools, and no open pool is lost: it is the one in the map or the one
\* the leader is about to put there.
OnePool ==
  /\ \A p, q \in open : p.tenant = q.tenant => p = q
  /\ \A p \in open :
       \/ pools[p.tenant] = p
       \/ \E g \in Goroutine : /\ proc[g].pc = "insert"
                              /\ proc[g].pool = p
                              /\ proc[g].tenant = p.tenant

\* "every ERP read, write, transaction [...] must have one resolved tenant":
\* nobody, not even somebody who waited for the pool another request opened,
\* works on the pool of another tenant; and what the map has is open.
OwnPool ==
  /\ \A g \in Goroutine :
       proc[g].pool # None => proc[g].pool.tenant = proc[g].tenant
  /\ \A t \in Tenant : pools[t] # None => pools[t] \in open /\ pools[t].tenant = t

\* A request is always answered: nobody waits for a flight that has ended.
Answered ==
  \A g \in Goroutine : proc[g].pc # "done" ~> proc[g].pc = "done"

\* A tenant that stays suspended is in the end refused by everybody and has
\* no pool, whatever was under way when it was suspended.
Quiet(t) ==
  pools[t] = None /\ \A h \in HostsOf(t) : cache[h] # "served"
SuspendedGoesQuiet ==
  \A t \in Tenant : <>[](status[t] = "refused") => <>[]Quiet(t)

\* "Request tenant ditolak": when a tenant is suspended and nothing is under
\* way any more, its requests are refused.
SuspendedRefused ==
  \A t \in Tenant :
    /\ status[t] = "refused"
    /\ \A g \in Goroutine : proc[g].pc = "done"
    => \A h \in HostsOf(t) : cache[h] # "served"

\* "Pool yang tidak digunakan selama TENANT_DB_IDLE_POOL_TTL ditutup": a pool
\* that is used is closed only because its tenant is suspended.
ClosesUnused ==
  [][\A t \in Tenant, g \in Goroutine :
       Uses(g, pools[t]) /\ pools'[t] = None =>
         \E k \in Goroutine : proc[k].pc = "close" /\ proc[k].tenant = t]_vars

(***************************************************************************)
(* Why a tenant has one pool.  A tenant has at most one leader, and it has *)
(* one exactly while a call is registered; only a leader that has seen no  *)
(* pool opens one, and nobody else can put one there meanwhile.            *)
(***************************************************************************)
Leads(g) == proc[g].pc \in {"recheck", "open", "insert", "deliver"}

OneLeader ==
  \A g, k \in Goroutine :
    Leads(g) /\ Leads(k) /\ proc[g].tenant = proc[k].tenant => g = k

Registered ==
  \A t \in Tenant :
    flight[t] <=> \E g \in Goroutine : Leads(g) /\ proc[g].tenant = t

\* While the leader opens a pool the tenant has none in the map.
OpensMissing ==
  \A g \in Goroutine :
    /\ proc[g].pc \in {"open", "insert"} => pools[proc[g].tenant] = None
    /\ proc[g].pc = "insert" => proc[g].pool \in open

\* Only a change to a status comes to write one.
ChangesStatus ==
  \A g \in Goroutine : proc[g].pc = "update" => proc[g].op \in Status

IInv ==
  /\ TypeOK /\ ChangesStatus
  /\ OneLeader /\ Registered /\ OpensMissing
  /\ OnePool /\ OwnPool
=============================================================================
