-------------------------- MODULE Platform_proofs --------------------------
(***************************************************************************)
(* Proofs about the two parts of the tenancy platform.                     *)
(*                                                                         *)
(* Routing (Tenancy), for any number of goroutines, tenants, hosts and     *)
(* pools: a tenant never has two open pools and no open pool is lost       *)
(* (OnePool), and nobody works on the pool of another tenant (OwnPool).    *)
(* The inductive invariant IInv adds to them that single flight lets one   *)
(* goroutine per tenant open a pool, and that it opens one only where      *)
(* there is none.                                                          *)
(*                                                                         *)
(* Provisioning (Provisioning), for every set of calls, slugs and          *)
(* domains: what it makes active is ready.  The unique index lets one call *)
(* own the row of a slug; only the owner writes to the slug's database as  *)
(* provisioning does, so that what it has made stays made until it sets    *)
(* the status (MakingInv).                                                 *)
(***************************************************************************)
EXTENDS Tenancy, Provisioning, TLAPS

LEMMA Literals ==
  /\ {"done", "lookup", "query", "fill", "getdb", "join", "wait", "recheck",
      "open", "insert", "deliver", "use", "update", "invalidate", "close"}
       \subseteq Step
  /\ {"request", "maintain"} \subseteq {"request", "maintain"} \cup Status
  /\ Status = {"served", "refused"}
  BY DEF Step, Status

LEMMA PoolOf ==
  ASSUME NEW p \in Pool
  PROVE  p.tenant \in Tenant /\ p # None
  BY NoneAssumption DEF Pool

LEMMA IdleType == Idle \in Process /\ Idle.pool = None /\ Idle.pc = "done"
<1>1. (CHOOSE t \in Tenant : TRUE) \in Tenant
  BY TenantAssumption
<1> QED
  BY <1>1, Literals DEF Idle, Process

\* Fields of a process are assigned values of their types.
LEMMA SetPc ==
  ASSUME NEW r \in Process, NEW s \in Step
  PROVE  [r EXCEPT !.pc = s] \in Process
  BY DEF Process

LEMMA SetPool ==
  ASSUME NEW r \in Process, NEW p \in Pool \cup {None}, NEW s \in Step
  PROVE  [r EXCEPT !.pool = p, !.pc = s] \in Process
  BY DEF Process

LEMMA ProcType ==
  ASSUME TypeOK, NEW g \in Goroutine
  PROVE  /\ proc[g] \in Process
         /\ proc[g].pc \in Step
         /\ proc[g].tenant \in Tenant
         /\ proc[g].pool \in Pool \cup {None}
         /\ proc[g].record \in Status
         /\ proc[g].op \in {"request", "maintain"} \cup Status
  BY DEF TypeOK, Process

LEMMA WithPoolType ==
  ASSUME TypeOK, NEW g \in Goroutine, NEW p \in Pool \cup {None}
  PROVE  /\ WithPool(g, p) \in Process
         /\ WithPool(g, p).pc \in {"use", "update"}
         /\ WithPool(g, p).pool = p
         /\ WithPool(g, p).tenant = proc[g].tenant
         /\ WithPool(g, p).pc = "update" => WithPool(g, p).op \in Status
<1>1. proc[g] \in Process
  BY ProcType
<1>2. (IF proc[g].op \in Status THEN "update" ELSE "use") \in Step
  BY Literals
<1>3. WithPool(g, p) \in Process
  BY <1>1, <1>2, SetPool DEF WithPool
<1> QED
  BY <1>1, <1>3 DEF WithPool, Process
-----------------------------------------------------------------------------
\* A step that changes one goroutine only, and neither makes nor unmakes a
\* leader, keeps the invariant; a leader may go on to open a pool where there
\* is none, and a pool may be handed to its own tenant.
LEMMA LocalStep ==
  ASSUME IInv, TypeOK', NEW g \in Goroutine, NEW r,
         proc' = [proc EXCEPT ![g] = r],
         UNCHANGED <<pools, open, flight>>,
         r.pc \in {"recheck", "open", "insert", "deliver"} <=> Leads(g),
         Leads(g) => r.tenant = proc[g].tenant,
         r.pc = "open" => pools[r.tenant] = None,
         r.pc # "insert", proc[g].pc # "insert",
         r.pc = "update" => r.op \in Status,
         r.pool # None => r.pool.tenant = r.tenant
  PROVE  IInv'
<1> USE DEF IInv
<1>1. proc'[g] = r /\ \A k \in Goroutine \ {g} : proc'[k] = proc[k]
  BY DEF TypeOK
<1>2. \A k \in Goroutine :
        /\ Leads(k)' <=> Leads(k)
        /\ Leads(k) => proc'[k].tenant = proc[k].tenant
  BY <1>1 DEF Leads
<1>3. OneLeader'
  BY <1>2 DEF OneLeader
<1>4. Registered'
  BY <1>2 DEF Registered
<1>5. OpensMissing'
  BY <1>1 DEF OpensMissing
<1>6. OnePool'
  <2>1. \A k \in Goroutine : proc[k].pc = "insert" => proc'[k] = proc[k]
    BY <1>1
  <2> QED
    BY <2>1 DEF OnePool
<1>7. OwnPool'
  BY <1>1 DEF OwnPool
<1>8. ChangesStatus'
  BY <1>1 DEF ChangesStatus
<1> QED
  BY <1>3, <1>4, <1>5, <1>6, <1>7, <1>8
-----------------------------------------------------------------------------
\* One goroutine goes on to a process of the right type.
LEMMA GotoType ==
  ASSUME TypeOK, NEW g \in Goroutine, NEW s \in Step, Goto(g, s)
  PROVE  proc' \in [Goroutine -> Process]
  BY ProcType, SetPc DEF Goto, TypeOK

LEMMA DoneType ==
  ASSUME TypeOK, NEW g \in Goroutine, Done(g)
  PROVE  proc' \in [Goroutine -> Process]
  BY IdleType DEF Done, TypeOK

LEMMA AdmitType ==
  ASSUME TypeOK, NEW g \in Goroutine, NEW record, Admit(g, record)
  PROVE  proc' \in [Goroutine -> Process]
  BY GotoType, DoneType, Literals DEF Admit

LEMMA StartType ==
  ASSUME TypeOK, NEW g \in Goroutine, NEW step \in Step,
         NEW op \in {"request", "maintain"} \cup Status,
         NEW h \in Host \cup {None}, NEW t \in Tenant,
         Start(g, step, op, h, t)
  PROVE  proc' \in [Goroutine -> Process]
<1>1. [Idle EXCEPT !.pc = step, !.op = op, !.host = h, !.tenant = t] \in Process
  BY IdleType DEF Process
<1> QED
  BY <1>1 DEF Start, TypeOK

LEMMA CloseType ==
  ASSUME TypeOK, NEW ts \in SUBSET Tenant, CloseAll(ts)
  PROVE  pools' \in [Tenant -> Pool \cup {None}] /\ open' \subseteq Pool
  BY DEF CloseAll, TypeOK

\* Every step keeps the types.
LEMMA TypeStep == TypeOK /\ ChangesStatus /\ [Next]_vars => TypeOK'
<1> SUFFICES ASSUME TypeOK, ChangesStatus, [Next]_vars PROVE TypeOK'
  OBVIOUS
<1> USE Literals
<1>1. CASE UNCHANGED vars
  BY <1>1 DEF vars, shared, TypeOK
<1>2. ASSUME NEW g \in Goroutine, Begin(g) PROVE TypeOK'
  <2>1. ASSUME NEW h \in Host, Arrive(g, h) PROVE TypeOK'
    <3>1. TenantOf[h] \in Tenant
      BY HostAssumption
    <3>2. proc' \in [Goroutine -> Process]
      BY <2>1, <3>1, StartType DEF Arrive
    <3> QED
      BY <2>1, <3>2 DEF Arrive, shared, TypeOK
  <2>2. ASSUME NEW t \in Tenant, NEW s \in Status, BeginChange(g, t, s)
        PROVE  TypeOK'
    <3>1. proc' \in [Goroutine -> Process]
      BY <2>2, StartType DEF BeginChange
    <3> QED
      BY <2>2, <3>1, BoundAssumption DEF BeginChange, TypeOK
  <2>3. ASSUME NEW t \in Tenant, BeginMaintain(g, t) PROVE TypeOK'
    <3>1. proc' \in [Goroutine -> Process]
      BY <2>3, StartType DEF BeginMaintain
    <3> QED
      BY <2>3, <3>1, BoundAssumption DEF BeginMaintain, TypeOK
  <2> QED
    BY <1>2, <2>1, <2>2, <2>3 DEF Begin
<1>3. ASSUME NEW g \in Goroutine, Continue(g) PROVE TypeOK'
  <2> USE ProcType
  <2>1. CASE Lookup(g)
    <3>1. proc' \in [Goroutine -> Process]
      BY <2>1, GotoType, AdmitType DEF Lookup
    <3> QED
      BY <2>1, <3>1 DEF Lookup, shared, TypeOK
  <2>2. CASE Query(g)
    <3>1. [proc[g] EXCEPT !.record = status[proc[g].tenant], !.pc = "fill"]
            \in Process
      <4>1. PICK q : q = proc[g]
        OBVIOUS
      <4>2. PICK new : new = status[proc[g].tenant]
        OBVIOUS
      <4>3. q \in Process /\ new \in Status
        BY <4>1, <4>2 DEF TypeOK
      <4>4. [q EXCEPT !.record = new, !.pc = "fill"] \in Process
        BY <4>3 DEF Process
      <4> QED
        BY <4>1, <4>2, <4>4
    <3>2. proc' \in [Goroutine -> Process]
      BY <2>2, <3>1 DEF Query, TypeOK
    <3> QED
      BY <2>2, <3>2 DEF Query, shared, TypeOK
  <2>3. CASE Fill(g)
    <3>1. proc' \in [Goroutine -> Process]
      BY <2>3, AdmitType DEF Fill
    <3>2. cache' \in [Host -> Status \cup {None}]
      BY <2>3 DEF Fill, TypeOK
    <3> QED
      BY <2>3, <3>1, <3>2 DEF Fill, TypeOK
  <2>4. CASE GetDB(g)
    <3>1. pools[proc[g].tenant] \in Pool \cup {None}
      BY DEF TypeOK
    <3>2. WithPool(g, pools[proc[g].tenant]) \in Process
      BY <3>1, WithPoolType
    <3>3. proc' \in [Goroutine -> Process]
      BY <2>4, <3>2, GotoType DEF GetDB, TypeOK
    <3> QED
      BY <2>4, <3>3 DEF GetDB, shared, TypeOK
  <2>5. CASE Join(g)
    <3>1. proc' \in [Goroutine -> Process]
      BY <2>5, GotoType DEF Join
    <3> QED
      BY <2>5, <3>1 DEF Join, Key, TypeOK
  <2>6. CASE Recheck(g)
    <3>1. SecondLook(proc[g].tenant) \in Pool \cup {None}
      BY DEF SecondLook, TypeOK
    <3>2. [proc[g] EXCEPT !.pool = SecondLook(proc[g].tenant),
                          !.pc = "deliver"] \in Process
      BY <3>1, SetPool
    <3>3. proc' \in [Goroutine -> Process]
      BY <2>6, <3>2, GotoType DEF Recheck, TypeOK
    <3> QED
      BY <2>6, <3>3 DEF Recheck, shared, TypeOK
  <2>7. CASE OpenPool(g)
    <3>1. PICK p \in Unused(proc[g].tenant) :
            /\ open' = open \cup {p}
            /\ proc' = [proc EXCEPT ![g].pool = p, ![g].pc = "insert"]
      BY <2>7 DEF OpenPool
    <3>2. p \in Pool
      BY <3>1 DEF Unused
    <3>3. [proc[g] EXCEPT !.pool = p, !.pc = "insert"] \in Process
      BY <3>2, SetPool
    <3>4. proc' \in [Goroutine -> Process]
      BY <3>1, <3>3 DEF TypeOK
    <3>5. open' \subseteq Pool
      BY <3>1, <3>2 DEF TypeOK
    <3>6. UNCHANGED <<status, cache, pools, flight, changes>>
      BY <2>7 DEF OpenPool
    <3> QED
      BY <3>4, <3>5, <3>6 DEF TypeOK
  <2>8. CASE OpenFails(g)
    <3>1. proc' \in [Goroutine -> Process]
      BY <2>8, GotoType DEF OpenFails
    <3> QED
      BY <2>8, <3>1 DEF OpenFails, shared, TypeOK
  <2>9. CASE PingFails(g)
    <3>1. [proc[g] EXCEPT !.pool = None, !.pc = "deliver"] \in Process
      BY SetPool
    <3> QED
      BY <2>9, <3>1 DEF PingFails, TypeOK
  <2>10. CASE Insert(g)
    <3>1. proc' \in [Goroutine -> Process]
      BY <2>10, GotoType DEF Insert
    <3> QED
      BY <2>10, <3>1 DEF Insert, TypeOK
  <2>11. CASE Deliver(g)
    <3>1. \A w \in Goroutine : WithPool(w, proc[g].pool) \in Process
      BY WithPoolType
    <3>2. proc' \in [Goroutine -> Process]
      BY <2>11, <3>1, IdleType DEF Deliver
    <3> QED
      BY <2>11, <3>2 DEF Deliver, Key, TypeOK
  <2>12. CASE EndUse(g) \/ Fail(g)
    <3>1. proc' \in [Goroutine -> Process]
      BY <2>12, DoneType DEF EndUse, Fail
    <3> QED
      BY <2>12, <3>1 DEF EndUse, Fail, shared, TypeOK
  <2>13. CASE Update(g)
    <3>1. [proc[g] EXCEPT !.pool = None, !.pc = "invalidate"] \in Process
      BY SetPool
    <3>2. proc[g].op \in Status
      BY <2>13 DEF Update, ChangesStatus
    <3> QED
      BY <2>13, <3>1, <3>2 DEF Update, TypeOK
  <2>14. CASE InvalidateTenant(g)
    <3>1. proc' \in [Goroutine -> Process]
      BY <2>14, GotoType, DoneType DEF InvalidateTenant
    <3>2. cache' \in [Host -> Status \cup {None}]
      BY <2>14 DEF InvalidateTenant, TypeOK
    <3> QED
      BY <2>14, <3>1, <3>2 DEF InvalidateTenant, TypeOK
  <2>15. CASE ClosePool(g)
    <3>1. proc' \in [Goroutine -> Process]
      BY <2>15, DoneType DEF ClosePool
    <3> QED
      BY <2>15, <3>1, CloseType DEF ClosePool, TypeOK
  <2> QED
    BY <1>3, <2>1, <2>2, <2>3, <2>4, <2>5, <2>6, <2>7, <2>8, <2>9, <2>10,
       <2>11, <2>12, <2>13, <2>14, <2>15 DEF Continue
<1>4. ASSUME NEW h \in Host, Expire(h) PROVE TypeOK'
  BY <1>4 DEF Expire, TypeOK
<1>5. ASSUME NEW t \in Tenant, EvictIdle(t) PROVE TypeOK'
  BY <1>5, CloseType DEF EvictIdle, TypeOK
<1> QED
  BY <1>1, <1>2, <1>3, <1>4, <1>5 DEF Next
-----------------------------------------------------------------------------
\* Requests, changes and migrations begin: nobody becomes a leader.
LEMMA BeginStep ==
  ASSUME IInv, TypeOK', NEW g \in Goroutine, Begin(g)
  PROVE  IInv'
<1> USE DEF IInv
<1>1. PICK step \in {"lookup", "getdb", "update"},
           op \in {"request", "maintain"} \cup Status,
           h \in Host \cup {None}, t \in Tenant :
        /\ Start(g, step, op, h, t)
        /\ step = "update" => op \in Status
        /\ UNCHANGED <<pools, open, flight>>
  <2>1. ASSUME NEW h \in Host, Arrive(g, h)
        PROVE  /\ Start(g, "lookup", "request", h, TenantOf[h])
               /\ TenantOf[h] \in Tenant
               /\ UNCHANGED <<pools, open, flight>>
    BY <2>1, HostAssumption DEF Arrive, shared
  <2>2. ASSUME NEW t \in Tenant, NEW s \in Status, BeginChange(g, t, s)
        PROVE  /\ Start(g, IF s = "served" THEN "getdb" ELSE "update", s,
                        None, t)
               /\ UNCHANGED <<pools, open, flight>>
    BY <2>2 DEF BeginChange
  <2>3. ASSUME NEW t \in Tenant, BeginMaintain(g, t)
        PROVE  /\ Start(g, "getdb", "maintain", None, t)
               /\ UNCHANGED <<pools, open, flight>>
    BY <2>3 DEF BeginMaintain
  <2> QED
    BY <2>1, <2>2, <2>3 DEF Begin
<1> DEFINE r == [Idle EXCEPT !.pc = step, !.op = op, !.host = h, !.tenant = t]
<1>2. /\ proc' = [proc EXCEPT ![g] = r]
      /\ proc[g].pc = "done"
  BY <1>1 DEF Start
<1>3. r.pc = step /\ r.op = op /\ r.tenant = t /\ r.pool = None
  BY IdleType DEF Process
<1> HIDE DEF r
<1>4. ~Leads(g)
  BY <1>2 DEF Leads
<1> QED
  BY <1>1, <1>2, <1>3, <1>4, LocalStep

\* The steps of a goroutine that leave pools and flights alone.
LEMMA QuietStep ==
  ASSUME IInv, TypeOK', NEW g \in Goroutine,
         \/ Lookup(g) \/ Query(g) \/ Fill(g) \/ GetDB(g) \/ Recheck(g)
         \/ OpenFails(g) \/ EndUse(g) \/ Fail(g) \/ Update(g)
         \/ InvalidateTenant(g)
  PROVE  IInv'
<1> USE DEF IInv
<1>0. UNCHANGED <<pools, open, flight>>
  BY DEF Lookup, Query, Fill, GetDB, Recheck, OpenFails, EndUse, Fail, Update,
         InvalidateTenant, shared
<1>1. /\ proc[g] \in Process /\ proc[g].tenant \in Tenant
      /\ proc[g].pool # None => proc[g].pool.tenant = proc[g].tenant
  BY ProcType DEF OwnPool
<1>2. ASSUME NEW s \in {"query", "fill", "getdb", "join", "close"},
             ~Leads(g), Goto(g, s)
      PROVE  IInv'
  <2> DEFINE r == [proc[g] EXCEPT !.pc = s]
  <2>1. proc' = [proc EXCEPT ![g] = r]
    BY <1>2 DEF Goto
  <2>2. r.pc = s /\ r.tenant = proc[g].tenant /\ r.pool = proc[g].pool
    BY <1>1 DEF Process
  <2> HIDE DEF r
  <2> QED
    BY <1>0, <1>1, <1>2, <2>1, <2>2, LocalStep DEF Leads
<1>3. ASSUME ~Leads(g), Done(g) PROVE IInv'
  <2>1. proc' = [proc EXCEPT ![g] = Idle]
    BY <1>3 DEF Done
  <2> QED
    BY <1>0, <1>3, <2>1, IdleType, LocalStep DEF Leads
<1>4. CASE Lookup(g) \/ Fill(g)
  <2>1. ~Leads(g) /\ (Goto(g, "query") \/ Goto(g, "getdb") \/ Done(g))
    BY <1>4 DEF Lookup, Fill, Admit, Leads
  <2> QED
    BY <1>2, <1>3, <2>1
<1>5. CASE Query(g)
  <2> DEFINE r == [proc[g] EXCEPT !.record = status[proc[g].tenant],
                                  !.pc = "fill"]
  <2>1. proc' = [proc EXCEPT ![g] = r] /\ proc[g].pc = "query"
    BY <1>5 DEF Query
  <2>2. r.pc = "fill" /\ r.tenant = proc[g].tenant /\ r.pool = proc[g].pool
    BY <1>1 DEF Process
  <2> HIDE DEF r
  <2> QED
    BY <1>0, <1>1, <2>1, <2>2, LocalStep DEF Leads
<1>6. CASE GetDB(g)
  <2>1. CASE pools[proc[g].tenant] = None
    <3>1. ~Leads(g) /\ Goto(g, "join")
      BY <1>6, <2>1 DEF GetDB, Leads
    <3> QED
      BY <1>2, <3>1
  <2>2. CASE pools[proc[g].tenant] # None
    <3> DEFINE r == WithPool(g, pools[proc[g].tenant])
    <3>1. proc' = [proc EXCEPT ![g] = r] /\ proc[g].pc = "getdb"
      BY <1>6, <2>2 DEF GetDB
    <3>2. pools[proc[g].tenant] \in Pool \cup {None}
      BY <1>1 DEF TypeOK
    <3>3. /\ r.pc \in {"use", "update"} /\ r.tenant = proc[g].tenant
          /\ r.pool = pools[proc[g].tenant]
          /\ r.pc = "update" => r.op \in Status
      BY <3>2, WithPoolType
    <3>4. r.pool.tenant = r.tenant
      BY <1>1, <2>2, <3>3 DEF OwnPool
    <3> HIDE DEF r
    <3> QED
      BY <1>0, <1>1, <3>1, <3>3, <3>4, LocalStep DEF Leads
  <2> QED
    BY <2>1, <2>2
<1>7. CASE Recheck(g)
  <2>0. proc[g].pc = "recheck"
    BY <1>7 DEF Recheck
  <2>1. CASE pools[proc[g].tenant] = None
    <3> DEFINE r == [proc[g] EXCEPT !.pc = "open"]
    <3>1. proc' = [proc EXCEPT ![g] = r]
      BY <1>7, <2>1 DEF Recheck, SecondLook, Goto
    <3>2. r.pc = "open" /\ r.tenant = proc[g].tenant /\ r.pool = proc[g].pool
      BY <1>1 DEF Process
    <3> HIDE DEF r
    <3> QED
      BY <1>0, <1>1, <2>0, <2>1, <3>1, <3>2, LocalStep DEF Leads
  <2>2. CASE pools[proc[g].tenant] # None
    <3> DEFINE r == [proc[g] EXCEPT !.pool = pools[proc[g].tenant],
                                    !.pc = "deliver"]
    <3>1. proc' = [proc EXCEPT ![g] = r]
      BY <1>7, <2>2 DEF Recheck, SecondLook
    <3>2. /\ r.pc = "deliver" /\ r.tenant = proc[g].tenant
          /\ r.pool = pools[proc[g].tenant]
      BY <1>1 DEF Process
    <3>3. r.pool.tenant = r.tenant
      BY <1>1, <2>2, <3>2 DEF OwnPool
    <3> HIDE DEF r
    <3> QED
      BY <1>0, <1>1, <2>0, <3>1, <3>2, <3>3, LocalStep DEF Leads
  <2> QED
    BY <2>1, <2>2
<1>8. CASE OpenFails(g)
  <2> DEFINE r == [proc[g] EXCEPT !.pc = "deliver"]
  <2>1. proc' = [proc EXCEPT ![g] = r] /\ proc[g].pc = "open"
    BY <1>8 DEF OpenFails, Goto
  <2>2. r.pc = "deliver" /\ r.tenant = proc[g].tenant /\ r.pool = proc[g].pool
    BY <1>1 DEF Process
  <2> HIDE DEF r
  <2> QED
    BY <1>0, <1>1, <2>1, <2>2, LocalStep DEF Leads
<1>9. CASE EndUse(g) \/ Fail(g)
  <2>1. ~Leads(g) /\ Done(g)
    BY <1>9 DEF EndUse, Fail, Leads
  <2> QED
    BY <1>3, <2>1
<1>10. CASE Update(g)
  <2> DEFINE r == [proc[g] EXCEPT !.pool = None, !.pc = "invalidate"]
  <2>1. proc' = [proc EXCEPT ![g] = r] /\ proc[g].pc = "update"
    BY <1>10 DEF Update
  <2>2. r.pc = "invalidate" /\ r.tenant = proc[g].tenant /\ r.pool = None
    BY <1>1 DEF Process
  <2> HIDE DEF r
  <2> QED
    BY <1>0, <1>1, <2>1, <2>2, LocalStep DEF Leads
<1>11. CASE InvalidateTenant(g)
  <2>1. ~Leads(g) /\ (Goto(g, "close") \/ Done(g))
    BY <1>11 DEF InvalidateTenant, Leads
  <2> QED
    BY <1>2, <1>3, <2>1
<1> QED
  BY <1>4, <1>5, <1>6, <1>7, <1>8, <1>9, <1>10, <1>11
-----------------------------------------------------------------------------
\* Single flight: a goroutine becomes the leader when there is none.
LEMMA JoinStep ==
  ASSUME IInv, TypeOK', NEW g \in Goroutine, Join(g)
  PROVE  IInv'
<1> USE DEF IInv
<1> DEFINE t == proc[g].tenant
           s == IF flight[t] THEN "wait" ELSE "recheck"
<1>1. /\ proc[g].pc = "join" /\ Goto(g, s)
      /\ flight' = [flight EXCEPT ![t] = TRUE]
      /\ UNCHANGED <<pools, open>>
  BY DEF Join, Key
<1>2. proc[g] \in Process /\ t \in Tenant
  BY ProcType
<1>3. /\ proc'[g].pc = s /\ proc'[g].tenant = t
      /\ proc'[g].pool = proc[g].pool
      /\ \A k \in Goroutine \ {g} : proc'[k] = proc[k]
  BY <1>1, <1>2 DEF Goto, TypeOK, Process
<1>4. /\ Leads(g)' <=> ~flight[t]
      /\ ~Leads(g)
      /\ \A k \in Goroutine \ {g} : Leads(k)' <=> Leads(k)
  BY <1>1, <1>3 DEF Leads
<1>5. \A k \in Goroutine : Leads(k) /\ proc[k].tenant = t => flight[t]
  BY <1>2 DEF Registered
<1>6. OneLeader'
  BY <1>3, <1>4, <1>5 DEF OneLeader
<1>7. Registered'
  <2>1. ASSUME NEW u \in Tenant, u # t
        PROVE  (flight[u] <=> \E k \in Goroutine : Leads(k) /\ proc[k].tenant = u)'
    <3>1. flight'[u] = flight[u]
      BY <1>1, <2>1 DEF TypeOK
    <3>2. \A k \in Goroutine :
            (Leads(k) /\ proc[k].tenant = u)' <=> Leads(k) /\ proc[k].tenant = u
      BY <1>3, <1>4, <2>1
    <3> QED
      BY <3>1, <3>2 DEF Registered
  <2>2. flight'[t] /\ \E k \in Goroutine : (Leads(k) /\ proc[k].tenant = t)'
    <3>1. flight'[t]
      BY <1>1, <1>2 DEF TypeOK
    <3>2. CASE flight[t]
      <4>1. PICK k \in Goroutine : Leads(k) /\ proc[k].tenant = t
        BY <1>2, <3>2 DEF Registered
      <4> QED
        BY <1>3, <1>4, <3>1, <4>1
    <3>3. CASE ~flight[t]
      BY <1>3, <1>4, <3>1, <3>3
    <3> QED
      BY <3>2, <3>3
  <2> QED
    BY <1>3, <2>1, <2>2 DEF Registered
<1>8. OpensMissing'
  BY <1>1, <1>3 DEF OpensMissing
<1>9. OnePool'
  <2>1. \A k \in Goroutine : proc[k].pc = "insert" => proc'[k] = proc[k]
    BY <1>1, <1>3
  <2> QED
    BY <1>1, <2>1 DEF OnePool
<1>10. OwnPool' /\ ChangesStatus'
  BY <1>1, <1>3 DEF OwnPool, ChangesStatus
<1> QED
  BY <1>6, <1>7, <1>8, <1>9, <1>10

\* A leader that stays one: what a step between opening a pool and handing
\* it on has to show.
LEMMA LeaderStep ==
  ASSUME IInv, TypeOK', NEW g \in Goroutine, NEW r, Leads(g),
         proc' = [proc EXCEPT ![g] = r],
         r.tenant = proc[g].tenant,
         r.pc \in {"insert", "deliver"},
         r.pool # None => r.pool.tenant = r.tenant,
         UNCHANGED flight,
         \A t \in Tenant \ {r.tenant} : pools'[t] = pools[t],
         pools'[r.tenant] # None =>
           pools'[r.tenant] \in open' /\ pools'[r.tenant].tenant = r.tenant,
         r.pc = "insert" => pools'[r.tenant] = None /\ r.pool \in open',
         \A p \in Pool : p.tenant # r.tenant => (p \in open' <=> p \in open),
         \A p \in open' : p.tenant = r.tenant =>
           (p = pools'[r.tenant] \/ (r.pc = "insert" /\ p = r.pool))
  PROVE  IInv'
<1> USE DEF IInv
<1>1. proc'[g] = r /\ \A k \in Goroutine \ {g} : proc'[k] = proc[k]
  BY DEF TypeOK
<1>2. \A k \in Goroutine :
        /\ Leads(k)' <=> Leads(k)
        /\ proc'[k].tenant = proc[k].tenant
  BY <1>1 DEF Leads
<1>3. \A k \in Goroutine \ {g} : Leads(k) => proc[k].tenant # r.tenant
  BY DEF OneLeader
<1>4. OneLeader' /\ Registered'
  BY <1>2 DEF OneLeader, Registered
<1>5. OpensMissing'
  <2>1. ASSUME NEW k \in Goroutine, k # g, proc[k].pc \in {"open", "insert"}
        PROVE  /\ pools'[proc[k].tenant] = None
               /\ proc[k].pc = "insert" => proc[k].pool \in open'
    <3>1. Leads(k) /\ proc[k].tenant # r.tenant /\ proc[k].tenant \in Tenant
      BY <1>3, <2>1, ProcType DEF Leads
    <3>2. pools'[proc[k].tenant] = None
      BY <2>1, <3>1 DEF OpensMissing
    <3>3. ASSUME proc[k].pc = "insert" PROVE proc[k].pool \in open'
      <4>1. proc[k].pool \in open
        BY <3>3 DEF OpensMissing
      <4>2. proc[k].pool \in Pool /\ proc[k].pool.tenant = proc[k].tenant
        BY <4>1, PoolOf DEF OwnPool, TypeOK
      <4> QED
        BY <3>1, <4>1, <4>2
    <3> QED
      BY <3>2, <3>3
  <2> QED
    BY <1>1, <2>1 DEF OpensMissing
<1>6. OnePool'
  <2>1. ASSUME NEW p \in open', p.tenant # r.tenant
        PROVE  /\ p \in open /\ p.tenant \in Tenant
               /\ \/ pools'[p.tenant] = p
                  \/ \E k \in Goroutine : (/\ proc[k].pc = "insert"
                                          /\ proc[k].pool = p
                                          /\ proc[k].tenant = p.tenant)'
    <3>1. p \in open /\ p.tenant \in Tenant
      BY <2>1, PoolOf DEF TypeOK
    <3>2. CASE pools[p.tenant] = p
      BY <2>1, <3>1, <3>2
    <3>3. ASSUME NEW k \in Goroutine, proc[k].pc = "insert", proc[k].pool = p,
                 proc[k].tenant = p.tenant
          PROVE  proc'[k] = proc[k]
      BY <1>1, <2>1, <3>3
    <3> QED
      BY <3>1, <3>2, <3>3 DEF OnePool
  <2>2. ASSUME NEW p \in open', p.tenant = r.tenant
        PROVE  \/ pools'[p.tenant] = p
               \/ \E k \in Goroutine : (/\ proc[k].pc = "insert"
                                       /\ proc[k].pool = p
                                       /\ proc[k].tenant = p.tenant)'
    BY <1>1, <2>2
  <2>3. ASSUME NEW p \in open', NEW q \in open', p.tenant = q.tenant
        PROVE  p = q
    <3>1. CASE p.tenant # r.tenant
      BY <2>1, <2>3, <3>1 DEF OnePool
    <3>2. CASE p.tenant = r.tenant
      <4>1. p # None /\ q # None
        BY <2>3, PoolOf DEF TypeOK
      <4> QED
        BY <2>3, <3>2, <4>1
    <3> QED
      BY <3>1, <3>2
  <2> QED
    BY <2>1, <2>2, <2>3 DEF OnePool
<1>7. OwnPool'
  <2>1. ASSUME NEW t \in Tenant, pools'[t] # None
        PROVE  pools'[t] \in open' /\ pools'[t].tenant = t
    <3>1. CASE t = r.tenant
      BY <2>1, <3>1
    <3>2. CASE t # r.tenant
      <4>1. pools[t] \in open /\ pools[t].tenant = t /\ pools'[t] = pools[t]
        BY <2>1, <3>2 DEF OwnPool
      <4> QED
        BY <3>2, <4>1 DEF TypeOK
    <3> QED
      BY <3>1, <3>2
  <2> QED
    BY <1>1, <2>1 DEF OwnPool
<1>8. ChangesStatus'
  BY <1>1 DEF ChangesStatus
<1> QED
  BY <1>4, <1>5, <1>6, <1>7, <1>8

\* A leader opens a pool, closes it again, or puts it into the map.
LEMMA OpenStep ==
  ASSUME IInv, TypeOK', NEW g \in Goroutine,
         OpenPool(g) \/ PingFails(g) \/ Insert(g)
  PROVE  IInv'
<1> USE DEF IInv
<1> DEFINE t == proc[g].tenant
<1>1. /\ proc[g] \in Process /\ t \in Tenant
      /\ proc[g].pool # None => proc[g].pool.tenant = t
  BY ProcType DEF OwnPool
<1>2. UNCHANGED flight
  BY DEF OpenPool, PingFails, Insert
<1>3. CASE OpenPool(g)
  <2>1. PICK p \in Unused(t) :
          /\ open' = open \cup {p}
          /\ proc' = [proc EXCEPT ![g].pool = p, ![g].pc = "insert"]
          /\ proc[g].pc = "open"
          /\ UNCHANGED pools
    BY <1>3 DEF OpenPool
  <2>2. p \in Pool /\ p.tenant = t
    BY <2>1 DEF Unused
  <2> DEFINE r == [proc[g] EXCEPT !.pool = p, !.pc = "insert"]
  <2>3. r.pc = "insert" /\ r.pool = p /\ r.tenant = t
    BY <1>1 DEF Process
  <2>4. Leads(g) /\ pools[t] = None
    BY <2>1 DEF Leads, OpensMissing
  <2>5. \A q \in open : q.tenant # t
    <3>1. \A k \in Goroutine : proc[k].pc = "insert" => proc[k].tenant # t
      BY <2>1, <2>4 DEF OneLeader, Leads
    <3>2. \A q \in open : q # None
      BY PoolOf DEF TypeOK
    <3> QED
      BY <2>4, <3>1, <3>2 DEF OnePool
  <2>6. proc' = [proc EXCEPT ![g] = r]
    BY <2>1
  <2> HIDE DEF r, t
  <2>7. /\ Leads(g) /\ r.tenant = proc[g].tenant
        /\ r.pc \in {"insert", "deliver"}
        /\ r.pool # None => r.pool.tenant = r.tenant
        /\ proc' = [proc EXCEPT ![g] = r]
    BY <1>1, <2>2, <2>3, <2>4, <2>6 DEF t
  <2>8. /\ \A u \in Tenant \ {r.tenant} : pools'[u] = pools[u]
        /\ pools'[r.tenant] # None =>
             pools'[r.tenant] \in open' /\ pools'[r.tenant].tenant = r.tenant
        /\ r.pc = "insert" => pools'[r.tenant] = None /\ r.pool \in open'
    BY <2>1, <2>3, <2>4
  <2>9. /\ \A q \in Pool : q.tenant # r.tenant => (q \in open' <=> q \in open)
        /\ \A q \in open' : q.tenant = r.tenant =>
             (q = pools'[r.tenant] \/ (r.pc = "insert" /\ q = r.pool))
    BY <2>1, <2>2, <2>3, <2>5
  <2> QED
    BY <1>2, <2>7, <2>8, <2>9, LeaderStep
<1>4. CASE PingFails(g)
  <2> DEFINE r == [proc[g] EXCEPT !.pool = None, !.pc = "deliver"]
  <2>1. /\ open' = open \ {proc[g].pool}
        /\ proc' = [proc EXCEPT ![g] = r]
        /\ proc[g].pc = "insert"
        /\ UNCHANGED pools
    BY <1>4 DEF PingFails
  <2>2. r.pc = "deliver" /\ r.pool = None /\ r.tenant = t
    BY <1>1 DEF Process
  <2>3. /\ Leads(g) /\ pools[t] = None
        /\ proc[g].pool \in open /\ proc[g].pool.tenant = t
    BY <1>1, <2>1, PoolOf DEF Leads, OpensMissing, TypeOK
  <2>4. \A q \in open : q.tenant = t => q = proc[g].pool
    BY <2>3 DEF OnePool
  <2> HIDE DEF r, t
  <2>5. /\ Leads(g) /\ r.tenant = proc[g].tenant
        /\ r.pc \in {"insert", "deliver"}
        /\ r.pool # None => r.pool.tenant = r.tenant
        /\ proc' = [proc EXCEPT ![g] = r]
    BY <1>1, <2>2, <2>3, <2>1 DEF t
  <2>6. /\ \A u \in Tenant \ {r.tenant} : pools'[u] = pools[u]
        /\ pools'[r.tenant] # None =>
             pools'[r.tenant] \in open' /\ pools'[r.tenant].tenant = r.tenant
        /\ r.pc = "insert" => pools'[r.tenant] = None /\ r.pool \in open'
    BY <2>1, <2>2, <2>3
  <2>7. /\ \A q \in Pool : q.tenant # r.tenant => (q \in open' <=> q \in open)
        /\ \A q \in open' : q.tenant = r.tenant =>
             (q = pools'[r.tenant] \/ (r.pc = "insert" /\ q = r.pool))
    BY <2>1, <2>2, <2>3, <2>4
  <2> QED
    BY <1>2, <2>5, <2>6, <2>7, LeaderStep
<1>5. CASE Insert(g)
  <2> DEFINE r == [proc[g] EXCEPT !.pc = "deliver"]
  <2>1. /\ pools' = [pools EXCEPT ![t] = proc[g].pool]
        /\ proc' = [proc EXCEPT ![g] = r]
        /\ proc[g].pc = "insert"
        /\ UNCHANGED open
    BY <1>5 DEF Insert, Goto
  <2>2. r.pc = "deliver" /\ r.pool = proc[g].pool /\ r.tenant = t
    BY <1>1 DEF Process
  <2>3. Leads(g) /\ proc[g].pool \in open /\ proc[g].pool.tenant = t
    BY <1>1, <2>1, PoolOf DEF Leads, OpensMissing, TypeOK
  <2>4. \A q \in open : q.tenant = t => q = proc[g].pool
    BY <2>3 DEF OnePool
  <2>5. pools'[t] = proc[g].pool /\ \A u \in Tenant \ {t} : pools'[u] = pools[u]
    BY <1>1, <2>1 DEF TypeOK
  <2> HIDE DEF r, t
  <2>6. /\ Leads(g) /\ r.tenant = proc[g].tenant
        /\ r.pc \in {"insert", "deliver"}
        /\ r.pool # None => r.pool.tenant = r.tenant
        /\ proc' = [proc EXCEPT ![g] = r]
    BY <1>1, <2>2, <2>3, <2>1 DEF t
  <2>7. /\ \A u \in Tenant \ {r.tenant} : pools'[u] = pools[u]
        /\ pools'[r.tenant] # None =>
             pools'[r.tenant] \in open' /\ pools'[r.tenant].tenant = r.tenant
        /\ r.pc = "insert" => pools'[r.tenant] = None /\ r.pool \in open'
    BY <2>1, <2>2, <2>3, <2>5
  <2>8. /\ \A q \in Pool : q.tenant # r.tenant => (q \in open' <=> q \in open)
        /\ \A q \in open' : q.tenant = r.tenant =>
             (q = pools'[r.tenant] \/ (r.pc = "insert" /\ q = r.pool))
    BY <2>1, <2>2, <2>4, <2>5
  <2> QED
    BY <1>2, <2>6, <2>7, <2>8, LeaderStep
<1> QED
  BY <1>3, <1>4, <1>5

\* The leader and everybody who waits get the pool: it is their tenant's.
LEMMA DeliverStep ==
  ASSUME IInv, TypeOK', NEW g \in Goroutine, Deliver(g)
  PROVE  IInv'
<1> USE DEF IInv
<1> DEFINE callers == Callers(g)
<1>0. /\ callers \subseteq Goroutine /\ g \in callers
      /\ \A w \in callers \ {g} : /\ proc[w].pc = "wait"
                                  /\ proc[w].tenant = proc[g].tenant
  BY DEF Callers, Key
<1>1. /\ \A w \in Goroutine :
           proc'[w] = IF w \notin callers THEN proc[w]
                      ELSE IF proc[g].pool = None THEN Idle
                      ELSE WithPool(w, proc[g].pool)
      /\ proc[g].pc = "deliver"
      /\ flight' = [flight EXCEPT ![proc[g].tenant] = FALSE]
      /\ UNCHANGED <<pools, open>>
  BY DEF Deliver, Key
<1> HIDE DEF callers
<1>2. /\ proc[g].tenant \in Tenant /\ proc[g].pool \in Pool \cup {None}
      /\ Leads(g)
  BY <1>0, <1>1, ProcType DEF Leads
<1>3. ASSUME NEW w \in callers
      PROVE  /\ ~Leads(w)' /\ proc'[w].pc # "insert"
             /\ proc'[w].pool # None => proc'[w].pool.tenant = proc'[w].tenant
             /\ proc'[w].pc = "update" => proc'[w].op \in Status
             /\ Leads(w) => w = g
             /\ proc[w].tenant = proc[g].tenant
  <2>1. CASE proc[g].pool = None
    <3>1. proc'[w] = Idle
      BY <1>0, <1>1, <2>1
    <3> QED
      BY <1>0, <1>1, <3>1, IdleType DEF Leads
  <2>2. CASE proc[g].pool # None
    <3>1. proc'[w] = WithPool(w, proc[g].pool)
      BY <1>0, <1>1, <2>2
    <3>2. /\ proc'[w].pc \in {"use", "update"}
          /\ proc'[w].pool = proc[g].pool
          /\ proc'[w].tenant = proc[w].tenant
          /\ proc'[w].pc = "update" => proc'[w].op \in Status
      BY <1>0, <1>2, <3>1, WithPoolType
    <3>3. proc[g].pool.tenant = proc[g].tenant
      BY <2>2 DEF OwnPool
    <3> QED
      BY <1>0, <1>1, <3>2, <3>3 DEF Leads
  <2> QED
    BY <2>1, <2>2
<1>4. \A w \in Goroutine \ callers : proc'[w] = proc[w]
  BY <1>0, <1>1
<1>5. OneLeader'
  <2>1. \A w \in Goroutine : Leads(w)' => Leads(w) /\ proc'[w] = proc[w]
    BY <1>0, <1>3, <1>4 DEF Leads
  <2> QED
    BY <2>1 DEF OneLeader
<1>6. Registered'
  <2> SUFFICES ASSUME NEW u \in Tenant
               PROVE  flight'[u] <=> \E k \in Goroutine :
                        Leads(k)' /\ proc'[k].tenant = u
    BY DEF Registered
  <2>1. CASE u = proc[g].tenant
    <3>1. ~flight'[u]
      BY <1>0, <1>1, <2>1 DEF TypeOK
    <3>2. ASSUME NEW k \in Goroutine, Leads(k)', proc'[k].tenant = u
          PROVE  FALSE
      <4>1. k \notin callers
        BY <1>0, <1>3, <3>2
      <4>2. Leads(k) /\ proc[k].tenant = proc[g].tenant
        BY <1>4, <2>1, <3>2, <4>1 DEF Leads
      <4> QED
        BY <1>0, <1>1, <1>2, <4>1, <4>2 DEF OneLeader
    <3> QED
      BY <3>1, <3>2
  <2>2. CASE u # proc[g].tenant
    <3>1. flight'[u] = flight[u]
      BY <1>0, <1>1, <2>2 DEF TypeOK
    <3>2. \A k \in Goroutine : Leads(k)' /\ proc'[k].tenant = u
                                 <=> Leads(k) /\ proc[k].tenant = u
      BY <1>0, <1>3, <1>4, <2>2 DEF Leads
    <3> QED
      BY <3>1, <3>2 DEF Registered
  <2> QED
    BY <2>1, <2>2
<1>7. OpensMissing'
  BY <1>0, <1>1, <1>3, <1>4 DEF OpensMissing, Leads
<1>8. OnePool'
  <2>1. \A k \in Goroutine : proc[k].pc = "insert" => proc'[k] = proc[k]
    BY <1>0, <1>1, <1>4
  <2> QED
    BY <1>0, <1>1, <2>1 DEF OnePool
<1>9. OwnPool'
  BY <1>0, <1>1, <1>3, <1>4 DEF OwnPool
<1>10. ChangesStatus'
  BY <1>0, <1>3, <1>4 DEF ChangesStatus
<1> QED
  BY <1>5, <1>6, <1>7, <1>8, <1>9, <1>10
-----------------------------------------------------------------------------
\* The pool of a tenant is closed and forgotten in one step.  A pool that a
\* leader is about to put into the map is not concerned: the map has none.
LEMMA CloseStep ==
  ASSUME IInv, TypeOK', NEW t \in Tenant, CloseAll({t}),
         UNCHANGED flight,
         \A k \in Goroutine :
           \/ proc'[k] = proc[k]
           \/ ~Leads(k) /\ proc'[k] = Idle
  PROVE  IInv'
<1> USE DEF IInv
<1>1. /\ pools'[t] = None
      /\ \A u \in Tenant \ {t} : pools'[u] = pools[u]
      /\ open' = open \ {pools[t]}
  BY DEF CloseAll, TypeOK
<1>2. \A k \in Goroutine : Leads(k)' <=> Leads(k) /\ proc'[k] = proc[k]
  BY IdleType DEF Leads
<1>3. \A k \in Goroutine : Leads(k) => Leads(k)' /\ proc'[k] = proc[k]
  BY IdleType DEF Leads
<1>4. OneLeader' /\ Registered'
  BY <1>2, <1>3 DEF OneLeader, Registered
<1>5. OpensMissing'
  <2>1. ASSUME NEW k \in Goroutine, proc'[k].pc \in {"open", "insert"}
        PROVE  /\ pools'[proc'[k].tenant] = None
               /\ proc'[k].pc = "insert" => proc'[k].pool \in open'
    <3>1. proc'[k] = proc[k] /\ proc[k].tenant \in Tenant
      BY <1>2, <2>1, ProcType DEF Leads
    <3>2. pools[proc[k].tenant] = None
      BY <2>1, <3>1 DEF OpensMissing
    <3>3. pools'[proc[k].tenant] = None
      BY <1>1, <3>1, <3>2
    <3>4. ASSUME proc[k].pc = "insert" PROVE proc[k].pool # pools[t]
      <4>1. proc[k].pool # None /\ proc[k].pool.tenant = proc[k].tenant
        BY <3>4, PoolOf DEF OpensMissing, OwnPool, TypeOK
      <4> QED
        BY <3>2, <4>1 DEF OwnPool
    <3> QED
      BY <1>1, <2>1, <3>1, <3>3, <3>4 DEF OpensMissing
  <2> QED
    BY <2>1 DEF OpensMissing
<1>6. OnePool'
  <2>1. ASSUME NEW p \in open'
        PROVE  \/ pools'[p.tenant] = p
               \/ \E k \in Goroutine : (/\ proc[k].pc = "insert"
                                       /\ proc[k].pool = p
                                       /\ proc[k].tenant = p.tenant)'
    <3>1. p \in open /\ p # pools[t] /\ p.tenant \in Tenant
      BY <1>1, PoolOf DEF TypeOK
    <3>2. CASE pools[p.tenant] = p
      BY <1>1, <3>1, <3>2
    <3>3. ASSUME NEW k \in Goroutine, proc[k].pc = "insert", proc[k].pool = p,
                 proc[k].tenant = p.tenant
          PROVE  proc'[k] = proc[k]
      BY <1>3, <3>3 DEF Leads
    <3> QED
      BY <3>1, <3>2, <3>3 DEF OnePool
  <2>2. \A p, q \in open' : p.tenant = q.tenant => p = q
    BY <1>1 DEF OnePool
  <2> QED
    BY <2>1, <2>2 DEF OnePool
<1>7. OwnPool'
  <2>1. ASSUME NEW u \in Tenant, pools'[u] # None
        PROVE  pools'[u] \in open' /\ pools'[u].tenant = u
    <3>1. u # t /\ pools'[u] = pools[u]
      BY <1>1, <2>1
    <3>2. pools[u] \in open /\ pools[u].tenant = u
      BY <2>1, <3>1 DEF OwnPool
    <3>3. pools[u] # pools[t]
      BY <2>1, <3>1, <3>2 DEF OwnPool
    <3> QED
      BY <1>1, <3>1, <3>2, <3>3
  <2>2. \A k \in Goroutine :
          proc'[k].pool # None => proc'[k].pool.tenant = proc'[k].tenant
    BY IdleType DEF OwnPool
  <2> QED
    BY <2>1, <2>2 DEF OwnPool
<1>8. ChangesStatus'
  BY IdleType DEF ChangesStatus
<1> QED
  BY <1>4, <1>5, <1>6, <1>7, <1>8

\* The state of the pools does not depend on the rest.
LEMMA StutterStep ==
  ASSUME IInv, TypeOK', UNCHANGED <<pools, open, flight, proc>>
  PROVE  IInv'
  BY DEF IInv, ChangesStatus, OneLeader, Registered, OpensMissing, OnePool,
         OwnPool, Leads
-----------------------------------------------------------------------------
LEMMA InitIInv == Init => IInv
<1> SUFFICES ASSUME Init PROVE IInv
  OBVIOUS
<1>1. proc \in [Goroutine -> Process] /\ \A g \in Goroutine : proc[g] = Idle
  BY IdleType DEF Init
<1>2. TypeOK
  BY <1>1, BoundAssumption DEF Init, TypeOK
<1>3. \A g \in Goroutine : ~Leads(g)
  BY <1>1, IdleType DEF Leads
<1>4. ChangesStatus /\ OneLeader /\ OpensMissing
  BY <1>1, <1>3, IdleType DEF ChangesStatus, OneLeader, OpensMissing
<1>5. Registered
  BY <1>3 DEF Init, Registered
<1>6. OnePool /\ OwnPool
  BY <1>1, IdleType DEF Init, OnePool, OwnPool
<1> QED
  BY <1>2, <1>4, <1>5, <1>6 DEF IInv

LEMMA NextIInv == IInv /\ [Next]_vars => IInv'
<1> SUFFICES ASSUME IInv, [Next]_vars PROVE IInv'
  OBVIOUS
<1>1. TypeOK /\ TypeOK'
  BY TypeStep DEF IInv
<1>2. CASE UNCHANGED vars
  BY <1>1, <1>2, StutterStep DEF vars, shared
<1>3. ASSUME NEW g \in Goroutine, Begin(g) PROVE IInv'
  BY <1>1, <1>3, BeginStep
<1>4. ASSUME NEW g \in Goroutine, Continue(g) PROVE IInv'
  <2>1. CASE Join(g)
    BY <1>1, <2>1, JoinStep
  <2>2. CASE OpenPool(g) \/ PingFails(g) \/ Insert(g)
    BY <1>1, <2>2, OpenStep
  <2>3. CASE Deliver(g)
    BY <1>1, <2>3, DeliverStep
  <2>4. CASE ClosePool(g)
    <3>1. proc[g].tenant \in Tenant
      BY <1>1, ProcType
    <3>2. ~Leads(g) /\ proc' = [proc EXCEPT ![g] = Idle]
      BY <2>4 DEF ClosePool, Done, Leads
    <3>3. \A k \in Goroutine : proc'[k] = IF k = g THEN Idle ELSE proc[k]
      BY <1>1, <3>2 DEF TypeOK
    <3>4. CloseAll({proc[g].tenant}) /\ UNCHANGED flight
      BY <2>4 DEF ClosePool
    <3> QED
      BY <1>1, <3>1, <3>2, <3>3, <3>4, CloseStep
  <2> QED
    BY <1>1, <1>4, <2>1, <2>2, <2>3, <2>4, QuietStep DEF Continue
<1>5. ASSUME NEW h \in Host, Expire(h) PROVE IInv'
  BY <1>1, <1>5, StutterStep DEF Expire
<1>6. ASSUME NEW t \in Tenant, EvictIdle(t) PROVE IInv'
  BY <1>1, <1>6, CloseStep DEF EvictIdle
<1> QED
  BY <1>2, <1>3, <1>4, <1>5, <1>6 DEF Next

\* The invariant holds in every state the registry and the manager reach.
THEOREM Inductive == Spec => []IInv
<1>1. Init => IInv
  BY InitIInv
<1>2. IInv /\ [Next]_vars => IInv'
  BY NextIInv
<1> QED
  BY <1>1, <1>2, PTL DEF Spec

\* The variables always have the values their declarations in the code allow.
THEOREM TypeCorrect == Spec => []TypeOK
<1>1. IInv => TypeOK
  BY DEF IInv
<1> QED
  BY <1>1, Inductive, PTL

\* The manager never has two pools for a tenant, however many requests come
\* at once, and loses none that it opened.
THEOREM OneOpenPool == Spec => []OnePool
<1>1. IInv => OnePool
  BY DEF IInv
<1> QED
  BY <1>1, Inductive, PTL

\* GetDB never gives a request the pool of another tenant, and what the map
\* of pools has is open.
THEOREM ServedFromOwnPool == Spec => []OwnPool
<1>1. IInv => OwnPool
  BY DEF IInv
<1> QED
  BY <1>1, Inductive, PTL
-----------------------------------------------------------------------------
(* Provisioning *)


\* Steps of a call that has made its row.
Building == {"database", "account", "open", "migrate", "bootstrap", "activate",
             "fail", "created"}

\* Rows and calls belong together.
Owned ==
  /\ \A s \in Slug : registry[s].status = "absent" <=> registry[s].owner = Unset
  /\ \A s \in Slug : registry[s].owner # Unset =>
       call[registry[s].owner].slug = s
  /\ \A c \in Call : call[c].step \in Building =>
       registry[call[c].slug].owner = c

\* Only the owner's password opens a database.
OwnAdmins == \A s \in Slug : server[s].admins \subseteq {registry[s].owner}

\* A call finds what its steps before have made.
Made ==
  \A c \in Call :
    /\ call[c].step \in {"bootstrap", "activate", "created"} =>
         server[call[c].slug].schema = "full"
    /\ call[c].step \in {"activate", "created"} =>
         c \in server[call[c].slug].admins

MakingInv == ProvisioningTypeOK /\ Owned /\ OwnAdmins /\ Made /\ ActiveIsReady

-----------------------------------------------------------------------------
\* A step that leaves the registry alone and lets the database of one slug
\* only grow keeps the tenants ready.
LEMMA ReadyStays ==
  ASSUME ActiveIsReady, UNCHANGED registry,
         \A s \in Slug : /\ server[s].schema = "full" => server'[s].schema = "full"
                         /\ server[s].admins # {} => server'[s].admins # {}
  PROVE  ActiveIsReady'
  BY DEF ActiveIsReady, Ready

\* A call that goes on to a step that promises nothing new.
LEMMA GotoKeeps ==
  ASSUME MakingInv, NEW c \in Call, NEW step \in Working \cup Ended, GoOn(c, step),
         UNCHANGED <<registry, server>>,
         step \in Building => call[c].step \in Building,
         step \notin {"bootstrap", "activate", "created"}
  PROVE  MakingInv'
<1> USE DEF MakingInv
<1>1. /\ call' \in [Call -> Progress]
      /\ \A d \in Call : call'[d].slug = call[d].slug
      /\ \A d \in Call : d # c => call'[d] = call[d]
      /\ call'[c].step = step
  BY DEF GoOn, ProvisioningTypeOK, Progress
<1>2. ProvisioningTypeOK'
  BY <1>1 DEF ProvisioningTypeOK
<1>3. Owned'
  BY <1>1 DEF Owned, ProvisioningTypeOK, Record
<1>4. OwnAdmins' /\ ActiveIsReady'
  BY DEF OwnAdmins, ActiveIsReady, Ready
<1>5. Made'
  BY <1>1 DEF Made
<1> QED
  BY <1>2, <1>3, <1>4, <1>5

\* The steps that work on the database of the call's slug.
LEMMA OnServerKeeps ==
  ASSUME MakingInv, NEW c \in Call, NEW effect \in Database,
         NEW step \in {"database", "account", "migrate", "bootstrap"},
         OnServer(c, step, effect),
         Mine(c).schema = "full" => effect.schema = "full",
         Mine(c).admins \subseteq effect.admins,
         effect.admins \subseteq {c},
         step = "migrate" => effect.schema = "full",
         step = "bootstrap" => c \in effect.admins
  PROVE  MakingInv'
<1> USE DEF MakingInv
<1> DEFINE S == call[c].slug
<1>0. /\ call[c].step = step
      /\ call[c] \in Progress
      /\ S \in Slug
      /\ step \in Building
  BY DEF OnServer, ProvisioningTypeOK, Progress, Building
<1>1. registry[S].owner = c
  BY <1>0 DEF Owned
<1>2. CASE UNCHANGED server /\ GoOn(c, "fail") /\ UNCHANGED registry
  <2>1. "fail" \in Working \cup Ended
    BY DEF Working
  <2>2. call[c].step \in Building
    BY <1>0
  <2> QED
    BY <1>2, <2>1, <2>2, GotoKeeps
<1>3. CASE /\ server' = [server EXCEPT ![S] = effect]
           /\ GoOn(c, After[step]) \/ GoOn(c, "fail")
           /\ UNCHANGED registry
  <2>1. PICK next \in {After[step], "fail"} : GoOn(c, next)
    BY <1>3
  <2>2. next \in Working \cup Ended /\ next \in Building
    BY <1>0, <2>1 DEF After, Working, Ended, Building
  <2>3. /\ call' \in [Call -> Progress]
        /\ \A d \in Call : call'[d].slug = call[d].slug
        /\ \A d \in Call : d # c => call'[d] = call[d]
        /\ call'[c].step = next
    BY <2>1, <2>2 DEF GoOn, ProvisioningTypeOK, Progress
  <2>4. /\ server' \in [Slug -> Database]
        /\ server'[S] = effect
        /\ \A s \in Slug \ {S} : server'[s] = server[s]
    BY <1>0, <1>3 DEF ProvisioningTypeOK
  <2>5. ProvisioningTypeOK'
    BY <1>3, <2>3, <2>4 DEF ProvisioningTypeOK
  <2>6. Owned'
    <3>1. \A d \in Call : call'[d].step \in Building =>
                            call[d].step \in Building
      BY <1>0, <2>3
    <3> QED
      BY <1>3, <2>3, <3>1 DEF Owned, ProvisioningTypeOK, Record
  <2>7. OwnAdmins'
    BY <1>1, <1>3, <2>4 DEF OwnAdmins
  <2>8. \A s \in Slug :
          /\ server[s].schema = "full" => server'[s].schema = "full"
          /\ server[s].admins \subseteq server'[s].admins
    BY <1>0, <2>4 DEF Mine
  <2>9. Made'
    <3> SUFFICES ASSUME NEW d \in Call
                 PROVE  /\ call'[d].step \in {"bootstrap", "activate", "created"} =>
                             server'[call'[d].slug].schema = "full"
                        /\ call'[d].step \in {"activate", "created"} =>
                             d \in server'[call'[d].slug].admins
      BY DEF Made
    <3>0. call[d].slug \in Slug
      BY DEF ProvisioningTypeOK, Progress
    <3>1. CASE d # c
      BY <2>3, <2>8, <3>0, <3>1 DEF Made
    <3>2. CASE d = c
      <4>1. /\ next = "bootstrap" => step = "migrate"
            /\ next = "activate" => step = "bootstrap"
            /\ next # "created"
        BY <1>0, <2>1 DEF After
      <4>2. step = "bootstrap" => server[S].schema = "full"
        BY <1>0 DEF Made
      <4>3. call'[c].slug = S
        BY <2>3
      <4> QED
        BY <2>3, <2>4, <3>2, <4>1, <4>2, <4>3 DEF Mine
    <3> QED
      BY <3>1, <3>2
  <2>10. ActiveIsReady'
    <3>1. \A s \in Slug : /\ server[s].schema = "full" => server'[s].schema = "full"
                          /\ server[s].admins # {} => server'[s].admins # {}
      BY <2>8
    <3>2. ActiveIsReady /\ UNCHANGED registry
      BY <1>3
    <3> QED
      BY <3>1, <3>2, ReadyStays
  <2> QED
    BY <2>5, <2>6, <2>7, <2>9, <2>10
<1> QED
  BY <1>2, <1>3 DEF OnServer

\* The steps that write the status of the row the call has made.
LEMMA UpdateKeeps ==
  ASSUME MakingInv, NEW c \in Call, NEW next \in {"created", "fail", "failed"},
         NEW new \in {"active", "failed"},
         call[c].step \in Building,
         UpdateState(c, new), GoOn(c, next), UNCHANGED server,
         new = "active" => call[c].step = "activate",
         next = "created" => call[c].step = "activate"
  PROVE  MakingInv'
<1> USE DEF MakingInv
<1>1. /\ call' \in [Call -> Progress]
      /\ \A d \in Call : call'[d].slug = call[d].slug
      /\ \A d \in Call : d # c => call'[d] = call[d]
      /\ call'[c].step = next
  BY DEF GoOn, ProvisioningTypeOK, Progress, Working, Ended
<1>2. /\ registry' \in [Slug -> Record]
      /\ \A s \in Slug : registry'[s].owner = registry[s].owner
      /\ \A s \in Slug : registry[s].owner # c => registry'[s] = registry[s]
      /\ \A s \in Slug : registry[s].owner = c => registry'[s].status = new
  <2>1. \A s \in Slug : registry[s] \in Record
    BY DEF ProvisioningTypeOK
  <2>2. registry' = [s \in Slug |-> IF registry[s].owner = c
                                    THEN [registry[s] EXCEPT !.status = new, !.setBy = "create"]
                                    ELSE registry[s]]
    BY DEF UpdateState
  <2>3. \A s \in Slug : [registry[s] EXCEPT !.status = new, !.setBy = "create"] \in Record
    BY <2>1 DEF Record
  <2> QED
    BY <2>1, <2>2, <2>3 DEF Record
<1>3. ProvisioningTypeOK'
  BY <1>1, <1>2 DEF ProvisioningTypeOK
<1>4. Owned'
  <2>1. \A d \in Call : call'[d].step \in Building => call[d].step \in Building
    BY <1>1
  <2>2. Unset \notin Call /\ \A d \in Call : call[d].slug \in Slug
    BY CallAssumption DEF ProvisioningTypeOK, Progress
  <2>3. \A s \in Slug : registry[s].owner \in Call \cup {Unset}
    BY DEF ProvisioningTypeOK, Record
  <2> QED
    BY <1>1, <1>2, <2>1, <2>2, <2>3 DEF Owned
<1>5. OwnAdmins'
  BY <1>2 DEF OwnAdmins
<1>6. Made'
  BY <1>1 DEF Made
<1>7. ActiveIsReady'
  <2> SUFFICES ASSUME NEW s \in Slug, registry'[s].status = "active",
                      registry'[s].setBy = "create"
               PROVE  Ready(s)'
    BY DEF ActiveIsReady
  <2>1. CASE registry[s].owner # c
    BY <1>2, <2>1 DEF ActiveIsReady, Ready
  <2>2. CASE registry[s].owner = c
    <3>1. call[c].slug = s
      BY <2>2, CallAssumption DEF Owned
    <3>2. call[c].step = "activate"
      BY <1>2, <2>2
    <3> QED
      BY <3>1, <3>2 DEF Made, Ready
  <2> QED
    BY <2>1, <2>2
<1> QED
  BY <1>3, <1>4, <1>5, <1>6, <1>7

LEMMA InsertKeeps ==
  ASSUME MakingInv, NEW c \in Call, InsertRow(c)
  PROVE  MakingInv'
<1> USE DEF MakingInv
<1> DEFINE S == call[c].slug
<1>0. call[c] \in Progress /\ S \in Slug /\ call[c].domain \in Domain
  BY DEF ProvisioningTypeOK, Progress
<1>1. CASE UNCHANGED <<registry, server>> /\ GoOn(c, "refused")
  <2>1. "refused" \in Working \cup Ended /\ "refused" \notin Building
    BY DEF Ended, Building
  <2> QED
    BY <1>1, <2>1, GotoKeeps
<1>2. CASE /\ IndexAllows(c)
           /\ registry' = [registry EXCEPT ![S] =
                             [status |-> "provisioning", setBy |-> "create",
                              owner |-> c, domain |-> call[c].domain]]
           /\ \/ GoOn(c, IF call[c].gone THEN "interrupted" ELSE "database")
              \/ GoOn(c, "unrecorded")
           /\ UNCHANGED server
  <2>1. registry[S].owner = Unset /\ server[S].admins = {}
    <3>1. registry[S].owner = Unset
      BY <1>0, <1>2 DEF IndexAllows, Owned
    <3>2. server[S].admins \subseteq Call
      BY <1>0 DEF ProvisioningTypeOK, Database
    <3> QED
      BY <1>0, <3>1, <3>2, CallAssumption DEF OwnAdmins
  <2>2. /\ registry'[S].owner = c /\ registry'[S].status = "provisioning"
        /\ \A s \in Slug \ {S} : registry'[s] = registry[s]
        /\ registry' \in [Slug -> Record]
    BY <1>0, <1>2 DEF ProvisioningTypeOK, Record
  <2>3. /\ call' \in [Call -> Progress]
        /\ \A d \in Call : call'[d].slug = call[d].slug
        /\ \A d \in Call : d # c => call'[d] = call[d]
        /\ call'[c].step \in {"interrupted", "database", "unrecorded"}
    BY <1>2 DEF GoOn, ProvisioningTypeOK, Progress, Working, Ended
  <2>4. ProvisioningTypeOK'
    BY <1>2, <2>2, <2>3 DEF ProvisioningTypeOK
  <2>5. Owned'
    <3>1. \A d \in Call : d # c /\ call[d].step \in Building => call[d].slug # S
      BY <2>1, CallAssumption DEF Owned
    <3>2. Unset \notin Call /\ \A d \in Call : call[d].slug \in Slug
      BY CallAssumption DEF ProvisioningTypeOK, Progress
    <3>3. \A s \in Slug : registry[s].owner \in Call \cup {Unset}
      BY DEF ProvisioningTypeOK, Record
    <3> QED
      BY <1>0, <2>2, <2>3, <3>1, <3>2, <3>3 DEF Owned
  <2>6. OwnAdmins'
    BY <1>2, <2>1, <2>2 DEF OwnAdmins
  <2>7. Made'
    BY <1>2, <2>3 DEF Made
  <2>8. ActiveIsReady'
    BY <1>2, <2>2 DEF ActiveIsReady, Ready
  <2> QED
    BY <2>4, <2>5, <2>6, <2>7, <2>8
<1> QED
  BY <1>1, <1>2 DEF InsertRow

LEMMA MigrateKeeps ==
  ASSUME MakingInv, NEW c \in Call, Migrate(c)
  PROVE  MakingInv'
<1> USE DEF MakingInv
<1> DEFINE S == call[c].slug
<1>0. S \in Slug /\ server[S] \in Database
  BY DEF ProvisioningTypeOK, Progress
<1>1. call[c].step = "migrate"
  BY DEF Migrate, OnServer
<1>2. registry[S].owner = c
  BY <1>1 DEF Owned, Building
<1>3. CASE OnServer(c, "migrate", [Mine(c) EXCEPT !.schema = "full"])
  <2> DEFINE effect == [Mine(c) EXCEPT !.schema = "full"]
  <2>1. effect \in Database /\ effect.schema = "full"
          /\ effect.admins = Mine(c).admins
    BY <1>0 DEF Mine, Database
  <2>2. effect.admins \subseteq {c}
    BY <1>0, <1>2, <2>1 DEF OwnAdmins, Mine
  <2>3. OnServer(c, "migrate", effect)
    BY <1>3
  <2> HIDE DEF effect
  <2> QED
    BY <2>1, <2>2, <2>3, OnServerKeeps
<1>4. CASE /\ Mine(c).schema = "none"
           /\ server' = [server EXCEPT ![S].schema = "part"]
           /\ GoOn(c, "fail")
           /\ UNCHANGED registry
  <2>1. /\ call' \in [Call -> Progress]
        /\ \A d \in Call : call'[d].slug = call[d].slug
        /\ \A d \in Call : d # c => call'[d] = call[d]
        /\ call'[c].step = "fail"
    BY <1>4 DEF GoOn, ProvisioningTypeOK, Progress, Working
  <2>2. /\ server' \in [Slug -> Database]
        /\ \A s \in Slug : server'[s].admins = server[s].admins
        /\ \A s \in Slug : server[s].schema = "full" => server'[s] = server[s]
    BY <1>0, <1>4 DEF ProvisioningTypeOK, Database, Mine
  <2>3. ProvisioningTypeOK'
    BY <1>4, <2>1, <2>2 DEF ProvisioningTypeOK
  <2>4. Owned'
    <3>1. \A d \in Call : call'[d].step \in Building => call[d].step \in Building
      BY <1>1, <2>1 DEF Building
    <3> QED
      BY <1>4, <2>1, <3>1 DEF Owned, ProvisioningTypeOK, Record
  <2>5. OwnAdmins'
    BY <1>4, <2>2 DEF OwnAdmins
  <2>6. Made'
    <3>1. \A d \in Call : call[d].slug \in Slug
      BY DEF ProvisioningTypeOK, Progress
    <3> QED
      BY <2>1, <2>2, <3>1 DEF Made
  <2>7. ActiveIsReady'
    BY <1>4, <2>2 DEF ActiveIsReady, Ready
  <2> QED
    BY <2>3, <2>4, <2>5, <2>6, <2>7
<1> QED
  BY <1>3, <1>4 DEF Migrate
LEMMA BootstrapKeeps ==
  ASSUME MakingInv, NEW c \in Call, Bootstrap(c)
  PROVE  MakingInv'
<1> USE DEF MakingInv
<1> DEFINE S == call[c].slug
           effect == [Mine(c) EXCEPT !.admins = IF @ = {} THEN {c} ELSE @]
<1>0. S \in Slug /\ server[S] \in Database /\ call[c].step = "bootstrap"
  BY DEF Bootstrap, OnServer, ProvisioningTypeOK, Progress
<1>1. server[S].admins \subseteq {c}
  BY <1>0 DEF OwnAdmins, Owned, Building
<1>2. /\ effect \in Database
      /\ effect.schema = Mine(c).schema
      /\ effect.admins = {c}
  BY <1>0, <1>1 DEF Mine, Database
<1>3. Mine(c).admins \subseteq effect.admins
  BY <1>1, <1>2 DEF Mine
<1>4. OnServer(c, "bootstrap", effect)
  BY DEF Bootstrap
<1> HIDE DEF effect
<1> QED
  BY <1>2, <1>3, <1>4, OnServerKeeps

LEMMA MakeDatabaseKeeps ==
  ASSUME MakingInv, NEW c \in Call, CreateDatabase(c) \/ CreateAccount(c)
  PROVE  MakingInv'
<1> USE DEF MakingInv
<1> DEFINE S == call[c].slug
           made == [Mine(c) EXCEPT !.made = TRUE]
           granted == [Mine(c) EXCEPT !.granted = @ \cup {c}]
<1>0. S \in Slug /\ server[S] \in Database /\ call[c].step \in Building
  BY DEF CreateDatabase, CreateAccount, OnServer, ProvisioningTypeOK, Progress, Building
<1>1. Mine(c).admins \subseteq {c}
  BY <1>0 DEF OwnAdmins, Owned, Mine
<1>2. /\ made \in Database /\ granted \in Database
      /\ made.schema = Mine(c).schema /\ made.admins = Mine(c).admins
      /\ granted.schema = Mine(c).schema /\ granted.admins = Mine(c).admins
  BY <1>0 DEF Mine, Database
<1>3. OnServer(c, "database", made) \/ OnServer(c, "account", granted)
  BY DEF CreateDatabase, CreateAccount
<1> HIDE DEF made, granted
<1>4. CASE OnServer(c, "database", made)
  BY <1>1, <1>2, <1>4, OnServerKeeps
<1>5. CASE OnServer(c, "account", granted)
  BY <1>1, <1>2, <1>5, OnServerKeeps
<1> QED
  BY <1>3, <1>4, <1>5

\* Steps that only move a call on: the service's own reads, and the faults.
LEMMA MoveKeeps ==
  ASSUME MakingInv, NEW c \in Call,
         BeginCreate(c) \/ Check(c) \/ Open(c) \/ Crash(c)
  PROVE  MakingInv'
<1> USE DEF MakingInv
<1>1. CASE BeginCreate(c)
  <2>1. "check" \in Working /\ "check" \notin Building
    BY DEF Working, Building
  <2> QED
    BY <1>1, <2>1, GotoKeeps DEF BeginCreate
<1>2. CASE Check(c)
  <2>1. PICK step \in {"insert", "refused"} : GoOn(c, step)
    BY <1>2 DEF Check
  <2>2. step \in Working \cup Ended /\ step \notin Building
    BY DEF Working, Ended, Building
  <2>3. UNCHANGED <<registry, server>>
    BY <1>2 DEF Check
  <2> QED
    BY <2>1, <2>2, <2>3, GotoKeeps DEF Building
<1>3. CASE Open(c)
  <2>1. PICK step \in {"migrate", "fail"} : GoOn(c, step)
    BY <1>3 DEF Open, After
  <2>2. step \in Working \cup Ended
    BY DEF Working
  <2>3. UNCHANGED <<registry, server>> /\ call[c].step \in Building
    BY <1>3 DEF Open, Building
  <2> QED
    BY <2>1, <2>2, <2>3, GotoKeeps
<1>4. CASE Crash(c)
  <2>1. "interrupted" \in Ended /\ "interrupted" \notin Building
    BY DEF Ended, Building
  <2> QED
    BY <1>4, <2>1, GotoKeeps DEF Crash
<1> QED
  BY <1>1, <1>2, <1>3, <1>4

LEMMA LeaveKeeps ==
  ASSUME MakingInv, NEW c \in Call, ClientLeaves(c)
  PROVE  MakingInv'
<1> USE DEF MakingInv
<1>1. /\ call' \in [Call -> Progress]
      /\ \A d \in Call : /\ call'[d].slug = call[d].slug
                         /\ call'[d].step = call[d].step
  BY DEF ClientLeaves, ProvisioningTypeOK, Progress
<1>2. UNCHANGED <<registry, server>>
  BY DEF ClientLeaves
<1>3. ProvisioningTypeOK'
  BY <1>1, <1>2 DEF ProvisioningTypeOK
<1>4. Owned'
  BY <1>1, <1>2 DEF Owned, ProvisioningTypeOK, Record
<1>5. OwnAdmins' /\ Made' /\ ActiveIsReady'
  BY <1>1, <1>2 DEF OwnAdmins, Made, ActiveIsReady, Ready
<1> QED
  BY <1>3, <1>4, <1>5

LEMMA StatusKeeps ==
  ASSUME MakingInv, NEW c \in Call, Activate(c) \/ RecordFailure(c)
  PROVE  MakingInv'
<1> USE DEF MakingInv
<1>1. CASE Activate(c)
  <2>1. call[c].step = "activate" /\ UNCHANGED server
    BY <1>1 DEF Activate
  <2>2. CASE UpdateState(c, "active") /\ GoOn(c, "created")
    BY <2>1, <2>2, UpdateKeeps DEF Building
  <2>3. CASE UpdateState(c, "active") /\ GoOn(c, "fail")
    BY <2>1, <2>3, UpdateKeeps DEF Building
  <2>4. CASE UNCHANGED registry /\ GoOn(c, "fail")
    <3>1. "fail" \in Working
      BY DEF Working
    <3> QED
      BY <2>1, <2>4, <3>1, GotoKeeps DEF Building
  <2> QED
    BY <1>1, <2>2, <2>3, <2>4 DEF Activate
<1>2. CASE RecordFailure(c)
  <2>1. call[c].step = "fail" /\ UNCHANGED server
    BY <1>2 DEF RecordFailure
  <2>2. CASE UpdateState(c, "failed") /\ GoOn(c, "failed")
    BY <2>1, <2>2, UpdateKeeps DEF Building
  <2>3. CASE UNCHANGED registry /\ \E step \in {"interrupted", "unrecorded"} : GoOn(c, step)
    <3>1. \A step \in {"interrupted", "unrecorded"} : step \in Ended /\ step \notin Building
      BY DEF Ended, Building
    <3> QED
      BY <2>1, <2>3, <3>1, GotoKeeps
  <2> QED
    BY <1>2, <2>2, <2>3 DEF RecordFailure
<1> QED
  BY <1>1, <1>2

\* What administrators do by hand.
LEMMA HandKeeps ==
  ASSUME MakingInv, NEW s \in Slug,
         \/ \E new \in {"active", "suspended"} : SetTenantState(s, new)
         \/ MigrateTenant(s)
  PROVE  MakingInv'
<1> USE DEF MakingInv
<1>0. UNCHANGED call
  BY DEF SetTenantState, MigrateTenant
<1>1. CASE \E new \in {"active", "suspended"} : SetTenantState(s, new)
  <2>1. PICK new \in {"active", "suspended"} : SetTenantState(s, new)
    BY <1>1
  <2>2. /\ registry' \in [Slug -> Record]
        /\ registry[s].status # "absent" /\ registry'[s].status # "absent"
        /\ registry'[s].setBy = "hand"
        /\ registry'[s].owner = registry[s].owner
        /\ \A t \in Slug \ {s} : registry'[t] = registry[t]
        /\ UNCHANGED server
    BY <2>1 DEF SetTenantState, ProvisioningTypeOK, Record
  <2>3. ProvisioningTypeOK'
    BY <1>0, <2>2 DEF ProvisioningTypeOK
  <2>4. Owned'
    <3>1. \A t \in Slug : /\ registry'[t].owner = registry[t].owner
                          /\ registry'[t].status = "absent" <=>
                               registry[t].status = "absent"
      BY <2>2
    <3>2. \A d \in Call : call[d].slug \in Slug
      BY DEF ProvisioningTypeOK, Progress
    <3> QED
      BY <1>0, <3>1, <3>2 DEF Owned
  <2>5. OwnAdmins' /\ Made' /\ ActiveIsReady'
    BY <1>0, <2>2 DEF OwnAdmins, Made, ActiveIsReady, Ready
  <2> QED
    BY <2>3, <2>4, <2>5
<1>2. CASE MigrateTenant(s)
  <2>1. /\ server' \in [Slug -> Database]
        /\ \A t \in Slug : server'[t].admins = server[t].admins
        /\ \A t \in Slug : server[t].schema = "full" =>
                             server'[t].schema = "full"
        /\ UNCHANGED registry
    BY <1>2 DEF MigrateTenant, ProvisioningTypeOK, Database
  <2>2. ProvisioningTypeOK' /\ Owned' /\ OwnAdmins'
    BY <1>0, <2>1 DEF ProvisioningTypeOK, Owned, OwnAdmins
  <2>3. Made'
    <3>1. \A d \in Call : call[d].slug \in Slug
      BY DEF ProvisioningTypeOK, Progress
    <3> QED
      BY <1>0, <2>1, <3>1 DEF Made
  <2>4. ActiveIsReady'
    BY <2>1 DEF ActiveIsReady, Ready
  <2> QED
    BY <2>2, <2>3, <2>4
<1> QED
  BY <1>1, <1>2

-----------------------------------------------------------------------------
\* Every reachable state satisfies the inductive invariant.
THEOREM MakingInductive == ProvisioningSpec => []MakingInv
<1>1. ProvisioningInit => MakingInv
  <2> SUFFICES ASSUME ProvisioningInit
               PROVE  MakingInv
    OBVIOUS
  <2>1. ProvisioningTypeOK
    BY DEF ProvisioningInit, ProvisioningTypeOK, Record, Database, Progress, Ended
  <2>2. \A d \in Call : call[d].step = "idle"
    BY DEF ProvisioningInit
  <2>3. Owned
    BY <2>2 DEF ProvisioningInit, Owned, Building
  <2>4. OwnAdmins /\ ActiveIsReady
    BY DEF ProvisioningInit, OwnAdmins, ActiveIsReady
  <2>5. Made
    BY <2>2 DEF Made
  <2> QED
    BY <2>1, <2>3, <2>4, <2>5 DEF MakingInv
<1>2. MakingInv /\ [ProvisioningNext]_provisioningVars => MakingInv'
  <2> SUFFICES ASSUME MakingInv, [ProvisioningNext]_provisioningVars
               PROVE  MakingInv'
    OBVIOUS
  <2>1. CASE \E c \in Call : BeginCreate(c) \/ Proceed(c) \/ ClientLeaves(c) \/ Crash(c)
    <3>1. PICK c \in Call : BeginCreate(c) \/ Proceed(c) \/ ClientLeaves(c) \/ Crash(c)
      BY <2>1
    <3>2. CASE BeginCreate(c) \/ Check(c) \/ Open(c) \/ Crash(c)
      BY <3>2, MoveKeeps
    <3>3. CASE InsertRow(c)
      BY <3>3, InsertKeeps
    <3>4. CASE CreateDatabase(c) \/ CreateAccount(c)
      BY <3>4, MakeDatabaseKeeps
    <3>5. CASE Migrate(c)
      BY <3>5, MigrateKeeps
    <3>6. CASE Bootstrap(c)
      BY <3>6, BootstrapKeeps
    <3>7. CASE Activate(c) \/ RecordFailure(c)
      BY <3>7, StatusKeeps
    <3>8. CASE ClientLeaves(c)
      BY <3>8, LeaveKeeps
    <3> QED
      BY <3>1, <3>2, <3>3, <3>4, <3>5, <3>6, <3>7, <3>8 DEF Proceed
  <2>2. CASE \E s \in Slug :
               \/ \E new \in {"active", "suspended"} : SetTenantState(s, new)
               \/ MigrateTenant(s)
    BY <2>2, HandKeeps
  <2>3. CASE UNCHANGED provisioningVars
    BY <2>3 DEF provisioningVars, MakingInv, ProvisioningTypeOK, Owned, OwnAdmins, Made,
       ActiveIsReady, Ready
  <2> QED
    BY <2>1, <2>2, <2>3 DEF ProvisioningNext
<1> QED
  BY <1>1, <1>2, PTL DEF ProvisioningSpec

\* The registry, the database server and the calls have their types in every
\* reachable state (types.go, mysql.go, service.go).
THEOREM MakingTypeCorrect == ProvisioningSpec => []ProvisioningTypeOK
<1>1. MakingInv => ProvisioningTypeOK
  BY DEF MakingInv
<1> QED
  BY <1>1, MakingInductive, PTL

\* Whatever fails, is cut off or races for a name: a tenant that provisioning
\* made active is migrated and has its administrator, and who was told a
\* password can open it (Service.Create).
THEOREM ProvisioningIsSafe == ProvisioningSpec => []ProvisionedIsReady
<1>1. MakingInv => ProvisionedIsReady
  BY DEF MakingInv, ProvisionedIsReady, PasswordOpens, Owned, Made, Building
<1> QED
  BY <1>1, MakingInductive, PTL
=============================================================================
