------------------------- MODULE AuthSession_proofs -------------------------
(***************************************************************************)
(* The session of the admin application stays in one piece in any number of *)
(* tabs, for any accounts, ranks and impersonations, until a refresh answer *)
(* is stored over another session; no request is forgotten by the queue of  *)
(* a refresh; and the administrator's own session, once set aside, is not   *)
(* replaced.  The argument: an answer that has not been used yet speaks of  *)
(* the session it was asked for, and the two keys of an impersonation come  *)
(* and go together.                                                        *)
(***************************************************************************)
EXTENDS AuthSession, TLAPS

\* An impersonation that the server has begun is one of its sessions, and a granted
\* refresh renews the session of the token that was sent.
BegunIsKnown(t, r) ==
  req[t][r].st = "begun" => /\ req[t][r].token \in AccessTokens
                            /\ req[t][r].token.ses \in Sessions

GrantedIsOwn(t) ==
  flight[t] # None /\ flight[t].answer = "granted" =>
    /\ flight[t].access \in AccessTokens
    /\ flight[t].access.acct = flight[t].sent.acct /\ flight[t].access.ses = flight[t].sent.ses

Queued(t, r) ==
  /\ req[t][r].st = "queued" <=> r \in failedQueue[t]
  /\ req[t][r].st = "refreshing" <=> (flight[t] # None /\ flight[t].by = r)

Flying(t) ==
  /\ isRefreshing[t] <=> flight[t] # None
  /\ failedQueue[t] # {} => isRefreshing[t]

TabTypes ==
  /\ req \in [Tabs -> [Reqs -> Request_]]
  /\ isRefreshing \in [Tabs -> BOOLEAN]
  /\ failedQueue \in [Tabs -> SUBSET Reqs]
  /\ flight \in [Tabs -> Flights \cup {None}]

TabOK(t) == Flying(t) /\ GrantedIsOwn(t) /\ \A r \in Reqs : Queued(t, r) /\ BegunIsKnown(t, r)

TabsOK == TabTypes /\ \A t \in Tabs : TabOK(t)

\* The keys of an impersonation come and go together, also when the tokens are mixed.
KeysTogether == store.marker # None <=> store.orig # None

StoreOK == store \in Storage /\ crossed \in BOOLEAN /\ KeysTogether /\ MixedOnlyByLateAnswer

ServerOK ==
  impersonation \in [Sessions -> Accounts \cup {None}] /\ revoked \subseteq Sessions /\ epoch \in 0..MaxEpoch

IInv == TabsOK /\ StoreOK /\ ServerOK

----------------------------------------------------------------------------
(* Tokens *)

LEMMA AccessIs ==
  ASSUME ServerOK, NEW a \in Accounts, NEW s \in NoneOrSession
  PROVE  Access(a, s) \in AccessTokens /\ Access(a, s).acct = a /\ Access(a, s).ses = s
  BY DEF ServerOK, Access, AccessTokens

LEMMA RefreshIs ==
  ASSUME NEW a \in Accounts, NEW s \in NoneOrSession
  PROVE  Refresh(a, s) \in RefreshTokens /\ Refresh(a, s).acct = a /\ Refresh(a, s).ses = s
  BY DEF Refresh, RefreshTokens

LEMMA TokenParts ==
  /\ \A x \in AccessTokens : x.acct \in Accounts /\ x.ses \in NoneOrSession
  /\ \A x \in RefreshTokens : /\ x.acct \in Accounts /\ x.ses \in NoneOrSession
                              /\ x = Refresh(x.acct, x.ses)
  BY DEF AccessTokens, RefreshTokens, Refresh

----------------------------------------------------------------------------
(* The tabs *)

\* A tab no step touches.
SameTab(t) ==
  /\ req'[t] = req[t] /\ isRefreshing'[t] = isRefreshing[t]
  /\ failedQueue'[t] = failedQueue[t] /\ flight'[t] = flight[t]

LEMMA SameTabOK ==
  ASSUME NEW t, TabOK(t), SameTab(t)
  PROVE  TabOK(t)'
  BY DEF TabOK, Flying, GrantedIsOwn, Queued, BegunIsKnown, SameTab

LEMMA StutterOfTabs ==
  ASSUME TabsOK, UNCHANGED <<req, isRefreshing, failedQueue, flight>>
  PROVE  TabsOK'
  BY SameTabOK DEF TabsOK, TabTypes, SameTab

\* One request goes on and neither joins nor leaves a refresh.
GoesOn(t, r, q) ==
  /\ req[t][r].st \notin {"queued", "refreshing"}
  /\ q \in Request_ /\ q.st \notin {"queued", "refreshing"}
  /\ q.st = "begun" => q.token \in AccessTokens /\ q.token.ses \in Sessions
  /\ req' = [req EXCEPT ![t][r] = q] /\ UNCHANGED <<isRefreshing, failedQueue, flight>>

LEMMA GoesOnKeeps ==
  ASSUME TabsOK, NEW t \in Tabs, NEW r \in Reqs, NEW q, GoesOn(t, r, q)
  PROVE  TabsOK'
  <1>1. /\ req' \in [Tabs -> [Reqs -> Request_]] /\ req'[t][r] = q
        /\ \A x \in Reqs \ {r} : req'[t][x] = req[t][x]
        /\ \A u \in Tabs \ {t} : req'[u] = req[u]
    BY DEF TabsOK, TabTypes, GoesOn
  <1>2. TabTypes'
    BY <1>1 DEF TabsOK, TabTypes, GoesOn
  <1>3. TabOK(t)'
    <2>1. Flying(t)' /\ GrantedIsOwn(t)'
      BY DEF TabsOK, TabOK, Flying, GrantedIsOwn, GoesOn
    <2>2. Queued(t, r)' /\ BegunIsKnown(t, r)'
      BY <1>1 DEF TabsOK, TabOK, Queued, BegunIsKnown, GoesOn
    <2>3. ASSUME NEW x \in Reqs \ {r} PROVE Queued(t, x)' /\ BegunIsKnown(t, x)'
      BY <1>1 DEF TabsOK, TabOK, Queued, BegunIsKnown, GoesOn
    <2> QED BY <2>1, <2>2, <2>3 DEF TabOK
  <1>4. ASSUME NEW u \in Tabs \ {t} PROVE TabOK(u)'
    BY <1>1, SameTabOK DEF TabsOK, SameTab, GoesOn
  <1> QED BY <1>2, <1>3, <1>4 DEF TabsOK

\* The requests in "rs" end the wait for a refresh, and the refresh is over.
Over(t, rs) ==
  /\ req' \in [Tabs -> [Reqs -> Request_]]
  /\ \A r \in rs : req'[t][r].st \notin {"queued", "refreshing", "begun"}
  /\ \A r \in Reqs \ rs : req'[t][r] = req[t][r]
  /\ \A u \in Tabs \ {t} : req'[u] = req[u]
  /\ isRefreshing' = [isRefreshing EXCEPT ![t] = FALSE]
  /\ failedQueue' = [failedQueue EXCEPT ![t] = {}]
  /\ flight' = [flight EXCEPT ![t] = None]

LEMMA OverKeeps ==
  ASSUME TabsOK, NEW t \in Tabs, NEW rs \in SUBSET Reqs, Over(t, rs),
         \A r \in Reqs \ rs : req[t][r].st \notin {"queued", "refreshing"}
  PROVE  TabsOK'
  <1>1. /\ isRefreshing' \in [Tabs -> BOOLEAN] /\ failedQueue' \in [Tabs -> SUBSET Reqs]
        /\ flight' \in [Tabs -> Flights \cup {None}]
        /\ isRefreshing'[t] = FALSE /\ failedQueue'[t] = {} /\ flight'[t] = None
        /\ \A u \in Tabs \ {t} : SameTab(u)
    BY DEF TabsOK, TabTypes, Over, SameTab
  <1>2. TabTypes'
    BY <1>1 DEF TabTypes, Over
  <1>3. TabOK(t)'
    <2>1. Flying(t)' /\ GrantedIsOwn(t)'
      BY <1>1 DEF Flying, GrantedIsOwn
    <2>2. ASSUME NEW r \in Reqs PROVE Queued(t, r)' /\ BegunIsKnown(t, r)'
      <3>1. CASE r \in rs
        BY <1>1, <3>1 DEF Over, Queued, BegunIsKnown
      <3>2. CASE r \notin rs
        <4>1. req'[t][r] = req[t][r] /\ req[t][r].st \notin {"queued", "refreshing"}
          BY <3>2 DEF Over
        <4>2. BegunIsKnown(t, r)
          BY DEF TabsOK, TabOK
        <4> QED BY <1>1, <4>1, <4>2 DEF Queued, BegunIsKnown
      <3> QED BY <3>1, <3>2
    <2> QED BY <2>1, <2>2 DEF TabOK
  <1>4. ASSUME NEW u \in Tabs \ {t} PROVE TabOK(u)'
    BY <1>1, SameTabOK DEF TabsOK
  <1> QED BY <1>2, <1>3, <1>4 DEF TabsOK

LEMMA IdleIs == Idle \in Request_ /\ Idle.st = "idle"
  BY DEF Idle, Request_, RequestStates, Kinds

LEMMA SettledIs ==
  ASSUME NEW q
  PROVE  Settled(q) \in Request_ /\ Settled(q).st \in {"idle", "settled"}
  BY DEF Settled, Idle, Request_, RequestStates, Kinds

LEMMA ReloadKeeps ==
  ASSUME TabsOK, NEW t \in Tabs, Reload(t)
  PROVE  TabsOK'
  <1>1. Over(t, Reqs)
    BY IdleIs DEF TabsOK, TabTypes, Reload, Over
  <1> QED BY <1>1, OverKeeps

\* The requests of a tab that are released or rejected when its refresh ends.
LEMMA WaitingIs ==
  ASSUME TabsOK, NEW t \in Tabs, flight[t] # None
  PROVE  /\ Waiting(t) \subseteq Reqs
         /\ \A r \in Reqs \ Waiting(t) : req[t][r].st \notin {"queued", "refreshing"}
         /\ flight[t] \in Flights
  BY DEF TabsOK, TabTypes, TabOK, Queued, Waiting, Flights

LEMMA GrantedKeeps ==
  ASSUME TabsOK, NEW t \in Tabs, RefreshGranted(t)
  PROVE  TabsOK'
  <1> DEFINE rs == Waiting(t)
             token == flight[t].access
             line == [r \in Reqs |-> IF r \in rs THEN [req[t][r] EXCEPT !.st = "sent", !.token = token]
                                                 ELSE req[t][r]]
  <1>1. flight[t] # None /\ req[t] \in [Reqs -> Request_] /\ req \in [Tabs -> [Reqs -> Request_]]
    BY DEF RefreshGranted, TabsOK, TabTypes
  <1>2. token \in AccessTokens \cup {None}
    BY <1>1, WaitingIs DEF Flights
  <1>3. req' = [req EXCEPT ![t] = line]
    BY <1>1 DEF RefreshGranted
  <1>4. ASSUME NEW r \in Reqs
        PROVE  line[r] \in Request_ /\ (r \in rs => line[r].st = "sent") /\ (r \notin rs => line[r] = req[t][r])
    <2>1. [req[t][r] EXCEPT !.st = "sent", !.token = token] \in Request_
      BY <1>1, <1>2 DEF Request_, RequestStates
    <2>2. [req[t][r] EXCEPT !.st = "sent", !.token = token].st = "sent"
      BY <1>1 DEF Request_
    <2> QED BY <1>1, <2>1, <2>2
  <1>5. line \in [Reqs -> Request_]
    BY <1>4
  <1> HIDE DEF line, rs, token
  <1>6. /\ req' \in [Tabs -> [Reqs -> Request_]] /\ req'[t] = line
        /\ \A u \in Tabs \ {t} : req'[u] = req[u]
    BY <1>1, <1>3, <1>5
  <1>7. rs \subseteq Reqs
    BY <1>1, WaitingIs DEF rs
  <1>8. Over(t, rs)
    BY <1>4, <1>6, <1>7 DEF RefreshGranted, Over
  <1> QED BY <1>1, <1>8, WaitingIs, OverKeeps DEF rs

LEMMA RejectIs ==
  ASSUME TabTypes, NEW t \in Tabs, NEW rs \in SUBSET Reqs, req' = Reject(t, rs)
  PROVE  /\ req' \in [Tabs -> [Reqs -> Request_]]
         /\ \A r \in rs : req'[t][r] = Settled(req[t][r])
         /\ \A r \in Reqs \ rs : req'[t][r] = req[t][r]
         /\ \A u \in Tabs \ {t} : req'[u] = req[u]
  <1> DEFINE line == [r \in Reqs |-> IF r \in rs THEN Settled(req[t][r]) ELSE req[t][r]]
  <1>1. line \in [Reqs -> Request_]
    BY SettledIs DEF TabTypes
  <1>2. /\ \A r \in rs : line[r] = Settled(req[t][r])
        /\ \A r \in Reqs \ rs : line[r] = req[t][r]
    OBVIOUS
  <1>3. req' = [req EXCEPT ![t] = line]
    BY DEF Reject
  <1> HIDE DEF line
  <1> QED BY <1>1, <1>2, <1>3 DEF TabTypes

LEMMA RefusedOutKeeps ==
  ASSUME TabsOK, NEW t \in Tabs, RefreshRefusedOut(t)
  PROVE  TabsOK'
  <1>1. flight[t] # None /\ req' = Reject(t, Waiting(t))
    BY DEF RefreshRefusedOut
  <1>2. Over(t, Waiting(t))
    BY <1>1, WaitingIs, RejectIs, SettledIs DEF TabsOK, RefreshRefusedOut, Over
  <1> QED BY <1>1, <1>2, WaitingIs, OverKeeps

LEMMA EnqueueKeeps ==
  ASSUME TabsOK, NEW t \in Tabs, NEW r \in Reqs, Enqueue(t, r)
  PROVE  TabsOK'
  <1>1. /\ req[t][r] \in Request_ /\ req[t][r].st = "unauthorized" /\ isRefreshing[t]
        /\ req' = [req EXCEPT ![t][r].st = "queued"]
        /\ failedQueue' = [failedQueue EXCEPT ![t] = @ \cup {r}]
        /\ UNCHANGED <<isRefreshing, flight>>
    BY DEF TabsOK, TabTypes, Enqueue
  <1>2. /\ [req[t][r] EXCEPT !.st = "queued"] \in Request_
        /\ [req[t][r] EXCEPT !.st = "queued"].st = "queued"
    BY <1>1 DEF Request_, RequestStates
  <1>3. /\ req' \in [Tabs -> [Reqs -> Request_]] /\ req'[t][r].st = "queued"
        /\ \A x \in Reqs \ {r} : req'[t][x] = req[t][x]
        /\ \A u \in Tabs \ {t} : req'[u] = req[u]
    BY <1>1, <1>2 DEF TabsOK, TabTypes
  <1>4. /\ failedQueue' \in [Tabs -> SUBSET Reqs] /\ failedQueue'[t] = failedQueue[t] \cup {r}
        /\ \A u \in Tabs \ {t} : SameTab(u)
    BY <1>1, <1>3 DEF TabsOK, TabTypes, SameTab
  <1>5. TabTypes'
    BY <1>1, <1>3, <1>4 DEF TabsOK, TabTypes
  <1>6. TabOK(t)'
    <2>1. Flying(t)' /\ GrantedIsOwn(t)'
      BY <1>1 DEF TabsOK, TabOK, Flying, GrantedIsOwn
    <2>2. Queued(t, r)' /\ BegunIsKnown(t, r)'
      BY <1>1, <1>3, <1>4 DEF TabsOK, TabOK, Queued, BegunIsKnown
    <2>3. ASSUME NEW x \in Reqs \ {r} PROVE Queued(t, x)' /\ BegunIsKnown(t, x)'
      BY <1>1, <1>3, <1>4 DEF TabsOK, TabOK, Queued, BegunIsKnown
    <2> QED BY <2>1, <2>2, <2>3 DEF TabOK
  <1>7. ASSUME NEW u \in Tabs \ {t} PROVE TabOK(u)'
    BY <1>4, SameTabOK DEF TabsOK
  <1> QED BY <1>5, <1>6, <1>7 DEF TabsOK

LEMMA StartRefreshKeeps ==
  ASSUME TabsOK, StoreOK, NEW t \in Tabs, NEW r \in Reqs, StartRefresh(t, r)
  PROVE  TabsOK'
  <1> DEFINE f == [by |-> r, sent |-> store.refresh, answer |-> "none", access |-> None]
  <1>1. /\ req[t][r] \in Request_ /\ req[t][r].st = "unauthorized" /\ ~isRefreshing[t]
        /\ req' = [req EXCEPT ![t][r].st = "refreshing", ![t][r].retried = TRUE]
        /\ isRefreshing' = [isRefreshing EXCEPT ![t] = TRUE]
        /\ flight' = [flight EXCEPT ![t] = f]
        /\ UNCHANGED failedQueue
    BY DEF TabsOK, TabTypes, StartRefresh
  <1>2. store.refresh \in RefreshTokens
    BY DEF StoreOK, Storage, StartRefresh
  <1>3. f \in Flights /\ f # None /\ f.by = r /\ f.answer = "none"
    BY <1>2, NoneAssumption DEF Flights
  <1> HIDE DEF f
  <1> DEFINE q == [req[t][r] EXCEPT !.st = "refreshing", !.retried = TRUE]
  <1>4. q \in Request_ /\ q.st = "refreshing"
    BY <1>1 DEF Request_, RequestStates
  <1>5. req' = [req EXCEPT ![t][r] = q]
    BY <1>1 DEF TabsOK, TabTypes
  <1> HIDE DEF q
  <1>6. /\ req' \in [Tabs -> [Reqs -> Request_]] /\ req'[t][r].st = "refreshing"
        /\ \A x \in Reqs \ {r} : req'[t][x] = req[t][x]
        /\ \A u \in Tabs \ {t} : req'[u] = req[u]
    BY <1>4, <1>5 DEF TabsOK, TabTypes
  <1>7. /\ isRefreshing' \in [Tabs -> BOOLEAN] /\ isRefreshing'[t] = TRUE
        /\ flight' \in [Tabs -> Flights \cup {None}] /\ flight'[t] = f
        /\ \A u \in Tabs \ {t} : SameTab(u)
    BY <1>1, <1>3, <1>6 DEF TabsOK, TabTypes, SameTab
  <1>8. TabTypes'
    BY <1>1, <1>6, <1>7 DEF TabsOK, TabTypes
  <1>9. TabOK(t)'
    <2>1. flight[t] = None /\ Flying(t)' /\ GrantedIsOwn(t)'
      BY <1>1, <1>3, <1>7 DEF TabsOK, TabOK, Flying, GrantedIsOwn
    <2>2. Queued(t, r)' /\ BegunIsKnown(t, r)'
      BY <1>1, <1>3, <1>6, <1>7 DEF TabsOK, TabOK, Queued, BegunIsKnown
    <2>3. ASSUME NEW x \in Reqs \ {r} PROVE Queued(t, x)' /\ BegunIsKnown(t, x)'
      BY <1>1, <1>3, <1>6, <1>7, <2>1 DEF TabsOK, TabOK, Queued, BegunIsKnown
    <2> QED BY <2>1, <2>2, <2>3 DEF TabOK
  <1>10. ASSUME NEW u \in Tabs \ {t} PROVE TabOK(u)'
    BY <1>7, SameTabOK DEF TabsOK
  <1> QED BY <1>8, <1>9, <1>10 DEF TabsOK

LEMMA ServeRefreshKeeps ==
  ASSUME TabsOK, ServerOK, NEW t \in Tabs, NEW granted \in BOOLEAN, ServeRefresh(t, granted)
  PROVE  TabsOK'
  <1> DEFINE f == [flight[t] EXCEPT
                     !.answer = IF granted THEN "granted" ELSE "refused",
                     !.access = IF granted THEN Access(flight[t].sent.acct, flight[t].sent.ses) ELSE None]
  <1>1. flight[t] # None /\ flight[t] \in Flights /\ UNCHANGED <<req, isRefreshing, failedQueue>>
    BY DEF TabsOK, TabTypes, ServeRefresh
  <1>2. flight' = [flight EXCEPT ![t] = f]
    BY DEF ServeRefresh, TabsOK, TabTypes
  <1>3. flight[t].sent.acct \in Accounts /\ flight[t].sent.ses \in NoneOrSession
    BY <1>1, TokenParts DEF Flights
  <1>4. /\ f \in Flights /\ f.by = flight[t].by /\ f.sent = flight[t].sent
        /\ f.answer = "granted" => f.access = Access(flight[t].sent.acct, flight[t].sent.ses)
    BY <1>1, <1>3, AccessIs DEF Flights
  <1> HIDE DEF f
  <1>5. f # None
    BY <1>4, NoneAssumption
  <1>6. /\ flight' \in [Tabs -> Flights \cup {None}] /\ flight'[t] = f
        /\ \A u \in Tabs \ {t} : SameTab(u)
    BY <1>1, <1>2, <1>4 DEF TabsOK, TabTypes, SameTab
  <1>7. TabTypes'
    BY <1>1, <1>6 DEF TabsOK, TabTypes
  <1>8. TabOK(t)'
    <2>1. Flying(t)'
      BY <1>1, <1>5, <1>6 DEF TabsOK, TabOK, Flying
    <2>2. GrantedIsOwn(t)'
      BY <1>3, <1>4, <1>6, AccessIs DEF GrantedIsOwn
    <2>3. ASSUME NEW r \in Reqs PROVE Queued(t, r)' /\ BegunIsKnown(t, r)'
      BY <1>1, <1>4, <1>5, <1>6 DEF TabsOK, TabOK, Queued, BegunIsKnown
    <2> QED BY <2>1, <2>2, <2>3 DEF TabOK
  <1>9. ASSUME NEW u \in Tabs \ {t} PROVE TabOK(u)'
    BY <1>6, SameTabOK DEF TabsOK
  <1> QED BY <1>7, <1>8, <1>9 DEF TabsOK

LEMMA ServeKeeps ==
  ASSUME TabsOK, StoreOK, ServerOK, NEW t \in Tabs, NEW r \in Reqs, Serve(t, r)
  PROVE  TabsOK'
  <1> DEFINE q == req[t][r]
  <1>1. q \in Request_
    BY DEF TabsOK, TabTypes
  <1>2. CASE ServeCall(t, r)
    <2>1. GoesOn(t, r, Idle)
      BY <1>2, IdleIs DEF ServeCall, Answer, GoesOn
    <2> QED BY <2>1, GoesOnKeeps
  <1>3. CASE ServeStop(t, r) \/ ServeError(t, r)
    <2>1. GoesOn(t, r, Settled(q))
      BY <1>3, SettledIs DEF ServeStop, ServeError, Answer, GoesOn
    <2> QED BY <2>1, GoesOnKeeps
  <1>4. ASSUME NEW s \in Sessions, NEW target \in Accounts, ServeImpersonate(t, r, s, target)
        PROVE  TabsOK'
    <2> DEFINE p == [q EXCEPT !.st = "begun", !.token = Access(target, s), !.retried = FALSE]
    <2>1. Access(target, s) \in AccessTokens /\ Access(target, s).ses = s
      BY AccessIs DEF NoneOrSession
    <2>2. p \in Request_ /\ p.st = "begun" /\ p.token = Access(target, s)
      BY <1>1, <2>1 DEF Request_, RequestStates
    <2>3. q.st = "sent" /\ req' = [req EXCEPT ![t][r] = p] /\ UNCHANGED <<isRefreshing, failedQueue, flight>>
      BY <1>4 DEF ServeImpersonate, Answer
    <2> HIDE DEF p
    <2>4. GoesOn(t, r, p)
      BY <2>1, <2>2, <2>3 DEF GoesOn
    <2> QED BY <2>4, GoesOnKeeps
  <1>5. CASE ServeUnauthorized(t, r)
    <2> DEFINE p == [q EXCEPT !.st = "unauthorized", !.token = None]
    <2>1. p \in Request_ /\ p.st = "unauthorized"
      BY <1>1 DEF Request_, RequestStates
    <2>2. q.st = "sent" /\ req' = [req EXCEPT ![t][r] = p] /\ UNCHANGED <<isRefreshing, failedQueue, flight>>
      BY <1>5 DEF ServeUnauthorized, Answer
    <2> HIDE DEF p
    <2>3. GoesOn(t, r, p)
      BY <2>1, <2>2 DEF GoesOn
    <2> QED BY <2>3, GoesOnKeeps
  <1> QED BY <1>2, <1>3, <1>4, <1>5 DEF Serve

LEMMA HandleKeeps ==
  ASSUME TabsOK, StoreOK, NEW t \in Tabs, NEW r \in Reqs, Handle(t, r)
  PROVE  TabsOK'
  <1>1. CASE GiveUp(t, r)
    <2>1. req[t][r].st = "unauthorized" /\ UNCHANGED <<isRefreshing, failedQueue, flight>>
      BY <1>1 DEF GiveUp
    <2>2. req' = Reject(t, {r})
      BY <1>1 DEF GiveUp
    <2>3. req' = [req EXCEPT ![t][r] = Settled(req[t][r])]
      BY <2>2 DEF Reject, TabsOK, TabTypes
    <2>4. GoesOn(t, r, Settled(req[t][r]))
      BY <2>1, <2>3, SettledIs DEF GoesOn
    <2> QED BY <2>4, GoesOnKeeps
  <1>2. CASE Enqueue(t, r)
    BY <1>2, EnqueueKeeps
  <1>3. CASE StartRefresh(t, r)
    BY <1>3, StartRefreshKeeps
  <1>4. CASE BeginImpersonation(t, r) \/ StopImpersonation(t, r)
    BY <1>4, ReloadKeeps DEF BeginImpersonation, StopImpersonation
  <1>5. CASE BeginImpersonationFails(t, r) \/ StopImpersonationFails(t, r)
    <2>1. GoesOn(t, r, Idle)
      BY <1>5, IdleIs DEF BeginImpersonationFails, StopImpersonationFails, GoesOn
    <2> QED BY <2>1, GoesOnKeeps
  <1> QED BY <1>1, <1>2, <1>3, <1>4, <1>5 DEF Handle

LEMMA IssueKeeps ==
  ASSUME TabsOK, StoreOK, NEW t \in Tabs, NEW r \in Reqs, NEW kind \in Kinds, Issue(t, r, kind)
  PROVE  TabsOK'
  <1>1. Request(kind) \in Request_ /\ Request(kind).st = "sent"
    BY DEF Request, Request_, RequestStates, StoreOK, Storage
  <1>2. GoesOn(t, r, Request(kind))
    BY <1>1 DEF Issue, GoesOn
  <1> QED BY <1>2, GoesOnKeeps

----------------------------------------------------------------------------
(* The session in localStorage *)

\* Every way the session is replaced: by a login, a logout, the session set aside, an
\* impersonation, and the answer of a refresh.
Renewed(t) ==
  /\ store' = [store EXCEPT !.access = flight[t].access, !.refresh = flight[t].sent]
  /\ crossed' = (crossed \/ flight[t].sent # store.refresh)

Replaced ==
  \/ UNCHANGED <<store, crossed>>
  \/ /\ UNCHANGED crossed
     /\ \/ \E a \in Accounts : store' = SignedIn(a)
        \/ store' = SignedOut
        \/ CanRestore /\ store' = Restored
        \/ \E t \in Tabs, r \in Reqs : /\ req[t][r].st = "begun" /\ CanBegin
                                       /\ store' = Impersonating(req[t][r].token.ses, req[t][r].token)
  \/ \E t \in Tabs : flight[t] # None /\ flight[t].answer = "granted" /\ Renewed(t)

LEMMA OnlyReplaced == ASSUME Next PROVE Replaced
  <1>1. CASE User
    BY <1>1, SessionAssumption DEF User, Login, Logout, OpenDesk, Issue, Replaced
  <1>2. ASSUME NEW t \in Tabs, FinishRefresh(t) \/ \E granted \in BOOLEAN : ServeRefresh(t, granted)
        PROVE  Replaced
    BY <1>2 DEF FinishRefresh, RefreshGranted, RefreshRefusedBack, RefreshRefusedOut, ServeRefresh,
                Renewed, Replaced
  <1>3. ASSUME NEW t \in Tabs, NEW r \in Reqs, Serve(t, r) PROVE Replaced
    BY <1>3 DEF Serve, ServeCall, ServeStop, ServeUnauthorized, ServeError, ServeImpersonate, Answer, Replaced
  <1>4. ASSUME NEW t \in Tabs, NEW r \in Reqs, Handle(t, r) PROVE Replaced
    BY <1>4 DEF Handle, GiveUp, Enqueue, StartRefresh, BeginImpersonation, BeginImpersonationFails,
                StopImpersonation, StopImpersonationFails, Replaced
  <1>5. CASE Expire
    BY <1>5 DEF Expire, Replaced
  <1> QED BY <1>1, <1>2, <1>3, <1>4, <1>5 DEF Next

LEMMA SignedOutIs == SignedOut \in Storage /\ SignedOut.marker = None /\ SignedOut.orig = None
  BY DEF SignedOut, Storage, NoneOrSession

\* A session set aside, put back, or begun, piece by piece.
Pieces(s, access, refresh, user, marker, orig) ==
  /\ s.access = access /\ s.refresh = refresh /\ s.user = user /\ s.marker = marker /\ s.orig = orig
  /\ s \in Storage

LEMMA SignedInIs ==
  ASSUME ServerOK, NEW a \in Accounts
  PROVE  Pieces(SignedIn(a), Access(a, None), Refresh(a, None), a, None, None)
  BY AccessIs, RefreshIs DEF SignedIn, SignedOut, Storage, NoneOrSession, Pieces

LEMMA RestoredIs ==
  ASSUME StoreOK, CanRestore
  PROVE  Pieces(Restored, store.orig.access, store.orig.refresh, store.orig.user, None, None)
  <1>1. store.orig \in Original
    BY DEF StoreOK, Storage, CanRestore
  <1>2. /\ store.orig.access \in AccessTokens /\ store.orig.refresh \in RefreshTokens
        /\ store.orig.user \in Accounts
    BY <1>1 DEF Original
  <1> QED BY <1>2 DEF Restored, SignedOut, Storage, NoneOrSession, Pieces

SetAside == [access |-> store.access, refresh |-> store.refresh, user |-> store.user]

LEMMA ImpersonatingIs ==
  ASSUME StoreOK, CanBegin, NEW x \in AccessTokens, x.ses \in Sessions
  PROVE  /\ Pieces(Impersonating(x.ses, x), x, Refresh(x.acct, x.ses), x.acct, x.ses,
                   IF store.marker # None THEN store.orig ELSE SetAside)
         /\ x.ses # None
         /\ store.marker = None => SetAside \in Original /\ SetAside # None
  <1> DEFINE kept == IF store.marker # None THEN store.orig ELSE SetAside
  <1>1. x.acct \in Accounts /\ x.ses \in NoneOrSession /\ Refresh(x.acct, x.ses) \in RefreshTokens
    BY TokenParts, RefreshIs
  <1>2. store.marker = None => SetAside \in Original
    BY DEF StoreOK, Storage, CanBegin, Original, SetAside
  <1>3. SetAside \in Original => SetAside # None
    BY NoneAssumption
  <1>4. kept \in Original \cup {None}
    BY <1>2 DEF StoreOK, Storage
  <1>5. Impersonating(x.ses, x) = [access |-> x, refresh |-> Refresh(x.acct, x.ses), user |-> x.acct,
                                   marker |-> x.ses, orig |-> kept]
    BY DEF Impersonating, SetAside
  <1> HIDE DEF kept
  <1>6. Pieces(Impersonating(x.ses, x), x, Refresh(x.acct, x.ses), x.acct, x.ses, kept)
    BY <1>1, <1>4, <1>5 DEF Storage, Pieces
  <1> QED BY <1>2, <1>3, <1>6, SessionAssumption DEF kept

\* What one session means, for any record of the storage.
Whole(s) ==
  /\ \/ s.access = None /\ s = SignedOut
     \/ s.refresh = Refresh(s.access.acct, s.access.ses) /\ s.user = s.access.acct /\ s.marker = s.access.ses
  /\ s.orig # None => /\ s.orig.refresh = Refresh(s.orig.access.acct, None)
                      /\ s.orig.user = s.orig.access.acct
                      /\ s.orig.access.ses = None
  /\ s.marker # None <=> s.orig # None

LEMMA StoreStep ==
  ASSUME TabsOK, StoreOK, ServerOK, Replaced
  PROVE  StoreOK'
  <1> USE SessionAssumption
  <1>1. CASE UNCHANGED <<store, crossed>>
    BY <1>1 DEF StoreOK, KeysTogether, MixedOnlyByLateAnswer, OneSession, SignedOut
  <1>2. ~crossed => Whole(store)
    BY DEF StoreOK, MixedOnlyByLateAnswer, OneSession, Whole
  <1>3. ASSUME NEW s, store' = s, s \in Storage, UNCHANGED crossed, s.marker # None <=> s.orig # None,
               ~crossed => Whole(s)
        PROVE  StoreOK'
    BY <1>3 DEF StoreOK, KeysTogether, MixedOnlyByLateAnswer, OneSession, Whole, SignedOut
  <1>4. ASSUME NEW a \in Accounts, store' = SignedIn(a), UNCHANGED crossed PROVE StoreOK'
    <2>1. Whole(SignedIn(a))
      BY SignedInIs, AccessIs DEF Whole, Pieces, NoneOrSession
    <2> QED BY <1>3, <1>4, <2>1, SignedInIs DEF Pieces
  <1>5. CASE store' = SignedOut /\ UNCHANGED crossed
    <2>1. Whole(SignedOut)
      BY SignedOutIs DEF Whole, SignedOut
    <2> QED BY <1>3, <1>5, <2>1, SignedOutIs
  <1>6. CASE CanRestore /\ store' = Restored /\ UNCHANGED crossed
    <2>1. ~crossed => Whole(Restored)
      BY <1>2, <1>6, RestoredIs DEF Whole, Pieces, CanRestore
    <2> QED BY <1>3, <1>6, <2>1, RestoredIs DEF Pieces
  <1>7. ASSUME NEW t \in Tabs, NEW r \in Reqs, req[t][r].st = "begun", CanBegin,
               store' = Impersonating(req[t][r].token.ses, req[t][r].token), UNCHANGED crossed
        PROVE  StoreOK'
    <2> DEFINE x == req[t][r].token
    <2>1. x \in AccessTokens /\ x.ses \in Sessions
      BY <1>7 DEF TabsOK, TabOK, BegunIsKnown
    <2> HIDE DEF x
    <2> DEFINE s == Impersonating(x.ses, x)
    <2>2. /\ Pieces(s, x, Refresh(x.acct, x.ses), x.acct, x.ses,
                    IF store.marker # None THEN store.orig ELSE SetAside)
          /\ x.ses # None
          /\ store.marker = None => SetAside # None
      BY <1>7, <2>1, ImpersonatingIs
    <2>3. store' = s
      BY <1>7 DEF x
    <2> HIDE DEF s
    <2>4. s.marker # None /\ s.orig # None
      BY <2>2 DEF Pieces, StoreOK, KeysTogether
    <2>5. ~crossed => Whole(s)
      <3>1. CASE store.marker # None
        BY <1>2, <2>2, <2>4, <3>1 DEF Pieces, Whole
      <3>2. CASE store.marker = None
        <4>1. s.orig.access = store.access /\ s.orig.refresh = store.refresh /\ s.orig.user = store.user
          BY <2>2, <3>2 DEF Pieces, SetAside
        <4>2. store.access # None
          BY <1>7, <3>2 DEF CanBegin
        <4> QED BY <1>2, <2>2, <2>4, <3>2, <4>1, <4>2 DEF Pieces, Whole
      <3> QED BY <3>1, <3>2
    <2> QED BY <1>3, <1>7, <2>2, <2>3, <2>4, <2>5 DEF Pieces
  <1>8. ASSUME NEW t \in Tabs, flight[t] # None, flight[t].answer = "granted", Renewed(t)
        PROVE  StoreOK'
    <2> DEFINE access == flight[t].access  sent == flight[t].sent
    <2>1. /\ sent \in RefreshTokens /\ access \in AccessTokens
          /\ access.acct = sent.acct /\ access.ses = sent.ses
      BY <1>8 DEF TabsOK, TabTypes, TabOK, GrantedIsOwn, Flights
    <2>2. sent = Refresh(access.acct, access.ses) /\ sent # None
      BY <2>1, TokenParts, NoneAssumption
    <2>3. /\ store' = [store EXCEPT !.access = access, !.refresh = sent]
          /\ crossed' = (crossed \/ sent # store.refresh)
      BY <1>8 DEF Renewed
    <2> HIDE DEF access, sent
    <2>4. /\ store' \in Storage /\ store'.access = access /\ store'.refresh = sent
          /\ store'.user = store.user /\ store'.marker = store.marker /\ store'.orig = store.orig
      BY <2>1, <2>3 DEF StoreOK, Storage
    <2>5. crossed' \in BOOLEAN
      BY <2>3 DEF StoreOK
    <2>6. KeysTogether'
      BY <2>4 DEF StoreOK, KeysTogether
    <2>7. ASSUME ~crossed' PROVE Whole(store')
      <3>1. ~crossed /\ sent = store.refresh
        BY <2>3, <2>7 DEF StoreOK
      <3>2. store # SignedOut
        BY <2>2, <3>1 DEF SignedOut
      <3>3. /\ sent = Refresh(store.access.acct, store.access.ses)
            /\ store.user = store.access.acct /\ store.marker = store.access.ses
        BY <1>2, <3>1, <3>2 DEF Whole
      <3>4. store.access.acct = access.acct /\ store.access.ses = access.ses
        BY <2>2, <3>3 DEF Refresh
      <3> QED BY <1>2, <2>2, <2>4, <3>1, <3>3, <3>4 DEF Whole
    <2>8. MixedOnlyByLateAnswer'
      BY <2>7 DEF MixedOnlyByLateAnswer, OneSession, Whole, SignedOut
    <2> QED BY <2>4, <2>5, <2>6, <2>8 DEF StoreOK
  <1> QED BY <1>1, <1>4, <1>5, <1>6, <1>7, <1>8 DEF Replaced

----------------------------------------------------------------------------
(* The server *)

LEMMA ServerStep ==
  ASSUME TabsOK, ServerOK, Next
  PROVE  ServerOK'
  <1> USE SessionAssumption DEF server
  <1>1. CASE User
    BY <1>1 DEF User, Login, Logout, OpenDesk, Issue, ServerOK
  <1>2. ASSUME NEW t \in Tabs, FinishRefresh(t) \/ \E granted \in BOOLEAN : ServeRefresh(t, granted)
        PROVE  ServerOK'
    BY <1>2 DEF FinishRefresh, RefreshGranted, RefreshRefusedBack, RefreshRefusedOut, ServeRefresh, ServerOK
  <1>3. ASSUME NEW t \in Tabs, NEW r \in Reqs, Serve(t, r) PROVE ServerOK'
    <2>1. CASE ServeCall(t, r) \/ ServeUnauthorized(t, r) \/ ServeError(t, r)
      BY <2>1 DEF ServeCall, ServeUnauthorized, ServeError, Answer, ServerOK
    <2>2. CASE ServeStop(t, r)
      <3>1. req[t][r].token \in AccessTokens
        BY <2>2 DEF TabsOK, TabTypes, Request_, ServeStop, Accepted
      <3>2. revoked' \subseteq Sessions
        BY <2>2, <3>1, TokenParts DEF ServeStop, NoneOrSession, ServerOK
      <3> QED BY <2>2, <3>2 DEF ServeStop, Answer, ServerOK
    <2>3. ASSUME NEW s \in Sessions, NEW target \in Accounts, ServeImpersonate(t, r, s, target)
          PROVE  ServerOK'
      BY <2>3 DEF ServeImpersonate, Answer, ServerOK
    <2> QED BY <1>3, <2>1, <2>2, <2>3 DEF Serve
  <1>4. ASSUME NEW t \in Tabs, NEW r \in Reqs, Handle(t, r) PROVE ServerOK'
    BY <1>4 DEF Handle, GiveUp, Enqueue, StartRefresh, BeginImpersonation, BeginImpersonationFails,
                StopImpersonation, StopImpersonationFails, ServerOK
  <1>5. CASE Expire
    BY <1>5 DEF Expire, ServerOK
  <1> QED BY <1>1, <1>2, <1>3, <1>4, <1>5 DEF Next

----------------------------------------------------------------------------
(* The invariant *)

LEMMA TabsStep ==
  ASSUME TabsOK, StoreOK, ServerOK, Next
  PROVE  TabsOK'
  <1>1. CASE User
    <2>1. ASSUME NEW a \in Users, Login(a) PROVE TabsOK'
      BY <2>1, StutterOfTabs DEF Login
    <2>2. CASE Logout
      BY <2>2, StutterOfTabs DEF Logout
    <2>3. ASSUME NEW t \in Tabs, OpenDesk(t) PROVE TabsOK'
      BY <2>3, ReloadKeeps DEF OpenDesk
    <2> QED BY <1>1, <2>1, <2>2, <2>3, IssueKeeps DEF User
  <1>2. ASSUME NEW t \in Tabs, FinishRefresh(t) PROVE TabsOK'
    BY <1>2, GrantedKeeps, RefusedOutKeeps, ReloadKeeps DEF FinishRefresh, RefreshRefusedBack
  <1>3. ASSUME NEW t \in Tabs, NEW granted \in BOOLEAN, ServeRefresh(t, granted) PROVE TabsOK'
    BY <1>3, ServeRefreshKeeps
  <1>4. ASSUME NEW t \in Tabs, NEW r \in Reqs, Serve(t, r) \/ Handle(t, r) PROVE TabsOK'
    BY <1>4, ServeKeeps, HandleKeeps
  <1>5. CASE Expire
    BY <1>5, StutterOfTabs DEF Expire, tab
  <1> QED BY <1>1, <1>2, <1>3, <1>4, <1>5 DEF Next

LEMMA InitHolds == Init => IInv
  <1> SUFFICES ASSUME Init PROVE IInv
    OBVIOUS
  <1>1. TabsOK
    BY IdleIs DEF Init, TabsOK, TabTypes, TabOK, Flying, GrantedIsOwn, Queued, BegunIsKnown
  <1>2. StoreOK
    BY SignedOutIs DEF Init, StoreOK, KeysTogether, MixedOnlyByLateAnswer, OneSession, SignedOut
  <1>3. ServerOK
    BY SessionAssumption DEF Init, ServerOK
  <1> QED BY <1>1, <1>2, <1>3 DEF IInv

LEMMA InductiveStep == IInv /\ [Next]_vars => IInv'
  <1> SUFFICES ASSUME IInv, [Next]_vars PROVE IInv'
    OBVIOUS
  <1>1. CASE Next
    BY <1>1, TabsStep, OnlyReplaced, StoreStep, ServerStep DEF IInv
  <1>2. CASE UNCHANGED vars
    <2>1. TabsOK' /\ StoreOK' /\ ServerOK'
      BY <1>2, StutterOfTabs, StoreStep DEF IInv, vars, Replaced, ServerOK
    <2> QED BY <2>1 DEF IInv
  <1> QED BY <1>1, <1>2

\* The invariant holds of every run, whatever the tabs interleave.
THEOREM Inductive == Spec => []IInv
<1> QED BY InitHolds, InductiveStep, PTL DEF Spec

\* localStorage, the scripts of the tabs and the sessions of the server keep their shape.
THEOREM TypeCorrect == Spec => []TypeOK
<1>1. IInv => TypeOK
  BY DEF IInv, TabsOK, TabTypes, StoreOK, ServerOK, TypeOK
<1> QED BY <1>1, Inductive, PTL

\* No request is forgotten in failedQueue and none is left behind by isRefreshing
\* (api.ts:37-47, 110-162).
THEOREM NoneIsForgotten == Spec => []QueueHasRefresh
<1>1. IInv => QueueHasRefresh
  BY DEF IInv, TabsOK, TabOK, Flying, Queued, QueueHasRefresh
<1> QED BY <1>1, Inductive, PTL

\* Only a refresh answer that is stored over another session mixes two sessions in
\* localStorage (api.ts:138-139).
THEOREM TheSessionIsOne == Spec => []MixedOnlyByLateAnswer
<1>1. IInv => MixedOnlyByLateAnswer
  BY DEF IInv, StoreOK
<1> QED BY <1>1, Inductive, PTL

\* The session beginImpersonation set aside is the one that comes back, also after
\* an impersonation inside an impersonation (impersonation.ts:36-46).
THEOREM TheOriginalSurvives == Spec => OriginalSurvives
<1>1. ASSUME IInv, Next PROVE store.orig # None /\ store'.orig # None => store'.orig = store.orig
  <2>1. Replaced
    BY <1>1, OnlyReplaced
  <2>2. StoreOK /\ ServerOK /\ TabsOK
    BY <1>1 DEF IInv
  <2>3. ASSUME NEW a \in Accounts, store' = SignedIn(a) PROVE store'.orig = None
    BY <2>2, <2>3, SignedInIs DEF Pieces
  <2>4. CanRestore /\ store' = Restored => store'.orig = None
    BY <2>2, RestoredIs DEF Pieces
  <2>5. ASSUME NEW t \in Tabs, NEW r \in Reqs, req[t][r].st = "begun", CanBegin, store.orig # None,
               store' = Impersonating(req[t][r].token.ses, req[t][r].token)
        PROVE  store'.orig = store.orig
    <3>1. store.marker # None
      BY <2>2, <2>5 DEF StoreOK, KeysTogether
    <3> QED BY <2>5, <3>1 DEF Impersonating
  <2>6. ASSUME NEW t \in Tabs, Renewed(t) PROVE store'.orig = store.orig
    BY <2>2, <2>6 DEF Renewed, StoreOK, Storage
  <2> QED BY <2>1, <2>3, <2>4, <2>5, <2>6, SignedOutIs DEF Replaced
<1>2. IInv /\ [Next]_vars => [store.orig # None /\ store'.orig # None => store'.orig = store.orig]_vars
  BY <1>1
<1> QED BY <1>2, Inductive, PTL DEF Spec, OriginalSurvives
=============================================================================
