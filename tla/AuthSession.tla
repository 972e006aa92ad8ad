---------------------------- MODULE AuthSession ----------------------------
(***************************************************************************)
(* The signed-in session of the admin application: the axios interceptors   *)
(* of lib/api.ts, the impersonation storage of lib/impersonation.ts, and    *)
(* the handlers of the backend that mint, refuse and revoke tokens.         *)
(*                                                                         *)
(* The session lives in the localStorage of the browser ("store"), which    *)
(* every tab reads and writes; isRefreshing and failedQueue are variables   *)
(* of each tab's script.  A handler runs without interruption from one      *)
(* await to the next, which is one action here; everything else -- the      *)
(* other tabs, the server, a second answer -- happens in between.           *)
(*                                                                         *)
(* Tokens are records: an access token names its account, its              *)
(* impersonation session and the period it was minted in; "epoch" counts    *)
(* the access-token lifetimes that have passed, so a token of an earlier    *)
(* epoch has expired.  A refresh token lives long enough never to expire    *)
(* here, but a refresh may be refused for any reason at any time (a dead    *)
(* network, a disabled account, a changed password).                        *)
(***************************************************************************)
EXTENDS Naturals, FiniteSets

CONSTANTS
  Tabs,        \* tabs of one browser
  Reqs,        \* requests a tab can have under way at once
  Accounts,    \* accounts of the tenant
  Users,       \* those that sign in in this browser
  Rank,        \* [Accounts -> Nat]: the role an account has
  AdminRank,   \* the lowest role that may impersonate
  Sessions,    \* ids of impersonation sessions
  None,        \* an absent localStorage key
  MaxEpoch,    \* bound: access-token lifetimes that pass
  MaxCalls     \* bound: requests under way in the whole browser

ASSUME SessionAssumption ==
  /\ Rank \in [Accounts -> Nat] /\ {AdminRank, MaxEpoch, MaxCalls} \subseteq Nat
  /\ Users \subseteq Accounts /\ None \notin Accounts \cup Sessions \cup Reqs \cup Tabs

VARIABLES
  store,         \* localStorage: accessToken, refreshToken, user and the two impersonation keys
  req,           \* what has become of each request of each tab
  isRefreshing,  \* lib/api.ts, per tab
  failedQueue,   \* lib/api.ts, per tab: the requests that wait for the refresh
  flight,        \* the refresh call of each tab, None when there is none
  impersonation, \* the server's impersonation_sessions: target, or None before it is created
  revoked,       \* the sessions with revoked_at set (or past expires_at)
  epoch,         \* access-token lifetimes passed
  crossed        \* history: a refresh answer was stored over a session it was not asked for

vars == <<store, req, isRefreshing, failedQueue, flight, impersonation, revoked, epoch, crossed>>
tab  == <<req, isRefreshing, failedQueue, flight>>
server == <<impersonation, revoked, epoch>>

----------------------------------------------------------------------------
(* Tokens and storage *)

NoneOrSession == Sessions \cup {None}
AccessTokens  == [acct : Accounts, ses : NoneOrSession, epoch : 0..MaxEpoch]
RefreshTokens == [acct : Accounts, ses : NoneOrSession]
Access(a, s)  == [acct |-> a, ses |-> s, epoch |-> epoch]
Refresh(a, s) == [acct |-> a, ses |-> s]

\* What impersonation.ts keeps of the administrator's own session.
Original == [access : AccessTokens, refresh : RefreshTokens, user : Accounts]

SignedOut == [access |-> None, refresh |-> None, user |-> None, marker |-> None, orig |-> None]

SignedIn(a) == [SignedOut EXCEPT !.access = Access(a, None), !.refresh = Refresh(a, None), !.user = a]

CanRestore == store.orig # None

\* Mutant: the user shown is not put back.
RestoredTokensOnly == [SignedOut EXCEPT !.access = store.orig.access, !.refresh = store.orig.refresh,
                                        !.user = store.user]
Restored == [SignedOut EXCEPT !.access = store.orig.access, !.refresh = store.orig.refresh,
                              !.user = store.orig.user]

\* beginImpersonation refuses to start from an incomplete session.
CanBegin == store.marker # None \/ None \notin {store.access, store.refresh, store.user}

\* Mutants: every impersonation sets aside what it finds; the user is not set aside.
ImpersonatingAnew(s, access) ==
  [access |-> access, refresh |-> Refresh(access.acct, s), user |-> access.acct, marker |-> s,
   orig |-> [access |-> store.access, refresh |-> store.refresh, user |-> store.user]]
ImpersonatingTokensOnly(s, access) ==
  [access |-> access, refresh |-> Refresh(access.acct, s), user |-> access.acct, marker |-> s,
   orig |-> [access |-> store.access, refresh |-> store.refresh, user |-> None]]
Impersonating(s, access) ==
  [access |-> access, refresh |-> Refresh(access.acct, s), user |-> access.acct, marker |-> s,
   orig |-> IF store.marker # None THEN store.orig
            ELSE [access |-> store.access, refresh |-> store.refresh, user |-> store.user]]

----------------------------------------------------------------------------
(* Requests of a tab *)

Kinds == {"call", "stop", "impersonate"}
Idle  == [st |-> "idle", kind |-> "call", token |-> None, retried |-> FALSE]

Request(kind) == [st |-> "sent", kind |-> kind, token |-> store.access, retried |-> FALSE]

UnderWay == {x \in Tabs \X Reqs : req[x[1]][x[2]].st # "idle"}

\* The caller of stop() carries on to restore the administrator however the call ended.
Settled(q) == IF q.kind = "stop" THEN [Idle EXCEPT !.st = "settled", !.kind = "stop"] ELSE Idle

Active(s) == s = None \/ (s \notin revoked)
Accepted(token) == token # None /\ token.epoch = epoch /\ Active(token.ses)

Init ==
  /\ store = SignedOut
  /\ req = [t \in Tabs |-> [r \in Reqs |-> Idle]]
  /\ isRefreshing = [t \in Tabs |-> FALSE]
  /\ failedQueue = [t \in Tabs |-> {}]
  /\ flight = [t \in Tabs |-> None]
  /\ impersonation = [s \in Sessions |-> None]
  /\ revoked = {}
  /\ epoch = 0
  /\ crossed = FALSE

\* window.location.assign: the document of the tab goes, and what it waited for with it.
Reload(t) ==
  /\ req' = [req EXCEPT ![t] = [r \in Reqs |-> Idle]]
  /\ isRefreshing' = [isRefreshing EXCEPT ![t] = FALSE]
  /\ failedQueue' = [failedQueue EXCEPT ![t] = {}]
  /\ flight' = [flight EXCEPT ![t] = None]

\* The login page can be opened in any tab at any time, and in the script that runs there.
Login(a) ==
  /\ store' = SignedIn(a)
  /\ UNCHANGED <<req, isRefreshing, failedQueue, flight, server, crossed>>

\* The menu's logout: the router goes to the login page, the script lives on.
Logout ==
  /\ store # SignedOut
  /\ store' = SignedOut
  /\ UNCHANGED <<req, isRefreshing, failedQueue, flight, server, crossed>>

Issue(t, r, kind) ==
  /\ req[t][r].st = "idle" /\ Cardinality(UnderWay) < MaxCalls
  /\ kind = "stop" => store.marker # None
  /\ req' = [req EXCEPT ![t][r] = Request(kind)]
  /\ UNCHANGED <<store, isRefreshing, failedQueue, flight, server, crossed>>

----------------------------------------------------------------------------
(* The server: the auth middleware, then the handler *)

Answer(t, r, q) ==
  /\ req' = [req EXCEPT ![t][r] = q]
  /\ UNCHANGED <<store, isRefreshing, failedQueue, flight, epoch, crossed>>

ServeCall(t, r) ==
  /\ req[t][r].st = "sent" /\ req[t][r].kind = "call" /\ Accepted(req[t][r].token)
  /\ Answer(t, r, Idle)
  /\ UNCHANGED <<impersonation, revoked>>

\* StopImpersonation: 400 for a token without a session, which the caller only logs.
ServeStop(t, r) ==
  LET q == req[t][r] IN
  /\ q.st = "sent" /\ q.kind = "stop" /\ Accepted(q.token)
  /\ Answer(t, r, Settled(q))
  /\ revoked' = revoked \cup ({q.token.ses} \ {None})
  /\ UNCHANGED impersonation

ServeImpersonate(t, r, s, target) ==
  LET q == req[t][r] IN
  /\ q.st = "sent" /\ q.kind = "impersonate" /\ Accepted(q.token)
  /\ Rank[q.token.acct] >= AdminRank /\ Rank[target] < Rank[q.token.acct]
  /\ impersonation[s] = None
  /\ impersonation' = [impersonation EXCEPT ![s] = target]
  /\ Answer(t, r, [q EXCEPT !.st = "begun", !.token = Access(target, s), !.retried = FALSE])
  /\ UNCHANGED revoked

ServeUnauthorized(t, r) ==
  /\ req[t][r].st = "sent" /\ ~Accepted(req[t][r].token)
  /\ Answer(t, r, [req[t][r] EXCEPT !.st = "unauthorized", !.token = None])
  /\ UNCHANGED <<impersonation, revoked>>

\* No answer, or any error other than 401: the interceptor passes it on.
ServeError(t, r) ==
  /\ req[t][r].st = "sent"
  /\ Answer(t, r, Settled(req[t][r]))
  /\ UNCHANGED <<impersonation, revoked>>

ServeRefresh(t, granted) ==
  /\ flight[t] # None /\ flight[t].answer = "none"
  /\ granted => Active(flight[t].sent.ses)
  /\ flight' = [flight EXCEPT ![t].answer = IF granted THEN "granted" ELSE "refused",
                              ![t].access = IF granted THEN Access(flight[t].sent.acct, flight[t].sent.ses)
                                                       ELSE None]
  /\ UNCHANGED <<store, req, isRefreshing, failedQueue, server, crossed>>

Expire ==
  /\ epoch < MaxEpoch
  /\ epoch' = epoch + 1
  /\ UNCHANGED <<store, tab, impersonation, revoked, crossed>>

----------------------------------------------------------------------------
(* The response interceptor *)

Reject(t, rs) == [req EXCEPT ![t] = [r \in Reqs |-> IF r \in rs THEN Settled(req[t][r]) ELSE req[t][r]]]

\* A 401 of a request that was retried already, or of one with no refresh token to use.
GiveUp(t, r) ==
  LET q == req[t][r] IN
  /\ q.st = "unauthorized" /\ (q.retried \/ store.refresh = None)
  /\ req' = Reject(t, {r})
  /\ store' = IF q.retried THEN store ELSE SignedOut
  /\ UNCHANGED <<isRefreshing, failedQueue, flight, server, crossed>>

\* Mutant: the queue is filled whether or not a refresh is under way.
EnqueueAlways(t, r) ==
  /\ req[t][r].st = "unauthorized" /\ ~req[t][r].retried /\ store.refresh # None
  /\ req' = [req EXCEPT ![t][r].st = "queued"]
  /\ failedQueue' = [failedQueue EXCEPT ![t] = @ \cup {r}]
  /\ UNCHANGED <<store, isRefreshing, flight, server, crossed>>
Enqueue(t, r) ==
  LET q == req[t][r] IN
  /\ q.st = "unauthorized" /\ ~q.retried /\ store.refresh # None /\ isRefreshing[t]
  /\ req' = [req EXCEPT ![t][r].st = "queued"]
  /\ failedQueue' = [failedQueue EXCEPT ![t] = @ \cup {r}]
  /\ UNCHANGED <<store, isRefreshing, flight, server, crossed>>

StartRefresh(t, r) ==
  LET q == req[t][r] IN
  /\ q.st = "unauthorized" /\ ~q.retried /\ store.refresh # None /\ ~isRefreshing[t]
  /\ req' = [req EXCEPT ![t][r].st = "refreshing", ![t][r].retried = TRUE]
  /\ isRefreshing' = [isRefreshing EXCEPT ![t] = TRUE]
  /\ flight' = [flight EXCEPT ![t] = [by |-> r, sent |-> store.refresh, answer |-> "none", access |-> None]]
  /\ UNCHANGED <<store, failedQueue, server, crossed>>

\* Mutant: processQueue empties the queue without settling its promises.
WaitingForgotten(t) == {flight[t].by}
\* The requests the end of the refresh releases: the one that started it and the queue.
Waiting(t) == failedQueue[t] \cup {flight[t].by}

\* The tokens are stored whatever the session has become meanwhile; the interceptor
\* then puts the stored token on every released request.
RefreshGranted(t) ==
  /\ flight[t] # None /\ flight[t].answer = "granted"
  /\ store' = [store EXCEPT !.access = flight[t].access, !.refresh = flight[t].sent]
  /\ crossed' = (crossed \/ flight[t].sent # store.refresh)
  /\ req' = [req EXCEPT ![t] = [r \in Reqs |-> IF r \in Waiting(t)
                                               THEN [@[r] EXCEPT !.st = "sent", !.token = flight[t].access]
                                               ELSE @[r]]]
  /\ failedQueue' = [failedQueue EXCEPT ![t] = {}]
  /\ isRefreshing' = [isRefreshing EXCEPT ![t] = FALSE]
  /\ flight' = [flight EXCEPT ![t] = None]
  /\ UNCHANGED server

\* A refused refresh ends an impersonation, or the session itself.
RefreshRefusedBack(t) ==
  /\ flight[t] # None /\ flight[t].answer = "refused"
  /\ store.marker # None /\ CanRestore
  /\ store' = Restored
  /\ Reload(t)
  /\ UNCHANGED <<server, crossed>>

RefreshRefusedOut(t) ==
  /\ flight[t] # None /\ flight[t].answer = "refused"
  /\ ~(store.marker # None /\ CanRestore)
  /\ store' = SignedOut
  /\ req' = Reject(t, Waiting(t))
  /\ failedQueue' = [failedQueue EXCEPT ![t] = {}]
  /\ isRefreshing' = [isRefreshing EXCEPT ![t] = FALSE]
  /\ flight' = [flight EXCEPT ![t] = None]
  /\ UNCHANGED <<server, crossed>>

----------------------------------------------------------------------------
(* Impersonation: the callers of the two requests, and the reload of a tab *)

BeginImpersonation(t, r) ==
  LET q == req[t][r] IN
  /\ q.st = "begun" /\ CanBegin
  /\ store' = Impersonating(q.token.ses, q.token)
  /\ Reload(t)
  /\ UNCHANGED <<server, crossed>>

BeginImpersonationFails(t, r) ==
  /\ req[t][r].st = "begun" /\ ~CanBegin
  /\ req' = [req EXCEPT ![t][r] = Idle]
  /\ UNCHANGED <<store, isRefreshing, failedQueue, flight, server, crossed>>

StopImpersonation(t, r) ==
  /\ req[t][r].st = "settled" /\ CanRestore
  /\ store' = Restored
  /\ Reload(t)
  /\ UNCHANGED <<server, crossed>>

StopImpersonationFails(t, r) ==
  /\ req[t][r].st = "settled" /\ ~CanRestore
  /\ req' = [req EXCEPT ![t][r] = Idle]
  /\ UNCHANGED <<store, isRefreshing, failedQueue, flight, server, crossed>>

\* The user opens the desk in a tab: ProtectedRoute asks for an access token.
OpenDesk(t) ==
  /\ store.access # None
  /\ Reload(t)
  /\ UNCHANGED <<store, server, crossed>>

Serve(t, r) ==
  \/ ServeCall(t, r) \/ ServeStop(t, r) \/ ServeUnauthorized(t, r) \/ ServeError(t, r)
  \/ \E s \in Sessions, target \in Accounts : ServeImpersonate(t, r, s, target)

Handle(t, r) ==
  \/ GiveUp(t, r) \/ Enqueue(t, r) \/ StartRefresh(t, r)
  \/ BeginImpersonation(t, r) \/ BeginImpersonationFails(t, r)
  \/ StopImpersonation(t, r) \/ StopImpersonationFails(t, r)

FinishRefresh(t) == RefreshGranted(t) \/ RefreshRefusedBack(t) \/ RefreshRefusedOut(t)

User ==
  \/ \E a \in Users : Login(a)
  \/ Logout
  \/ \E t \in Tabs : OpenDesk(t) \/ \E r \in Reqs, kind \in Kinds : Issue(t, r, kind)

Next ==
  \/ User
  \/ \E t \in Tabs : FinishRefresh(t) \/ (\E granted \in BOOLEAN : ServeRefresh(t, granted))
  \/ \E t \in Tabs, r \in Reqs : Serve(t, r) \/ Handle(t, r)
  \/ Expire

\* Every call of the browser is answered or fails, and the event loop of a tab
\* runs the continuation of every answer; users do nothing of necessity.  (A call is
\* with the server or with the tab, never with both: one condition is enough.)
Fairness ==
  \A t \in Tabs :
    /\ WF_vars(FinishRefresh(t) \/ \E granted \in BOOLEAN : ServeRefresh(t, granted))
    /\ \A r \in Reqs : WF_vars(Serve(t, r) \/ Handle(t, r))

Spec == Init /\ [][Next]_vars /\ Fairness
----------------------------------------------------------------------------
(* Properties *)

RequestStates == {"idle", "sent", "unauthorized", "queued", "refreshing", "begun", "settled"}
Request_  == [st : RequestStates, kind : Kinds, token : AccessTokens \cup {None}, retried : BOOLEAN]
Flights   == [by : Reqs, sent : RefreshTokens, answer : {"none", "granted", "refused"},
              access : AccessTokens \cup {None}]

\* None stands for what is absent: no token, no session set aside and no call is None.
ASSUME NoneAssumption == None \notin RefreshTokens \cup Original \cup Flights

Storage   == [access : AccessTokens \cup {None}, refresh : RefreshTokens \cup {None},
              user : Accounts \cup {None}, marker : NoneOrSession, orig : Original \cup {None}]

\* The shape of localStorage (impersonation.ts), of a tab's script (api.ts) and of the
\* server's impersonation sessions.
TypeOK ==
  /\ store \in Storage
  /\ req \in [Tabs -> [Reqs -> Request_]]
  /\ isRefreshing \in [Tabs -> BOOLEAN]
  /\ failedQueue \in [Tabs -> SUBSET Reqs]
  /\ flight \in [Tabs -> Flights \cup {None}]
  /\ impersonation \in [Sessions -> Accounts \cup {None}]
  /\ revoked \subseteq Sessions
  /\ epoch \in 0..MaxEpoch
  /\ crossed \in BOOLEAN

\* A request waits in failedQueue only while a refresh of its own tab is under way that
\* will empty the queue, and every request that waits is in it: none is forgotten by
\* processQueue (api.ts:37-47), none is left behind by the flag (api.ts:110-162).
QueueHasRefresh ==
  \A t \in Tabs :
    /\ isRefreshing[t] <=> flight[t] # None
    /\ failedQueue[t] # {} => isRefreshing[t]
    /\ \A r \in Reqs :
         /\ req[t][r].st = "queued" <=> r \in failedQueue[t]
         /\ req[t][r].st = "refreshing" <=> (flight[t] # None /\ flight[t].by = r)

\* What the browser keeps belongs to one session: the tokens are those of the user
\* shown and of the impersonation the banner shows, and the session kept for the way
\* back is the administrator's own.
OneSession ==
  /\ \/ store.access = None /\ store = SignedOut
     \/ /\ store.refresh = Refresh(store.access.acct, store.access.ses)
        /\ store.user = store.access.acct
        /\ store.marker = store.access.ses
  /\ store.orig # None => /\ store.orig.refresh = Refresh(store.orig.access.acct, None)
                          /\ store.orig.user = store.orig.access.acct
                          /\ store.orig.access.ses = None
  /\ store.marker # None <=> store.orig # None

\* localStorage mixes two sessions only after a refresh answer has been stored over a
\* session other than the one it was asked for (api.ts:138-139): logins, logouts,
\* impersonations, their ends and the refresh of either keep it in one piece, whatever
\* the tabs interleave.
MixedOnlyByLateAnswer == ~crossed => OneSession

\* The administrator's own session, once set aside by beginImpersonation, is not
\* replaced while it is kept: not by a further impersonation started inside the first,
\* not by a refresh, in no tab (impersonation.ts:36-46).
OriginalSurvives == [][store.orig # None /\ store'.orig # None => store'.orig = store.orig]_vars

\* A call of the application is answered or given up, or its page goes: none hangs in
\* the queue, whatever is refused, whichever tokens expire and however the tabs
\* interleave (api.ts:93-169).
CallSettles(t, r) == req[t][r].st # "idle" ~> req[t][r].st = "idle"

=============================================================================
