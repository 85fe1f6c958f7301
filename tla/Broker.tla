------------------------------- MODULE Broker -------------------------------
(***************************************************************************)
(* The broker's OIDC endpoints: concurrent requests over the one-shot      *)
(* session store and the CR of one user, who may hold several sessions.    *)
(*                                                                         *)
(* A request is modelled call by call, and any call may fail.  A request   *)
(* that is refused before it changes anything leaves no trace.  Random     *)
(* tokens are numbered as they are drawn: a login by its login state, a    *)
(* code by the refresh token it brings.  The groups of an identity are the *)
(* ones the IdP had when it authenticated the user, so the time of that    *)
(* snapshot stands for them.                                               *)
(***************************************************************************)
EXTENDS StoreOps, FiniteSets

CONSTANTS
  Handler,      \* request goroutines, of all replicas
  AuthTTL,      \* authRequestTTL
  CodeTTL,      \* codeTTL
  RefreshTTL,   \* REFRESH_TOKEN_LIFETIME_SECONDS
  BindTTL,      \* BIND_TTL
  WaitTimeout,  \* how long WaitBinded polls
  MaxDelay,     \* bound on the time any other call takes
  MaxLogins,    \* bound on the logins started
  MaxKey,       \* bound on the refresh tokens drawn
  MaxFaults,    \* bound on restarts of the broker and deletions of the CR
  LastRequest,  \* bound on the time requests arrive
  MaxTime       \* bound on the clock

ASSUME TTLAssumption == {AuthTTL, CodeTTL, RefreshTTL, BindTTL} \subseteq Nat \ {0}
ASSUME BoundsAssumption ==
  /\ {WaitTimeout, MaxDelay, MaxLogins, MaxKey, MaxFaults, LastRequest} \subseteq Nat
  /\ MaxTime \in Nat /\ MaxTime >= LastRequest + WaitTimeout + 6 * MaxDelay

Login == 1..MaxLogins
Key == 1..MaxKey
Time == 0..MaxTime
Never == -1

VARIABLES
  auth,     \* login state -> pending authorization request
  codes,    \* code -> its grant
  refresh,  \* refresh token -> its login and the snapshot of the groups
  req,      \* the request each handler is serving
  cr,       \* the user's UserAuthenticationBind and its bindings
  given,    \* in how many token responses a refresh token was given out
  drawn,    \* how many refresh tokens were drawn
  logins,   \* how many logins were started
  deleted,  \* when an administrator last deleted the CR
  faults, now

stores == <<auth, codes, refresh>>
vars == <<auth, codes, refresh, req, cr, given, drawn, logins, deleted, faults,
          now>>

Idle == [pc |-> "idle", via |-> "", login |-> 0, who |-> 0, snap |-> Never,
         fresh |-> FALSE, since |-> 0, key |-> 0]

Absent == [phase |-> "absent", renewed |-> 0, snap |-> Never, synced |-> FALSE,
           bound |-> Never]

Busy == {"authenticate", "get", "put", "wait", "mint", "save", "code"}

Serving ==
  [pc : {"idle"} \cup Busy, via : {"", "code", "refresh"}, login : {0} \cup Login,
   who : {0} \cup Login, snap : {Never} \cup Time, fresh : BOOLEAN, since : Time,
   key : {0} \cup Key]

Grant == [login : Login, who : Login, snap : Time]

Bind ==
  [phase : {"absent", "pending", "binded", "failed", "unbound"}, renewed : Time,
   snap : {Never} \cup Time, synced : BOOLEAN, bound : {Never} \cup Time]

TypeOK ==
  /\ DOMAIN auth \subseteq Login /\ \A l \in DOMAIN auth : auth[l].exp \in Nat
  /\ DOMAIN codes \subseteq Key /\ \A k \in DOMAIN codes : codes[k].exp \in Nat
  /\ DOMAIN refresh \subseteq Key
  /\ \A k \in DOMAIN refresh : refresh[k].val \in Grant /\ refresh[k].exp \in Nat
  /\ req \in [Handler -> Serving]
  /\ cr \in Bind
  /\ given \in [Key -> Nat] /\ drawn \in 0..MaxKey /\ logins \in 0..MaxLogins
  /\ deleted \in {Never} \cup Time /\ faults \in 0..MaxFaults /\ now \in Time

Init ==
  /\ auth = Empty /\ codes = Empty /\ refresh = Empty
  /\ req = [h \in Handler |-> Idle]
  /\ cr = Absent
  /\ given = [k \in Key |-> 0]
  /\ drawn = 0 /\ logins = 0 /\ deleted = Never /\ faults = 0 /\ now = 0

At(h, pc) == req[h].pc = pc

\* The request of h, at its next call.
Moved(h, pc) == [req[h] EXCEPT !.pc = pc, !.since = now]

\* A write of the CR outdates the versions that other requests hold.
Outdated == [h \in Handler |-> [req[h] EXCEPT !.fresh = FALSE]]

Finish(h) == req' = [req EXCEPT ![h] = Idle]

\* Bounds: requests arrive in time, and find a refresh token left to draw.
Accepting(h) ==
  /\ At(h, "idle") /\ now <= LastRequest
  /\ drawn + Cardinality({g \in Handler : req[g].pc \notin {"idle", "code"}}) < MaxKey

-----------------------------------------------------------------------------
(* The login: Authorize, then Callback up to issueTokens.                  *)

Authorize ==
  /\ logins < MaxLogins /\ now <= LastRequest
  /\ logins' = logins + 1
  /\ auth' = Saved(auth, logins', logins', now + AuthTTL)
  /\ UNCHANGED <<codes, refresh, req, cr, given, drawn, deleted, faults, now>>

Callback(h, l) ==
  /\ Accepting(h) /\ Found(auth, l, now)
  /\ auth' = Without(auth, {l})
  /\ req' = [req EXCEPT ![h] = [Moved(h, "authenticate") EXCEPT !.via = "code", !.login = l]]
  /\ UNCHANGED <<codes, refresh, cr, given, drawn, logins, deleted, faults, now>>

\* Mutant: the nonce is not compared.
AuthenticateAnyNonce(h) ==
  /\ At(h, "authenticate")
  /\ \E l \in 1..logins :
       req' = [req EXCEPT ![h] = [Moved(h, "get") EXCEPT !.who = l, !.snap = now]]
  /\ UNCHANGED <<stores, cr, given, drawn, logins, deleted, faults, now>>

\* The IdP vouches for an identity, the one of the login whose nonce its id_token
\* carries, with a verified email of an allowed domain; otherwise the request
\* fails like any other call (CallFails).
Authenticate(h) ==
  /\ At(h, "authenticate")
  /\ \E l \in 1..logins :
       /\ l = req[h].login
       /\ req' = [req EXCEPT ![h] = [Moved(h, "get") EXCEPT !.who = l, !.snap = now]]
  /\ UNCHANGED <<stores, cr, given, drawn, logins, deleted, faults, now>>

-----------------------------------------------------------------------------
(* issueTokens, of a login and of a refresh.                               *)

\* Upsert reads the CR from the API server ...
UpsertGet(h) ==
  /\ At(h, "get")
  /\ req' = [req EXCEPT ![h] = [Moved(h, "put") EXCEPT !.fresh = TRUE]]
  /\ UNCHANGED <<stores, cr, given, drawn, logins, deleted, faults, now>>

\* Mutant: only a new CR is stamped.
UpsertPutOnce(h) ==
  /\ At(h, "put") /\ req[h].fresh
  /\ cr' = [cr EXCEPT !.phase = IF @ = "absent" THEN "pending" ELSE @,
                      !.renewed = IF cr.phase = "absent" THEN now ELSE @,
                      !.snap = req[h].snap, !.synced = FALSE]
  /\ req' = [Outdated EXCEPT ![h] = Moved(h, "wait")]
  /\ UNCHANGED <<stores, given, drawn, logins, deleted, faults, now>>

\* ... and creates it, or updates the version it read.
UpsertPut(h) ==
  /\ At(h, "put") /\ req[h].fresh
  /\ cr' = [cr EXCEPT !.phase = IF @ = "absent" THEN "pending" ELSE @,
                      !.renewed = now, !.snap = req[h].snap, !.synced = FALSE]
  /\ req' = [Outdated EXCEPT ![h] = Moved(h, "wait")]
  /\ UNCHANGED <<stores, given, drawn, logins, deleted, faults, now>>

\* Another write came first: AlreadyExists, NotFound or a conflict.
UpsertConflict(h) ==
  /\ At(h, "put") /\ ~req[h].fresh
  /\ Finish(h)
  /\ UNCHANGED <<stores, cr, given, drawn, logins, deleted, faults, now>>

WaitBinded(h) ==
  /\ At(h, "wait") /\ cr.phase = "binded"
  /\ req' = [req EXCEPT ![h] = Moved(h, "mint")]
  /\ UNCHANGED <<stores, cr, given, drawn, logins, deleted, faults, now>>

\* Mutant: no timeout.
WaitFailsOnPhase(h) ==
  /\ At(h, "wait")
  /\ cr.phase \in {"absent", "failed"}
  /\ Finish(h)
  /\ UNCHANGED <<stores, cr, given, drawn, logins, deleted, faults, now>>

\* The CR is gone or failed, or the time is up.
WaitFails(h) ==
  /\ At(h, "wait")
  /\ cr.phase \in {"absent", "failed"} \/ now >= req[h].since + WaitTimeout
  /\ Finish(h)
  /\ UNCHANGED <<stores, cr, given, drawn, logins, deleted, faults, now>>

\* A token for the ServiceAccount, and an id_token.
Mint(h) ==
  /\ At(h, "mint")
  /\ req' = [req EXCEPT ![h] = Moved(h, "save")]
  /\ UNCHANGED <<stores, cr, given, drawn, logins, deleted, faults, now>>

\* A new refresh token: in the answer to a refresh, if it arrives; a login keeps
\* it for its code.
SaveRefresh(h) ==
  /\ At(h, "save") /\ drawn < MaxKey
  /\ drawn' = drawn + 1
  /\ refresh' = Saved(refresh, drawn', [login |-> req[h].login, who |-> req[h].who,
                                        snap |-> req[h].snap], now + RefreshTTL)
  /\ \/ /\ req[h].via = "code"
        /\ req' = [req EXCEPT ![h] = [Moved(h, "code") EXCEPT !.key = drawn']]
        /\ UNCHANGED given
     \/ /\ req[h].via = "refresh"
        /\ Finish(h)
        /\ given' = [given EXCEPT ![drawn'] = @ + 1] \/ UNCHANGED given
  /\ UNCHANGED <<auth, codes, cr, logins, deleted, faults, now>>

SaveCode(h) ==
  /\ At(h, "code")
  /\ codes' = Saved(codes, req[h].key, req[h].login, now + CodeTTL)
  /\ Finish(h)
  /\ UNCHANGED <<auth, refresh, cr, given, drawn, logins, deleted, faults, now>>

\* Any call may fail, by its context or on the wire: the handler answers with
\* an error.
CallFails(h) ==
  /\ req[h].pc \in Busy
  /\ Finish(h)
  /\ UNCHANGED <<stores, cr, given, drawn, logins, deleted, faults, now>>

-----------------------------------------------------------------------------
(* The token endpoint.                                                     *)

\* Mutant: the code can be redeemed again.
RedeemCodeKeeping(k) ==
  /\ now <= LastRequest /\ Found(codes, k, now)
  /\ \/ given' = [given EXCEPT ![k] = @ + 1]
     \/ UNCHANGED given
  /\ UNCHANGED <<stores, req, cr, drawn, logins, deleted, faults, now>>

\* handleAuthCode takes the code, then checks the client, the redirect URI, the
\* secret and the PKCE verifier.
RedeemCode(k) ==
  /\ now <= LastRequest /\ Found(codes, k, now)
  /\ codes' = Without(codes, {k})
  /\ \/ given' = [given EXCEPT ![k] = @ + 1]
     \/ UNCHANGED given
  /\ UNCHANGED <<auth, refresh, req, cr, drawn, logins, deleted, faults, now>>

\* Mutants: the token stays valid; the grant's groups are not restored.
TakeRefreshKeeping(h, k) ==
  /\ Accepting(h) /\ given[k] > 0 /\ Found(refresh, k, now)
  /\ req' = [req EXCEPT ![h] = [Moved(h, "get") EXCEPT !.via = "refresh",
               !.login = refresh[k].val.login, !.who = refresh[k].val.who,
               !.snap = refresh[k].val.snap]]
  /\ UNCHANGED <<stores, cr, given, drawn, logins, deleted, faults, now>>

TakeRefreshBare(h, k) ==
  /\ Accepting(h) /\ given[k] > 0 /\ Found(refresh, k, now)
  /\ refresh' = Without(refresh, {k})
  /\ req' = [req EXCEPT ![h] = [Moved(h, "get") EXCEPT !.via = "refresh",
               !.login = refresh[k].val.login, !.who = refresh[k].val.who]]
  /\ UNCHANGED <<auth, codes, cr, given, drawn, logins, deleted, faults, now>>

\* handleRefresh takes the token that a client was given, then checks the client
\* and the secret, then issues tokens for the identity of the grant.
TakeRefresh(h, k) ==
  /\ Accepting(h) /\ given[k] > 0 /\ Found(refresh, k, now)
  /\ refresh' = Without(refresh, {k})
  /\ \/ req' = [req EXCEPT ![h] = [Moved(h, "get") EXCEPT !.via = "refresh",
                  !.login = refresh[k].val.login, !.who = refresh[k].val.who,
                  !.snap = refresh[k].val.snap]]
     \/ UNCHANGED req
  /\ UNCHANGED <<auth, codes, cr, given, drawn, logins, deleted, faults, now>>

-----------------------------------------------------------------------------
(* The operator, as the broker sees it.                                    *)

Expired == now >= cr.renewed + BindTTL

OperatorBinds ==
  /\ cr.phase # "absent" /\ ~Expired /\ ~(cr.phase = "binded" /\ cr.synced)
  /\ cr' = [cr EXCEPT !.phase = "binded", !.synced = TRUE, !.bound = cr.snap]
  /\ req' = Outdated
  /\ UNCHANGED <<stores, given, drawn, logins, deleted, faults, now>>

OperatorFails ==
  /\ cr.phase \notin {"absent", "failed"} /\ ~Expired
  /\ cr' = [cr EXCEPT !.phase = "failed"]
  /\ req' = Outdated
  /\ UNCHANGED <<stores, given, drawn, logins, deleted, faults, now>>

OperatorUnbinds ==
  /\ cr.phase \notin {"absent", "unbound"} /\ Expired
  /\ cr' = [cr EXCEPT !.phase = "unbound", !.bound = Never]
  /\ req' = Outdated
  /\ UNCHANGED <<stores, given, drawn, logins, deleted, faults, now>>

-----------------------------------------------------------------------------
(* The rest of the environment.                                            *)

\* An administrator deletes the CR, and with it the account and the bindings.
DeleteCR ==
  /\ cr.phase # "absent" /\ faults < MaxFaults
  /\ faults' = faults + 1
  /\ cr' = Absent
  /\ deleted' = now
  /\ req' = Outdated
  /\ UNCHANGED <<stores, given, drawn, logins, now>>

\* The broker restarts: its requests are lost, and the store if in memory.
Restart ==
  /\ faults < MaxFaults
  /\ faults' = faults + 1
  /\ req' = [h \in Handler |-> Idle]
  /\ \/ UNCHANGED stores
     \/ auth' = Empty /\ codes' = Empty /\ refresh' = Empty
  /\ UNCHANGED <<cr, given, drawn, logins, deleted, now>>

\* How long a request may be at a call.
Patience(pc) == IF pc = "wait" THEN WaitTimeout ELSE MaxDelay

\* Time passes as far as calls return and the operator unbinds on time.  What
\* expired is dropped.
Tick ==
  /\ now < MaxTime
  /\ \A h \in Handler : ~At(h, "idle") => now < req[h].since + Patience(req[h].pc)
  /\ cr.bound # Never => ~Expired
  /\ now' = now + 1
  /\ auth' = Without(auth, Stale(auth, now'))
  /\ codes' = Without(codes, Stale(codes, now'))
  /\ refresh' = Without(refresh, Stale(refresh, now'))
  /\ UNCHANGED <<req, cr, given, drawn, logins, deleted, faults>>

\* What a handler does by itself, when its calls return.
Step(h) ==
  \/ Authenticate(h) \/ UpsertGet(h) \/ UpsertPut(h) \/ UpsertConflict(h)
  \/ WaitBinded(h) \/ WaitFails(h) \/ Mint(h) \/ SaveRefresh(h) \/ SaveCode(h)

Request(h) == (\E l \in Login : Callback(h, l)) \/ (\E k \in Key : TakeRefresh(h, k))

Operator == OperatorBinds \/ OperatorFails \/ OperatorUnbinds

Next ==
  \/ Authorize \/ Operator \/ DeleteCR \/ Restart \/ Tick
  \/ \E h \in Handler : Step(h) \/ CallFails(h) \/ Request(h)
  \/ \E k \in Key : RedeemCode(k)

Spec == Init /\ [][Next]_vars

\* Goroutines run, calls return, the operator's expiry timer fires and time
\* passes.
LiveSpec ==
  /\ Spec
  /\ \A h \in Handler : WF_vars(Step(h))
  /\ WF_vars(OperatorUnbinds) /\ WF_vars(Tick)

-----------------------------------------------------------------------------
(* Properties.                                                             *)

\* The means of a login to go on: its pending login state, a request that has yet
\* to save a refresh token, or a refresh token.
Means(l) ==
  {<<"login", l>> : k \in DOMAIN auth \cap {l}}
  \cup {<<"request", h>> : h \in {g \in Handler : req[g].login = l /\ req[g].pc # "code"}}
  \cup {<<"refresh", k>> : k \in {j \in DOMAIN refresh : refresh[j].val.login = l}}

\* Rotation: whatever is replayed, fails half way or is lost, a login has at
\* most one means to go on at any time.
OneTokenPerSession == \A l \in Login : \A x, y \in Means(l) : x = y

\* A session is of the user who went through its own login at the IdP, at the
\* login and through all its refreshes, whatever logins run at the same time.
OwnIdentity ==
  /\ \A k \in DOMAIN refresh : refresh[k].val.who = refresh[k].val.login
  /\ \A h \in Handler : req[h].pc \notin {"idle", "authenticate"} => req[h].who = req[h].login

\* A refresh token is given out in one response only, by a code that is redeemed
\* once or by the refresh that drew it.
GivenOnce == \A k \in Key : given[k] <= 1

\* A session and the bind share one window: while the CR exists, a refresh token
\* outlives the bind by no more than issuing it took after the renewal.
SharedWindow ==
  cr.phase # "absent" /\ RefreshTTL <= BindTTL =>
    \A k \in DOMAIN refresh :
      refresh[k].exp <= cr.renewed + BindTTL + WaitTimeout + 2 * MaxDelay

\* Every request is answered, by the timeout of WaitBinded if by nothing else.
RequestsAnswered == \A h \in Handler : ~At(h, "idle") ~> At(h, "idle")

\* Cached groups expire with the bind: memberships that the IdP reported once
\* give access for no longer than BIND_TTL.
SnapshotBounded == cr.bound # Never => now <= cr.bound + BindTTL + 3 * MaxDelay

\* Deleting the CR revokes the user's access until the next login.
DeletionRevokes == cr.bound # Never => cr.bound >= deleted
=============================================================================
