# Verification of kube-argus

kube-argus gives users of an identity provider (IdP) short-lived access to a
Kubernetes cluster. These TLA+ modules model how its parts work together, TLC
checks them on small instances, and TLAPS proves the central properties for every
value of the constants. `PROJECT.json` lists components, runs, mutants, hazards,
findings and theorems, and maps each definition to the source lines it models.

## The system

| Part | Source | Modelled by |
| --- | --- | --- |
| Operator: reconciles a `UserAuthenticationBind` (CR) into a ServiceAccount and (Cluster)RoleBindings, and revokes them at expiry or deletion | `operator/internal/controller`, `operator/api/v1` | `BindOperator` |
| Broker: OIDC provider for clients; on login and on refresh it writes the CR, waits for the operator, mints a token and keeps a rotating refresh token | `service/internal/broker`, `service/internal/k8s` | `Broker` |
| Session store: login states, codes and refresh tokens, in memory or on Redis | `service/internal/store` | `SessionStore`, which implements `OneShot`; both stores are maps of `StoreOps` |
| Proxy: swaps a broker id_token for a cached ServiceAccount token | `service/internal/proxy`, `service/cmd/proxy` | `TokenProxy` |
| Broker and operator at work on one CR | `service/internal/k8s/bind.go` and the controller | `BindHandshake`, on top of `BindOperator` |
| The broker's configuration and the back ends, the key and the verifier that come of it | `service/internal/config`, `service/cmd`, `service/internal/broker/signer.go` | `Settings` |
| Identity providers, the CR that is written for an identity, the account that an id_token is swapped for | `service/internal/idp`, `service/internal/k8s`, the CRD's validation | `Identities` |
| The broker from its start, through a first login, to its requests | `service/cmd/server`, `Callback` | `SignOn`: `Settings` and `Identities` before `Broker` |
| Manager start-up, HTTP wiring, generated code | `operator/cmd`, the rest of `service/` | not modelled, or one step of the above |

The broker talks to the operator only through the CR; the proxy meets both only
in the ServiceAccount. `Broker` contains a three-action view of the operator,
`BindOperator` a one-action view of the broker (`Upsert`), `TokenProxy` sees
ServiceAccounts come and go. `BindHandshake` replaces the one-action view by the
calls that requests make, and shows that nothing is lost by it.

## BindOperator

One CR name. `cr`, `sa` and `bindings` are the API server's objects; `crCache`,
`saCache` and `seen` are the operator's informers, each of which lags on its own
when it is in `Laggy`. `rec` is the running reconcile: its `pc` names the next API
call, and everything the code does between two calls belongs to the step before.
`due` is the work queue's single entry for the CR. Resource versions are not
counted: `crFresh` and `rec.fresh` say whether a version in hand is still the
server's, and `rec.moved` whether it differs from the patch's baseline, which is
what makes a merge patch carry it.

* `Reconcile*`: the worker takes the CR and decides what to do.
* `AddFinalizer`, `RemoveFinalizer`, `UpdateFails`: updates with a resource version.
* `Patch*`: `updatePhase`, a merge patch against the status at the reconcile's
  start; a field that equals the baseline is not sent (`Merge`).
* `Account*`: `ensureServiceAccount`. An account that still belongs to an earlier
  CR makes it fail: the operator's role lacks `update` on ServiceAccounts.
* `ListRoles`, `CreateBinding`, `ListStale`, `DeleteBinding`, `Sync*`:
  `syncBindings`, for ClusterRoles and then for Roles.
* `ListOwned`, `DeleteBinding`, `DeleteFails`, `Revoked`: `deleteOwned`.
* Environment: watches, resync, restart, the broker's `Upsert`, `kubectl` (apply,
  delete, edit, annotate, delete of the account), the garbage collector, the clock.

Abstracted: names, namespaces and messages. The Ready condition is its reason,
which determines status and phase, and its transition time; the message (it
names the number of memberships, or an error) is left out. A change of
`spec.user` is not modelled. Leader election is taken to work: one worker.

## BindHandshake

`req` adds the requests of the broker to the state of `BindOperator`: each reads the
CR (`got`), writes back that copy with its own memberships, TTL and renewal stamp if
the version is still the server's, or fails, and polls until the phase is binded or
failed, the CR is gone, or it gives up. `first` marks a request that created the CR
and has not been overtaken by another write. All other steps are those of
`BindOperator`; a write of theirs outdates the versions that requests hold. The
clock stands still while a request waits: a wait takes seconds, a tick is an hour.

That a copy read some calls before is written back is what could go wrong here:
`ImplementsOperator` says that it undoes nothing, since every such write is an `Upsert`
of the CR as it then is. Without the resource version it is not.

What `WaitBinded` promises is little, and the properties say how much: a CR that
says binded has its own account (so `Mint` finds one), and the login that created
the CR is answered with its bindings in place. A later login is not: it may find
the phase of the write before its own, which the code does not tell apart.

## Settings, Identities and SignOn

`Settings` is `Load` and `validate` with their defaults, the store, provider and key
that `run` builds from them, and the proxy's verifier. An environment is a record
of its variables. Lists and issuers are sequences of characters, since the
properties are about separators, blanks and slashes; what is only tested for being
there is a string. `BIND_TTL` is one of the forms that a duration can have (a whole
number with its unit, a sum, a fraction, a sign, none), of which Go takes four and
the CRD one. Lifetimes in seconds are constants of `Broker`.

`Identities` follows an IdP's answer: the identity that each provider makes of it
(domain, groups claim or directory page), the policy of `Callback`, the CR, what a
refresh grant keeps of the identity and restores, and the id_token. "a" stands for
letters and digits, "A" for upper case, "@" for everything else. A group of the
directory has an id and a name of its own, either of which may be empty: the code
leaves neither out. Of the IdP it is assumed that a verified email is not empty.

`SignOn` puts both in front of `Broker`: `start` holds what the process starts with,
`Run` leads to a first login if the broker accepts it, and `login` is that login: the
exchange, for Google one step per page of the directory, any of which may fail, and
the policy. What follows the policy is `Broker`, whose steps begin once that login is
over. A broker that does not accept its environment stays where it is, like the
process that exits.

## Broker

One user with several sessions. `auth`, `codes` and `refresh` are the session
store's maps; `req` holds what each handler goroutine is doing, call by call; `cr`
is the CR as the broker sees it: phase, renewal stamp, the memberships written
(`snap`) and those the bindings reflect (`bound`). Memberships are represented by
the time at which the IdP reported them. `who` is the login whose nonce the IdP's
id_token carried, to be told apart from the login that the request belongs to. `Upsert` is a read and an update that
fails when anybody wrote in between. Any call may fail (`CallFails`); checks of
client, secret and PKCE are a choice, made after the token is taken, as in the
code. Clients present what they were given as often as they like; the map keeps
only entries that are not expired, since `SessionStore` shows when entries go.
`given` counts the responses that carry a refresh token.

## SessionStore and OneShot

`OneShot` is what the broker relies on: a saved value is taken at most once and
not after its deadline, and is not lost before, unless a fault is to blame.
`SessionStore` has both backends: the memory store with its sweeper, whose ticker's
time may be old when it gets the lock, and Redis, where a `GETDEL` may succeed and
its answer be lost. At the very instant of expiration memory still returns the
value and Redis does not; `OneShot` allows both. The mapping turns an entry in the
map into a held key, and a key that was saved and is no longer there into a spent one.

## TokenProxy

Handlers look up the cache, mint outside the lock and store afterwards. A token
lives from its issue at the API server, its cache entry from the arrival of the
answer. `LatencyAssumption` says what the code relies on and does not check: the
answer's delay and `cacheTTL` (80 % of the requested lifetime) fit into the
lifetime that the API server grants.

## Runs

| Run | Checks | Bounds |
| --- | --- | --- |
| `operator_revocation` | `TypeOK`, `UnboundIsRevoked`, `SettledIsBound` | an upsert, TTL edit, annotation and tick, an apply or a dropped account, a failing call or a restart or a resync (`Disturbances`); current informers |
| `operator_liveness` | `DeletionCompletes`, `Settles` | upsert, deletion, two failing calls, a tick; all informers lag; no Role |
| `token_proxy` | `TypeOK`, `ForwardsLiveToken`, `StaleTokenBounded` | two handlers, two accounts, two ServiceAccount uids, time 5 |
| `session_store` | `TypeOK`, `ImplementsOneShot` | three keys, lifetimes 1 and 2, two faults, time 4; both backends |
| `bind_handshake` | `RequestsOK`, `BindedHasAccount`, `SettledIsBound`, `NoOrphanedBindings`, `SameIncarnation`, `ImplementsOperator`, `FirstLoginInPlace` | two handlers, two upserts, a deletion, a failing call or a tick (`FaultOrTick`); CR and account informers lag; no Role |
| `broker` | `TypeOK`, `OneTokenPerSession`, `OwnIdentity`, `GivenOnce`, `SharedWindow`, `RequestsAnswered` of the requests; `StoreAsNamed`, `SomebodyCanLogIn`, `NamesAreSubdomains`, `AdmittedIsAccepted`, `AllGroupsOrNone`, `SwappedForOwnAccount` of the start and the first login | two handlers, two logins, three refresh tokens, one fault, time 3; see below for the start |
| `operator_leak` | violates `NoOrphanedBindings` | binding informer lags |
| `operator_unbound` | violates `UnboundIsRevoked` | two upserts, one tick; CR informer lags |
| `operator_straddle` | violates `ExpiredIsRevoked` | one upsert, one tick |
| `operator_recreate` | violates `SettledConverges` | delete and re-create |
| `broker_snapshot` | violates `SnapshotBounded` | one login, refreshes |
| `broker_deletion` | violates `DeletionRevokes` | one login, one deletion |

The operator runs use one ClusterRole, one Role and one group: the two halves of
`syncBindings` and `deleteOwned` each have something to do, and each loop can be
interrupted before, between and after its calls. (`operator_liveness` does without
the Role, which leaves room for a second failing call.) The budgets of the
environment's steps are split over the runs, and in two runs a constraint lets a
behaviour have one or the other, so that every kind of step meets those it can disturb
most. Two upserts and one deletion are the smallest number with two
incarnations of the CR. In the broker three refresh tokens allow two logins and a
refresh, or one login and two refreshes in a row; lifetimes of two ticks let tokens and
binds expire in the run. Calls other than the wait take no time there
(`MaxDelay` 0), which keeps all interleavings and bounds only the clock.

The handshake has one ClusterRole and one group: its questions are about the order
of writes and polls, of two requests and an operator that each hold an older copy of
the CR, and the two halves of `syncBindings` are in the operator runs. Its handlers
are symmetric.

The start of `broker` covers environments that differ from a plain one in two
variables, which is where rules of `validate` meet; lists of up to two characters
out of a value, a blank and a comma; all emails of up to five characters with names
cut at four, so that separators fall on both sides of the cut; claims with any
mixture of a group, an empty string and something that is no string; and directories
of up to three pages, of groups with and without a name, that fail on any. Two
processes stand for replicas and for restarts. Two of these properties have a premise
that the code does not secure: `AdmittedIsAccepted` needs a `BIND_TTL` that the CRD
takes ("1h30m" and "1.5h" pass `Load`, and then every login fails) and a directory
that names its groups; `SwappedForOwnAccount` needs a configured key (with generated
ones a replica does not verify the tokens of another) and an issuer without a slash at
its end (the signer trims it, the proxy's verifier does not).

`SettledIsBound` holds for phase, expiry, bindings and the queued expiry, with two
exceptions written into it: `ServiceAccountFailed`, and roles that were edited
(`RolesStay`), since they are listed and not watched. It says nothing of the Ready
condition, whose reason may be that of an earlier reconcile. It does need current
binding informers: with a lagging one TLC finds a CR that has settled with one
binding too many, because pruning did not see it.

`Settles` is about the end of reconciles and about what they leave for a request
that waits. The status patch is a difference to the status at the reconcile's start,
so a sync that fails for the second time in a row sends no phase and leaves the CR
in binding. It does not stay there: the reconcile's own patch to binding is an event
that brings the next one, and `Settles` holds with that status among the ones that
may not last.

Six statements of the repository's comments and docs do not hold of the code; the
violation runs show how, and `findings` quotes them.

Fairness. The operator's worker retries with backoff and its watches are
re-established by client-go, so `operator_liveness` assumes weak fairness of the
worker as a whole, of each watch and of the garbage collector; nothing is assumed
of users, faults, the clock or resyncs. `broker` assumes that goroutines run and
their calls return, that the operator's expiry comes, and that time passes;
failing calls and the operator's answer are not assumed, so that the timeout of
`WaitBinded` is what ends a wait.

## Proofs

| Theorem | Statement | Assumptions |
| --- | --- | --- |
| `TypeCorrect` | `Spec => []TypeOK` of `BindOperator` | those on constants |
| `NoOrphans` | `Spec => []NoOrphanedBindings` | binding informers are current |
| `OneIncarnation` | `Spec => []SameIncarnation` | none on informers |
| `UnboundHasNoAccess` | `Spec => []UnboundIsRevoked` | CR and binding informers are current |
| `SettledBinds` | `Spec => []SettledIsBound` | binding informers are current |
| `LiveTokens` | `Spec => []ForwardsLiveToken` of `TokenProxy` | `LatencyAssumption` |
| `StaleTokensEnd` | `Spec => []StaleTokenBounded` | `LatencyAssumption` |
| `ProxyTyped` | `Spec => []TypeOK` of `TokenProxy` | those on constants |
| `OneShotStore` | `Spec => Abstract!Spec` of `SessionStore` | positive lifetimes |
| `StoreTyped` | `Spec => []TypeOK` of `SessionStore` | positive lifetimes |
| `RequestsAreUpserts` | `HandshakeSpec => Spec` of `BindOperator` | those on constants |
| `RequestsTyped` | `HandshakeSpec => []RequestsOK` | those on constants |
| `BindedOwnsAccount` | `HandshakeSpec => []BindedHasAccount` | none on informers |
| `FirstLoginBound` | `HandshakeSpec => FirstLoginInPlace` | binding informers are current, roles and TTLs are not edited |
| `BrokerTyped` | `Spec => []TypeOK` of `Broker` | those on constants |
| `SessionsKeepTheirUser` | `Spec => []OwnIdentity` | those on constants |
| `SessionsNeverFork` | `Spec => []OneTokenPerSession` | those on constants |
| `RefreshTokensGivenOnce` | `Spec => []GivenOnce` | those on constants |
| `SessionsEndWithTheBind` | `Spec => []SharedWindow` | those on constants |
| `StoreIsNamed`, `LoginsArePossible` | `StartSpec => []P`, `P` being `StoreAsNamed`, `SomebodyCanLogIn` | `StartAssumption`: lists are texts |
| `GroupsAreComplete` | `StartSpec => []AllGroupsOrNone` | `StartAssumption`: pages are sets of groups |
| `EmailsAreNamed` | `StartSpec => []NamesAreSubdomains` | names may be as long as "user" |
| `AdmittedGetsCR` | `StartSpec => []AdmittedIsAccepted` | `StartAssumption` |
| `TokensSwapForOwnAccount` | `StartSpec => []SwappedForOwnAccount` | `StartAssumption`: a verified email is there |

`NoOrphanedBindings` is not inductive: that removing the finalizer leaves nothing
behind depends on what the reconcile has deleted, on the CR not having been
bound by anyone else since, and on what the cache may say of an older CR.
`BindOperatorRevocation` layers this: `CacheInv` (a cached CR is the server's or an
earlier one, and a deletion mark or a finalizer is never unlearned), `HeldInv` (a
reconcile that binds works for a CR that still carries the finalizer),
`DeletedInv` and `OwnedInv` (what a finished loop of `deleteOwned` has emptied
stays empty, and every binding belongs to the current CR). The last two are
conditional on current binding informers, so that the invariant is inductive
without that assumption and gives `OneIncarnation` whatever lags. `PhaseInv` and
`RevokedInv` do the same for the phase: unbound is only written over an empty set
of bindings, and a reconcile that binds moves the phase first. The assumption on
the binding informers is needed: `operator_leak` is the counterexample without it.
`UnboundIsRevoked` also needs a current CR informer, and `operator_unbound` is the
counterexample without it. A renewal arrives while an expired CR is being revoked,
unbound is written, and the next reconcile still reads binded from its cache; it skips
the patch to binding and creates bindings while the server says unbound. Its last
patch corrects the phase, unless the operator stops before and the CR has expired when
it is back: an expired CR that says unbound is skipped, and TLC finds a settled state
in which its bindings remain.

`SettledIsBound` says nothing while a reconcile runs, so its invariant, in
`BindOperatorSettled`, has to say what a reconcile leaves if it were the last.
`QuietInv` does it for the CR: every write from outside, and every status write of the
reconcile itself, is an event that makes the CR due again; as long as nothing is due
(`Quiet`), what the reconcile has in hand is what the server has, but for the expiry
that its last patch will write. `SyncedInv` does it for the bindings: what a loop of
`syncBindings` has still to create or delete is all that separates the bindings from
the memberships in hand, and a half that is done stays done. Both hold for as long as
the annotations of roles stay, which `RolesStay` makes a premise of the property, and
need the binding informers to be current, or pruning misses what was just created.

`ProxyInv` says that a cached token was issued no longer than `MaxLatency` before
its entry was made, and that an answer under way is no older than that.
`SweepInv` says that the sweeper's time is not ahead of the clock, so what it removes
has expired; every step of the store is then a step of `OneShot` or a stutter.

`RequestsAreUpserts` rests on `RequestsInv`: as long as the version that a request read
is the server's, its copy is the server's CR (`CopiesCurrent`), so that writing it back
with new memberships is an `Upsert` of the current one; a write by anybody ends that.
By this theorem what is proved of `BindOperator` holds of broker and operator
together. `BindedHasAccount` is not inductive: the status is written by a reconcile
that took the account from an informer some calls before. `OwnsInv` says that an
account of the current CR stays while the CR does, so that an informer or a status
that names it has it right; `HandInv` says that a reconcile which grants access has
that account in hand, and that the status it started from names it or none. They
rest on the invariant behind `NoOrphans`, which ties a reconcile to one incarnation.
The premise, that nobody deletes the account behind the operator's back, is kept
by every step but that deletion.

`FirstLoginInPlace` is about the moment at which a request ends, and needs to know
what the operator can have done since the request created the CR. `Placed` says it:
the informer and the reconcile have the memberships that were written, no reconcile
revokes the CR unless its TTL was over from the start, and once the CR says binded its
bindings are those of its memberships. `FirstInv` holds `Placed` for as long as some
request waits for the CR it created and nobody has written it since. TTL edits are
excluded because an edit to a TTL that is over revokes the bindings while the phase
still says binded.

`BrokerProofs` has four layers. `ShapeInv` bounds keys and logins by what was drawn,
and ties a request's user to its login; it gives `TypeOK` and `OwnIdentity`.
`SessionInv` spells out `OneTokenPerSession` as a pending login, an open request and a
refresh token excluding one another for the same login. `GivenInv` says that a
refresh token nobody has yet is held by one request or one code. `WindowInv` bounds,
for every point of a request, how long ago the CR was renewed, and so the expiry of
the token that the request saves.

`SignOnProofs` proves the properties of the start and the first login for environments,
answers and texts of any length. Those of the start are facts about `Settings` and
`Identities`. Those of the login need `LoginInv`: what was listed so far are the groups
of the pages before the next one (`FirstPages`, kept by `OnePageMore`), an identity is
made only of the claims or of all pages, and who is in has passed the policy. `LetIn` and
`AllPages` draw from it what the properties ask. No text needs an induction: a least
and a greatest index exist because the naturals are well-founded, `Trimmed` says what
`Trim` leaves, and `DashedEnds`, `CutEnds`, `NameIsSubdomain` and `NameStays` follow the
stages of `SanitizeName`. `FieldsOfList` (no field of a list is empty) gives that an
allowed domain is there, and `Storable` that the CR of an admitted identity is accepted.

Only model-checked: liveness (`DeletionCompletes`, `Settles`, `RequestsAnswered`),
which is outside the prover's reach.

## Not modelled

* The operator's view in `Broker` (three actions) is not shown to be implemented by
  `BindOperator`; the other direction is `RequestsAreUpserts`.
* Two emails with one name (`SanitizeName` is not injective), and a change of
  `spec.user`: `BindOperator` has one name and one user.
* The manager's start-up (flags, probes, metrics) and leader election: library
  calls that leave no state of the program's own; one worker is assumed.
* The proxy's caching of the key set, TLS, streaming and headers: the libraries'.
* How `Load` turns lifetimes into seconds, and that it takes zero and negative ones;
  the lifetime and other claims of id_tokens, audiences, scopes, listen addresses.
* Generated deep copies, test utilities, the chart and the documentation site.
