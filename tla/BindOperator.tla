---------------------------- MODULE BindOperator ----------------------------
(***************************************************************************)
(* The operator's reconciliation of one UserAuthenticationBind (CR)        *)
(* against an API server that the broker and administrators also write.    *)
(*                                                                         *)
(* A reconcile is modelled call by call: every request to the API server   *)
(* is a step of its own, and everything the code does between two requests *)
(* belongs to the step before.  Reads go to informer caches, each of which *)
(* may lag behind the server on its own; writes go to the server.          *)
(*                                                                         *)
(* An optimistic lock compares resource versions.  Instead of counting     *)
(* versions the model remembers whether the version in hand is still the   *)
(* server's: crFresh for the informer's copy, rec.fresh for the copy the   *)
(* running reconcile holds.                                                *)
(***************************************************************************)
EXTENDS Integers, FiniteSets

CONSTANTS
  ClusterRole,  \* ClusterRoles, each bound by a ClusterRoleBinding
  NsRole,       \* Roles of all namespaces, each bound by a RoleBinding
  Group,        \* group ids a membership or an annotation may name
  NoGroup,      \* annotation of a role that carries none
  BindTTL,      \* spec.ttl the broker writes
  EditTTLs,     \* spec.ttl values an administrator may write
  Laggy,        \* informers ("cr", "sa", "binding") that may be behind when read
  Budget        \* how often each kind of environment step may happen

NeverTTL == -1  \* a ttl that passes the CRD's pattern but not ParseDuration
NoStamp  == -1  \* no (or no parseable) renewed-at annotation
Never    == -1  \* nothing scheduled

Role == ClusterRole \cup NsRole

\* What the environment may do; "fault" is a failing API call, "tick" time.
EnvKind == {"upsert", "apply", "delete", "ttl", "role", "sa", "fault",
            "crash", "resync", "tick"}

ASSUME RolesAssumption == ClusterRole \cap NsRole = {} /\ NoGroup \notin Group
ASSUME TTLAssumption == BindTTL \in Nat /\ EditTTLs \subseteq Nat \cup {NeverTTL}
ASSUME LaggyAssumption == Laggy \subseteq {"cr", "sa", "binding"}
ASSUME BudgetAssumption == Budget \in [EnvKind -> Nat]

VARIABLES
  cr,        \* the CR on the API server; uid 0 when there is none
  crCache,   \* the CR in the operator's informer
  crFresh,   \* the informer holds the server's version of the CR
  sa,        \* the user's ServiceAccount; uid 0 when there is none
  saCache,   \* the ServiceAccount in the operator's informer
  bindings,  \* the (Cluster)RoleBindings, by owner label and role
  seen,      \* those bindings in the operator's informers
  roles,     \* the group annotation of each role, as the informer has it
  due,       \* when the work queue hands the CR out next
  rec,       \* the running reconcile
  now,       \* the clock
  last,      \* the uids handed out so far, to CRs and to ServiceAccounts
  left       \* what is left of the budget

vars == <<cr, crCache, crFresh, sa, saCache, bindings, seen, roles, due, rec,
          now, last, left>>

caches == <<crCache, saCache, seen>>
world  == <<roles, now, last>>

-----------------------------------------------------------------------------
(* Objects.                                                                *)

Phase == {"", "pending", "binding", "binded", "unbound", "failed"}

\* The reason of the Ready condition determines its status and message.
Reason == {"", "Accepted", "InvalidTTL", "Expired", "ServiceAccountFailed",
           "Syncing", "BindFailed", "Bound"}

\* Mutant: a phase that the CRD's enum does not have.
PhaseOutsideEnum(reason) ==
  CASE reason = "Accepted" -> "pending"
    [] reason = "Syncing"  -> "binding"
    [] reason = "Bound"    -> "bound"
    [] reason = "Expired"  -> "unbound"
    [] OTHER               -> "failed"

\* The phase and the Ready status that updatePhase is called with.
PhaseOf(reason) ==
  CASE reason = "Accepted" -> "pending"
    [] reason = "Syncing"  -> "binding"
    [] reason = "Bound"    -> "binded"
    [] reason = "Expired"  -> "unbound"
    [] OTHER               -> "failed"

ReadyOf(reason) ==
  CASE reason = ""                        -> "none"
    [] reason = "Bound"                   -> "True"
    [] reason \in {"Accepted", "Syncing"} -> "Unknown"
    [] OTHER                              -> "False"

Condition == [reason : Reason, at : Nat]

Status == [phase : Phase, ref : Nat, expiresAt : Int, cond : Condition]

NoStatus == [phase |-> "", ref |-> 0, expiresAt |-> Never,
             cond |-> [reason |-> "", at |-> 0]]

Bind == [uid : Nat, deleting : BOOLEAN, finalizer : BOOLEAN,
         groups : SUBSET Group, ttl : Nat \cup {NeverTTL}, created : Nat,
         renewed : Nat \cup {NoStamp}, status : Status]

NoBind == [uid |-> 0, deleting |-> FALSE, finalizer |-> FALSE, groups |-> {},
           ttl |-> 0, created |-> 0, renewed |-> NoStamp, status |-> NoStatus]

NoSA == [uid |-> 0, owner |-> 0]

Binding == [owner : Nat, role : Role]

\* The two halves of syncBindings and of deleteOwned, in their order.
RolesOf(k) == IF k = 1 THEN ClusterRole ELSE NsRole

HalfOf(bs, k) == {b \in bs : b.role \in RolesOf(k)}

\* The bindings that a label query for uid finds among bs, by role.
OwnedIn(bs, uid, k) == {r \in RolesOf(k) : [owner |-> uid, role |-> r] \in bs}

\* The TTL runs from the renewal stamp, or from creation without one.
Expiry(c) == (IF c.renewed = NoStamp THEN c.created ELSE c.renewed) + c.ttl

Expired(c) == c.ttl # NeverTTL /\ now >= Expiry(c)

-----------------------------------------------------------------------------
(* The running reconcile.                                                  *)

PC == {"idle", "finalize", "patch", "account", "roles", "create", "prune",
       "list", "delete", "unfinalize"}

Idle == [pc |-> "idle", bind |-> NoBind, orig |-> NoStatus, fresh |-> FALSE,
         moved |-> FALSE, goal |-> "", expiry |-> 0, sa |-> 0, k |-> 1,
         want |-> {}, todo |-> {}]

Reconcile ==
  [pc : PC,
   bind   : Bind,          \* the object in hand
   orig   : Status,        \* its status as fetched, the baseline of patches
   fresh  : BOOLEAN,       \* its resource version is still the server's
   moved  : BOOLEAN,       \* its resource version differs from the baseline's
   goal   : Reason,        \* the reason of the status patch to come
   expiry : Int,           \* anchor + ttl, computed once
   sa     : Nat,           \* uid of the ServiceAccount
   k      : {1, 2},        \* ClusterRoleBindings, then RoleBindings
   want   : SUBSET Role,   \* desired roles of this half
   todo   : SUBSET Role]   \* calls still to make in this loop

TypeOK ==
  /\ cr \in Bind /\ crCache \in Bind /\ crFresh \in BOOLEAN
  /\ sa \in [uid : Nat, owner : Nat] /\ saCache \in [uid : Nat, owner : Nat]
  /\ bindings \subseteq Binding /\ seen \subseteq Binding
  /\ roles \in [Role -> Group \cup {NoGroup}]
  /\ due \in Nat \cup {Never}
  /\ rec \in Reconcile
  /\ now \in Nat
  /\ last \in [cr : Nat, sa : Nat]
  /\ left \in [EnvKind -> Nat]

Init ==
  /\ cr = NoBind /\ crCache = NoBind /\ crFresh = TRUE
  /\ sa = NoSA /\ saCache = NoSA
  /\ bindings = {} /\ seen = {}
  /\ roles \in [Role -> Group \cup {NoGroup}]
  /\ due = Never
  /\ rec = Idle
  /\ now = 0
  /\ last = [cr |-> 0, sa |-> 0]
  /\ left = Budget
-----------------------------------------------------------------------------
(* Shared steps.                                                           *)

Spend(kind) == left[kind] > 0 /\ left' = [left EXCEPT ![kind] = @ - 1]

\* The queue holds the CR once, at the earliest time asked for.
Earliest(t) == IF due = Never \/ t < due THEN t ELSE due

\* RequeueAfter: time.Until(expiry); a duration that is not positive asks for
\* no requeue at all.
RequeueAt(t) == IF t > now THEN Earliest(t) ELSE due

\* The server stores c as a new version of the CR.
Store(c) == cr' = c /\ crFresh' = FALSE

\* Mutant: the error is logged and not returned.
AbortSwallowed == rec' = Idle /\ UNCHANGED due

\* Reconcile returns an error: the queue hands the CR out again.
Abort == rec' = Idle /\ due' = Earliest(0)

\* An API call of the running reconcile fails.
Fault == Spend("fault")

-----------------------------------------------------------------------------
(* Reconcile up to its first API call.                                     *)

\* The worker takes the CR from the queue and reads it from the informer.
Dequeue ==
  /\ rec.pc = "idle"
  /\ due # Never /\ due <= now
  /\ "cr" \in Laggy \/ crFresh
  /\ due' = Never
  /\ UNCHANGED <<cr, crFresh, sa, bindings, caches, world, left>>

Proceed(pc, goal) ==
  rec' = [Idle EXCEPT !.pc = pc, !.goal = goal, !.bind = crCache,
                      !.orig = crCache.status, !.fresh = crFresh,
                      !.expiry = Expiry(crCache)]

\* Mutant: binds a CR before it carries the finalizer.
ObservedUnfinalized == crCache.uid # 0 /\ ~crCache.deleting

\* Past the deletion and finalizer checks.
Observed == crCache.uid # 0 /\ ~crCache.deleting /\ crCache.finalizer

\* Past pending as well.
Admitted == Observed /\ crCache.status.phase # ""

ReconcileNothing ==
  /\ Dequeue
  /\ \/ crCache.uid = 0
     \/ crCache.deleting /\ ~crCache.finalizer
     \/ Admitted /\ Expired(crCache) /\ crCache.status.phase = "unbound"
  /\ rec' = Idle

\* Mutant: removes the finalizer without deleteOwned.
ReconcileDeleteKeeping ==
  /\ Dequeue
  /\ crCache.uid # 0 /\ crCache.deleting /\ crCache.finalizer
  /\ Proceed("unfinalize", "")

ReconcileDelete ==
  /\ Dequeue
  /\ crCache.uid # 0 /\ crCache.deleting /\ crCache.finalizer
  /\ Proceed("list", "")

ReconcileFinalizer ==
  /\ Dequeue
  /\ crCache.uid # 0 /\ ~crCache.deleting /\ ~crCache.finalizer
  /\ Proceed("finalize", "")

ReconcilePending ==
  /\ Dequeue
  /\ Observed /\ crCache.status.phase = ""
  /\ Proceed("patch", "Accepted")

ReconcileInvalidTTL ==
  /\ Dequeue
  /\ Admitted /\ crCache.ttl = NeverTTL
  /\ Proceed("patch", "InvalidTTL")

\* Mutant: writes unbound without deleteOwned.
ReconcileExpiredKeeping ==
  /\ Dequeue
  /\ Admitted /\ Expired(crCache) /\ crCache.status.phase # "unbound"
  /\ Proceed("patch", "Expired")

ReconcileExpired ==
  /\ Dequeue
  /\ Admitted /\ Expired(crCache) /\ crCache.status.phase # "unbound"
  /\ Proceed("list", "Expired")

ReconcileBind ==
  /\ Dequeue
  /\ Admitted /\ crCache.ttl # NeverTTL /\ ~Expired(crCache)
  /\ Proceed("account", "")

-----------------------------------------------------------------------------
(* Finalizer: Update carries the resource version of the object in hand.   *)

AddFinalizer ==
  /\ rec.pc = "finalize" /\ rec.fresh
  /\ Store([cr EXCEPT !.finalizer = TRUE])
  /\ rec' = Idle
  /\ UNCHANGED <<sa, bindings, caches, world, due, left>>

\* The last finalizer of a CR that is being deleted goes, and the CR with it.
RemoveFinalizer ==
  /\ rec.pc = "unfinalize" /\ rec.fresh
  /\ Store(NoBind)
  /\ rec' = Idle
  /\ UNCHANGED <<sa, bindings, caches, world, due, left>>

UpdateFails ==
  /\ rec.pc \in {"finalize", "unfinalize"}
  /\ \/ ~rec.fresh /\ UNCHANGED left
     \/ Fault
  /\ Abort
  /\ UNCHANGED <<cr, crFresh, sa, bindings, caches, world>>

-----------------------------------------------------------------------------
(* updatePhase: a merge patch of the status against the fetched baseline.  *)

\* SetStatusCondition keeps the transition time while the status stays.
SetCondition(cond, reason) ==
  [reason |-> reason,
   at |-> IF ReadyOf(cond.reason) = ReadyOf(reason) THEN cond.at ELSE now]

\* The status in hand after updatePhase has set phase and condition.
Mutated == [rec.bind.status EXCEPT !.phase = PhaseOf(rec.goal),
                                   !.cond = SetCondition(@, rec.goal)]

\* A field that equals the baseline's is not part of the patch.
Keep(base, mine, theirs) == IF mine = base THEN theirs ELSE mine

Merge(base, mine, theirs) ==
  [phase     |-> Keep(base.phase, mine.phase, theirs.phase),
   ref       |-> Keep(base.ref, mine.ref, theirs.ref),
   expiresAt |-> Keep(base.expiresAt, mine.expiresAt, theirs.expiresAt),
   cond      |-> Keep(base.cond, mine.cond, theirs.cond)]

\* The CR as the server has it after the patch.
Patched == [cr EXCEPT !.status = Merge(rec.orig, Mutated, cr.status)]

\* Once the object in hand has another resource version than the baseline,
\* the patch contains it and the server compares it.
PatchAccepted == cr.uid # 0 /\ (rec.moved => rec.fresh)

Patch ==
  /\ rec.pc = "patch" /\ PatchAccepted
  /\ cr' = Patched
  /\ crFresh' = (crFresh /\ Patched = cr)
  /\ UNCHANGED <<sa, bindings, caches, world, left>>

\* pending asks for a requeue in one second, less than a tick of the clock.
PatchPending ==
  /\ Patch
  /\ rec.goal = "Accepted"
  /\ rec' = Idle
  /\ due' = Earliest(0)

\* The response overwrites the object in hand, spec included.
PatchBinding ==
  /\ Patch
  /\ rec.goal = "Syncing"
  /\ rec' = [rec EXCEPT !.pc = "roles", !.bind = Patched, !.fresh = TRUE,
                        !.moved = @ \/ ~rec.fresh \/ Patched # cr]
  /\ UNCHANGED due

PatchBinded ==
  /\ Patch
  /\ rec.goal = "Bound"
  /\ rec' = Idle
  /\ due' = RequeueAt(rec.expiry)

\* failed and unbound end the reconcile without a requeue.
PatchEnded ==
  /\ Patch
  /\ rec.goal \in {"InvalidTTL", "Expired", "ServiceAccountFailed", "BindFailed"}
  /\ rec' = Idle
  /\ UNCHANGED due

PatchFails ==
  /\ rec.pc = "patch"
  /\ \/ ~PatchAccepted /\ UNCHANGED left
     \/ Fault
  /\ Abort
  /\ UNCHANGED <<cr, crFresh, sa, bindings, caches, world>>
-----------------------------------------------------------------------------
(* ensureServiceAccount: CreateOrUpdate on the informer's view.            *)

\* Mutant: writes binding on every reconcile.
AccountReadyAlways(uid) ==
  rec' = [rec EXCEPT !.pc = "patch", !.goal = "Syncing", !.sa = uid,
                     !.bind.status.ref = uid]

\* binding is written only when the fetched phase was not binded.
AccountReady(uid) ==
  rec' = IF rec.orig.phase = "binded"
         THEN [rec EXCEPT !.pc = "roles", !.sa = uid]
         ELSE [rec EXCEPT !.pc = "patch", !.goal = "Syncing", !.sa = uid,
                          !.bind.status.ref = uid]

AccountView == IF "sa" \in Laggy THEN saCache ELSE sa

AccountFound ==
  /\ rec.pc = "account"
  /\ AccountView.uid # 0 /\ AccountView.owner = rec.bind.uid
  /\ AccountReady(AccountView.uid)
  /\ UNCHANGED <<cr, crFresh, sa, bindings, caches, world, due, left>>

AccountCreate ==
  /\ rec.pc = "account"
  /\ AccountView.uid = 0 /\ sa.uid = 0
  /\ sa' = [uid |-> last.sa + 1, owner |-> rec.bind.uid]
  /\ last' = [last EXCEPT !.sa = @ + 1]
  /\ AccountReady(last.sa + 1)
  /\ UNCHANGED <<cr, crFresh, bindings, caches, roles, due, now, left>>

\* Mutant: the error is dropped, and the reconcile goes on with the account it has.
AccountFailsIgnored ==
  /\ rec.pc = "account"
  /\ \/ AccountView.uid = 0 /\ sa.uid # 0 /\ UNCHANGED left
     \/ AccountView.uid # 0 /\ AccountView.owner # rec.bind.uid /\ UNCHANGED left
     \/ Fault
  /\ AccountReady(AccountView.uid)
  /\ UNCHANGED <<cr, crFresh, sa, bindings, caches, world, due>>

\* AlreadyExists behind a lagging informer; or the account still belongs to
\* an earlier CR of that name: SetControllerReference rewrites the owner, and
\* the operator's role lets it create ServiceAccounts but not update them.
AccountFails ==
  /\ rec.pc = "account"
  /\ \/ AccountView.uid = 0 /\ sa.uid # 0 /\ UNCHANGED left
     \/ AccountView.uid # 0 /\ AccountView.owner # rec.bind.uid /\ UNCHANGED left
     \/ Fault
  /\ rec' = [rec EXCEPT !.pc = "patch", !.goal = "ServiceAccountFailed"]
  /\ UNCHANGED <<cr, crFresh, sa, bindings, caches, world, due>>

-----------------------------------------------------------------------------
(* syncBindings: for ClusterRoles, then for Roles, create what is wanted   *)
(* and prune what is owned and not wanted.                                 *)

LoopDone(pc, k) == rec.pc = pc /\ rec.todo = {} /\ rec.k = k

HalfBegins(k, start, loop) ==
  IF k = 1 THEN rec.pc = start ELSE LoopDone(loop, 1)

\* A label query on the informer of the bindings of half k.
Listed(k) == OwnedIn(IF "binding" \in Laggy THEN seen ELSE bindings, rec.bind.uid, k)

\* groupMatches: the role's annotation is one of spec.memberships.
Matching(k) == {r \in RolesOf(k) : roles[r] \in rec.bind.groups}

ListRoles ==
  /\ \E k \in {1, 2} :
       /\ HalfBegins(k, "roles", "prune")
       /\ rec' = [rec EXCEPT !.pc = "create", !.k = k, !.want = Matching(k),
                             !.todo = Matching(k)]
  /\ UNCHANGED <<cr, crFresh, sa, bindings, caches, world, due, left>>

\* AlreadyExists counts as created.
CreateBinding ==
  /\ rec.pc = "create"
  /\ \E r \in rec.todo :
       /\ bindings' = bindings \cup {[owner |-> rec.bind.uid, role |-> r]}
       /\ rec' = [rec EXCEPT !.todo = @ \ {r}]
  /\ UNCHANGED <<cr, crFresh, sa, caches, world, due, left>>

ListStale ==
  /\ rec.pc = "create" /\ rec.todo = {}
  /\ rec' = [rec EXCEPT !.pc = "prune", !.todo = Listed(rec.k) \ rec.want]
  /\ UNCHANGED <<cr, crFresh, sa, bindings, caches, world, due, left>>

\* Delete ignores NotFound, when pruning and when revoking.
DeleteBinding ==
  /\ rec.pc \in {"prune", "delete"}
  /\ \E r \in rec.todo :
       /\ bindings' = bindings \ {[owner |-> rec.bind.uid, role |-> r]}
       /\ rec' = [rec EXCEPT !.todo = @ \ {r}]
  /\ UNCHANGED <<cr, crFresh, sa, caches, world, due, left>>

SyncFails ==
  /\ rec.pc \in {"roles", "create", "prune"}
  /\ Fault
  /\ rec' = [rec EXCEPT !.pc = "patch", !.goal = "BindFailed"]
  /\ UNCHANGED <<cr, crFresh, sa, bindings, caches, world, due>>

\* Mutant: a renewal that only moves the expiry goes unnoticed.
EstablishedAnyExpiry == rec.orig.phase = "binded" /\ rec.bind.status.ref = rec.sa

\* Nothing to write: already binded, with this ServiceAccount and expiry.
Established ==
  /\ rec.orig.phase = "binded"
  /\ rec.bind.status.ref = rec.sa
  /\ rec.bind.status.expiresAt = rec.expiry

SyncSettled ==
  /\ LoopDone("prune", 2) /\ Established
  /\ rec' = Idle
  /\ due' = RequeueAt(rec.expiry)
  /\ UNCHANGED <<cr, crFresh, sa, bindings, caches, world, left>>

SyncDone ==
  /\ LoopDone("prune", 2) /\ ~Established
  /\ rec' = [rec EXCEPT !.pc = "patch", !.goal = "Bound",
                        !.bind.status.ref = rec.sa,
                        !.bind.status.expiresAt = rec.expiry]
  /\ UNCHANGED <<cr, crFresh, sa, bindings, caches, world, due, left>>

-----------------------------------------------------------------------------
(* deleteOwned, before unbound is written or the finalizer removed.        *)

ListOwned ==
  /\ \E k \in {1, 2} :
       /\ HalfBegins(k, "list", "delete")
       /\ rec' = [rec EXCEPT !.pc = "delete", !.k = k, !.todo = Listed(k)]
  /\ UNCHANGED <<cr, crFresh, sa, bindings, caches, world, due, left>>

DeleteFails ==
  /\ rec.pc \in {"list", "delete"}
  /\ Fault
  /\ Abort
  /\ UNCHANGED <<cr, crFresh, sa, bindings, caches, world>>

Revoked ==
  /\ LoopDone("delete", 2)
  /\ rec' = [rec EXCEPT !.pc = IF rec.goal = "Expired" THEN "patch" ELSE "unfinalize"]
  /\ UNCHANGED <<cr, crFresh, sa, bindings, caches, world, due, left>>

-----------------------------------------------------------------------------
(* The informers, and the operator's process.                              *)

\* A watch event for the CR: the cache moves and the key is queued.
DeliverCR ==
  /\ ~crFresh
  /\ crCache' = cr /\ crFresh' = TRUE
  /\ due' = Earliest(0)
  /\ UNCHANGED <<cr, sa, bindings, world, saCache, seen, rec, left>>

DeliverSA ==
  /\ "sa" \in Laggy /\ saCache # sa
  /\ saCache' = sa
  /\ UNCHANGED <<cr, crFresh, sa, bindings, world, crCache, seen, due, rec, left>>

\* ClusterRoleBindings and RoleBindings are separate watches.
DeliverBindings ==
  /\ "binding" \in Laggy /\ seen # bindings
  /\ \E k \in {1, 2} : seen' = (seen \ HalfOf(seen, k)) \cup HalfOf(bindings, k)
  /\ UNCHANGED <<cr, crFresh, sa, bindings, world, crCache, saCache, due, rec, left>>

\* The periodic resync of the CR informer, every ten hours.
Resync ==
  /\ Spend("resync")
  /\ crCache.uid # 0
  /\ due' = Earliest(0)
  /\ UNCHANGED <<cr, crFresh, sa, bindings, caches, world, rec>>

\* The operator dies and comes back: reconcile, queue and timers are gone, the
\* caches are listed anew and every CR is queued.
Restart ==
  /\ Spend("crash")
  /\ rec' = Idle
  /\ crCache' = cr /\ crFresh' = TRUE /\ saCache' = sa /\ seen' = bindings
  /\ due' = IF cr.uid = 0 THEN Never ELSE 0
  /\ UNCHANGED <<cr, sa, bindings, world>>

-----------------------------------------------------------------------------
(* The broker, administrators, the garbage collector and time.             *)

\* Somebody else stores a version of the CR.
StoreOutside(c) == Store(c) /\ rec' = [rec EXCEPT !.fresh = FALSE]

\* Binder.Upsert: CreateOrUpdate with a new renewal stamp on every login.
Upsert ==
  /\ Spend("upsert")
  /\ \E g \in SUBSET Group :
       LET base == IF cr.uid = 0
                   THEN [NoBind EXCEPT !.uid = last.cr + 1, !.created = now]
                   ELSE cr
       IN /\ StoreOutside([base EXCEPT !.groups = g, !.ttl = BindTTL,
                                       !.renewed = now])
          /\ last' = [last EXCEPT !.cr = IF cr.uid = 0 THEN @ + 1 ELSE @]
  /\ UNCHANGED <<sa, bindings, caches, roles, due, now>>

\* kubectl apply of a CR without the broker's annotation.
Apply ==
  /\ Spend("apply")
  /\ cr.uid = 0
  /\ \E g \in SUBSET Group :
       StoreOutside([NoBind EXCEPT !.uid = last.cr + 1, !.created = now,
                                   !.groups = g, !.ttl = BindTTL])
  /\ last' = [last EXCEPT !.cr = @ + 1]
  /\ UNCHANGED <<sa, bindings, caches, roles, due, now>>

\* kubectl delete: only a CR with a finalizer stays, marked.
DeleteCR ==
  /\ Spend("delete")
  /\ cr.uid # 0 /\ ~cr.deleting
  /\ StoreOutside(IF cr.finalizer THEN [cr EXCEPT !.deleting = TRUE] ELSE NoBind)
  /\ UNCHANGED <<sa, bindings, caches, world, due>>

EditTTL ==
  /\ Spend("ttl")
  /\ cr.uid # 0
  /\ \E t \in EditTTLs \ {cr.ttl} : StoreOutside([cr EXCEPT !.ttl = t])
  /\ UNCHANGED <<sa, bindings, caches, world, due>>

\* Roles are not watched: a new annotation queues nothing.
Annotate ==
  /\ Spend("role")
  /\ \E r \in Role, g \in Group \cup {NoGroup} : roles' = [roles EXCEPT ![r] = g]
  /\ UNCHANGED <<cr, crFresh, sa, bindings, caches, due, rec, now, last>>

DropSA ==
  /\ Spend("sa")
  /\ sa.uid # 0
  /\ sa' = NoSA
  /\ UNCHANGED <<cr, crFresh, bindings, caches, world, due, rec>>

\* The ServiceAccount's owner reference names a CR that no longer exists.
CollectSA ==
  /\ sa.uid # 0 /\ sa.owner # cr.uid
  /\ sa' = NoSA
  /\ UNCHANGED <<cr, crFresh, bindings, caches, world, due, rec, left>>

Tick ==
  /\ Spend("tick")
  /\ now' = now + 1
  /\ UNCHANGED <<cr, crFresh, sa, bindings, caches, roles, due, rec, last>>

-----------------------------------------------------------------------------
(* The system.                                                             *)

Begin ==
  \/ ReconcileNothing \/ ReconcileDelete \/ ReconcileFinalizer
  \/ ReconcilePending \/ ReconcileInvalidTTL \/ ReconcileExpired
  \/ ReconcileBind

Account == AccountFound \/ AccountCreate \/ AccountFails

Sync ==
  \/ ListRoles \/ CreateBinding \/ ListStale \/ DeleteBinding
  \/ SyncFails \/ SyncSettled \/ SyncDone

Revoke == ListOwned \/ DeleteFails \/ Revoked

WritePhase ==
  \/ PatchPending \/ PatchBinding \/ PatchBinded \/ PatchEnded \/ PatchFails

Finalize == AddFinalizer \/ RemoveFinalizer \/ UpdateFails

Operator == Begin \/ Account \/ Sync \/ Revoke \/ WritePhase \/ Finalize

Informers == DeliverCR \/ DeliverSA \/ DeliverBindings

Environment ==
  \/ Resync \/ Restart \/ Upsert \/ Apply \/ DeleteCR \/ EditTTL
  \/ Annotate \/ DropSA \/ CollectSA \/ Tick

Next == Operator \/ Informers \/ Environment

Spec == Init /\ [][Next]_vars

\* The worker, the watches and the garbage collector keep running.
Fairness ==
  /\ WF_vars(Operator)
  /\ WF_vars(DeliverCR) /\ WF_vars(DeliverSA) /\ WF_vars(DeliverBindings)
  /\ WF_vars(CollectSA)

LiveSpec == Spec /\ Fairness
-----------------------------------------------------------------------------
(* Properties.                                                             *)

\* Nothing will happen to the CR by itself: no reconcile runs or is due, and
\* no watch event is on its way.
Settled == rec.pc = "idle" /\ crFresh /\ (due = Never \/ due > now)

Granted(uid) == {r \in Role : [owner |-> uid, role |-> r] \in bindings}

Desired(c) == {r \in Role : roles[r] \in c.groups}

\* A live CR within its TTL.
Current(c) == c.uid # 0 /\ ~c.deleting /\ c.ttl # NeverTTL /\ ~Expired(c)

Binded(c) ==
  /\ c.status.phase = "binded"
  /\ c.status.expiresAt = Expiry(c)
  /\ Granted(c.uid) = Desired(c)
  /\ due # Never /\ due <= Expiry(c)

AccountFailed(c) ==
  c.status.phase = "failed" /\ c.status.cond.reason = "ServiceAccountFailed"

\* Nobody has changed the annotation of a role.
RolesStay == left["role"] = Budget["role"]

\* As long as the roles, which are not watched, stay as they are, and whatever
\* writes, failed calls, conflicts and restarts went before: once the operator
\* has nothing left to do, a CR within its TTL is binded, carries the right
\* expiry and exactly the bindings of its memberships, and is queued for its
\* expiry -- unless the ServiceAccount could not be had.
SettledIsBound ==
  RolesStay /\ Settled /\ Current(cr) => Binded(cr) \/ AccountFailed(cr)

\* Every binding belongs to the CR that is on the server: the finalizer keeps
\* the CR until deleteOwned has removed what syncBindings created.
NoOrphanedBindings == \A b \in bindings : b.owner = cr.uid

\* A CR that says unbound has no bindings: its access is revoked, and skipping
\* deleteOwned for an expired CR that is already unbound leaves nothing behind.
\* (A reconcile from an outdated copy of the CR breaks it.)
UnboundIsRevoked == cr.status.phase = "unbound" => Granted(cr.uid) = {}

\* A status patch or a binding made for one CR never lands on a later CR of
\* the same name, although neither request names the uid it was made for.
SameIncarnation ==
  rec.pc \in {"patch", "roles", "create", "prune"} => rec.bind.uid = cr.uid

\* Once settled after its TTL, a CR has no bindings left.
ExpiredIsRevoked == Settled /\ cr.uid # 0 /\ Expired(cr) => Granted(cr.uid) = {}

\* Once settled, a CR within its TTL is binded.
SettledConverges == Settled /\ Current(cr) => Binded(cr)

\* A CR that is being deleted goes away.
DeletionCompletes == \A u \in 1..Budget["upsert"] + Budget["apply"] :
  (cr.uid = u /\ cr.deleting) ~> (cr.uid # u)

\* What ends the broker's wait for the CR, other than its timeout: it is binded
\* or failed or gone.  What is left is a CR past its TTL.
Answered ==
  cr.uid = 0 \/ cr.status.phase \in {"binded", "failed"} \/ Expired(cr)

\* The status writes of a reconcile do not trigger reconciles for ever, and what
\* they come to answers the requests that wait for the CR.
Settles == <>[](rec.pc = "idle" /\ Answered)
=============================================================================
