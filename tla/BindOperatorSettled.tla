------------------------ MODULE BindOperatorSettled ------------------------
(***************************************************************************)
(* Proof that a CR the operator is done with is binded.                    *)
(*                                                                         *)
(* It assumes what the code relies on without watching it: bindings listed *)
(* from informers that are current, and role annotations that stay.        *)
(***************************************************************************)
EXTENDS BindOperatorRevocation

-----------------------------------------------------------------------------
(* The inductive invariant.                                                *)

\* No watch event is on its way and the queue holds nothing that is due.
Quiet == crFresh /\ (due = Never \/ due > now)

\* Whatever is written while a reconcile runs ends the quiet, and only the next
\* reconcile brings it back.  So a reconcile in the quiet holds what the server
\* has, apart from what it is about to write.
QuietInv ==
  rec.pc # "idle" /\ Quiet =>
    /\ rec.orig = cr.status
    /\ rec.bind.uid = cr.uid /\ rec.bind.groups = cr.groups
    /\ rec.expiry = Expiry(cr)
    /\ rec.goal = "InvalidTTL" => cr.ttl = NeverTTL
    /\ rec.goal = "Expired" => Expired(cr)
    /\ Granting => cr.status.phase \in {"binding", "binded"}
    /\ rec.bind.status.expiresAt
         = IF rec.pc = "patch" /\ rec.goal = "Bound"
           THEN rec.expiry ELSE cr.status.expiresAt

OwnedOf(k) == OwnedIn(bindings, rec.bind.uid, k)

\* Half k of the bindings is that of the memberships in hand.
Synced(k) == OwnedOf(k) = Matching(k)

\* syncBindings: what is not still to be created or deleted is as wanted, and
\* the halves that are done stay done.
SyncedInv ==
  /\ rec.pc \in {"create", "prune"} =>
       /\ rec.want = Matching(rec.k) /\ rec.todo \subseteq RolesOf(rec.k)
       /\ rec.k = 2 => Synced(1)
  /\ rec.pc = "create" =>
       rec.todo \subseteq rec.want /\ rec.want \subseteq OwnedOf(rec.k) \cup rec.todo
  /\ rec.pc = "prune" =>
       /\ rec.want \subseteq OwnedOf(rec.k) \ rec.todo
       /\ OwnedOf(rec.k) \subseteq rec.want \cup rec.todo
  /\ rec.pc = "patch" /\ rec.goal = "Bound" => Synced(1) /\ Synced(2)

\* SettledIsBound, of roles that stay.
DoneIsBound == Settled /\ Current(cr) => Binded(cr) \/ AccountFailed(cr)

SettledInv == OrphanInv /\ RolesStay /\ SyncedInv /\ QuietInv /\ DoneIsBound

-----------------------------------------------------------------------------
(* The quiet.                                                              *)

\* A CR that is queued at once is due.
LEMMA QueuedIsDue ==
  ASSUME TypeOK, due' = Earliest(0), UNCHANGED now
  PROVE  ~Quiet'
  BY DEF TypeOK, Earliest, Quiet, Never

\* Queueing the CR for later takes nothing off the queue.
LEMMA RequeueIsQuiet ==
  ASSUME TypeOK, NEW t \in Int, due' = RequeueAt(t), UNCHANGED now, crFresh' => crFresh,
         Quiet'
  PROVE  Quiet /\ (t > now => due' # Never /\ due' <= t)
  BY DEF TypeOK, RequeueAt, Earliest, Quiet, Never

\* An idle worker, or a CR that is not quiet, leaves little to show.
LEMMA IdleSynced == ASSUME rec' = Idle PROVE SyncedInv' /\ QuietInv'
  BY DEF SyncedInv, QuietInv, Idle

LEMMA DueIsUnsettled == ASSUME ~Quiet' PROVE QuietInv' /\ DoneIsBound'
  BY DEF Quiet, QuietInv, DoneIsBound, Settled

LEMMA RunningIsUnsettled == ASSUME rec'.pc # "idle" PROVE DoneIsBound'
  BY DEF DoneIsBound, Settled

-----------------------------------------------------------------------------
(* Steps of others.                                                        *)

LEMMA SyncKept ==
  ASSUME SyncedInv, UNCHANGED <<bindings, roles>>,
         rec'.pc = rec.pc, rec'.goal = rec.goal, rec'.bind = rec.bind,
         rec'.k = rec.k, rec'.want = rec.want, rec'.todo = rec.todo
  PROVE  SyncedInv'
  BY DEF SyncedInv, Synced, OwnedOf, OwnedIn, Matching, RolesOf

\* A step that leaves the CR, its bindings and the reconcile alone, and the
\* queue too unless it ends the quiet.
LEMMA BystanderKeeps ==
  ASSUME SettledInv, UNCHANGED <<cr, bindings, roles, rec>>, now' \in Nat, now <= now',
         Quiet' => Quiet /\ UNCHANGED due
  PROVE  SyncedInv' /\ QuietInv' /\ DoneIsBound'
  <1>0. now \in Nat /\ cr \in Bind
    BY DEF SettledInv, OrphanInv, TypeOK
  <1>1. SyncedInv'
    BY SyncKept DEF SettledInv
  <1>2. /\ Expiry(cr)' = Expiry(cr) /\ Expiry(cr) \in Int
        /\ Expired(cr) => Expired(cr)'
    BY <1>0, ExpiryTyped DEF Expiry, Expired
  <1>3. QuietInv'
    BY <1>2 DEF SettledInv, QuietInv, Granting
  <1>4. DoneIsBound'
    <2> SUFFICES ASSUME Settled', Current(cr)' PROVE Binded(cr)' \/ AccountFailed(cr)'
      BY DEF DoneIsBound
    <2>1. Settled /\ UNCHANGED due
      BY DEF Settled, Quiet
    <2>2. Current(cr)
      BY <1>2 DEF Current
    <2>3. Binded(cr) \/ AccountFailed(cr)
      BY <2>1, <2>2 DEF SettledInv, DoneIsBound
    <2> QED BY <1>2, <2>1, <2>3 DEF Binded, AccountFailed, Granted, Desired
  <1> QED BY <1>1, <1>3, <1>4

LEMMA InformersSettled ==
  ASSUME SettledInv, Informers
  PROVE  SyncedInv' /\ QuietInv' /\ DoneIsBound'
  <1>0. TypeOK /\ now \in Nat
    BY DEF SettledInv, OrphanInv, TypeOK
  <1>1. UNCHANGED <<cr, bindings, roles, rec, now>>
    BY DEF Informers, DeliverCR, DeliverSA, DeliverBindings, world
  <1>2. Quiet' => Quiet /\ UNCHANGED due
    <2>1. CASE DeliverCR
      BY <1>0, <1>1, <2>1, QueuedIsDue DEF DeliverCR
    <2>2. CASE DeliverSA \/ DeliverBindings
      BY <1>1, <2>2 DEF DeliverSA, DeliverBindings, Quiet
    <2> QED BY <2>1, <2>2 DEF Informers
  <1> QED BY <1>0, <1>1, <1>2, BystanderKeeps

\* Somebody else's version is one the operator has yet to see.
LEMMA StoreOutsideSettled ==
  ASSUME SettledInv, NEW c, StoreOutside(c), UNCHANGED <<bindings, roles>>
  PROVE  SyncedInv' /\ QuietInv' /\ DoneIsBound'
  <1>1. ~Quiet'
    BY DEF StoreOutside, Store, Quiet
  <1>2. rec \in Reconcile
    BY DEF SettledInv, OrphanInv, TypeOK
  <1>3. /\ rec'.pc = rec.pc /\ rec'.goal = rec.goal /\ rec'.bind = rec.bind
        /\ rec'.k = rec.k /\ rec'.want = rec.want /\ rec'.todo = rec.todo
    BY <1>2 DEF StoreOutside, Reconcile
  <1> QED BY <1>1, <1>3, SyncKept, DueIsUnsettled DEF SettledInv

LEMMA EnvironmentSettled ==
  ASSUME SettledInv, Environment, RolesStay'
  PROVE  SyncedInv' /\ QuietInv' /\ DoneIsBound'
  <1>0. TypeOK /\ now \in Nat /\ cr \in Bind
    BY DEF SettledInv, OrphanInv, TypeOK
  <1>1. CASE Resync \/ DropSA \/ CollectSA \/ Tick
    <2>1. UNCHANGED <<cr, crFresh, bindings, roles, rec>> /\ now' \in Nat /\ now <= now'
      BY <1>0, <1>1 DEF Resync, DropSA, CollectSA, Tick, world
    <2>2. Quiet' => Quiet /\ UNCHANGED due
      <3>1. CASE Resync
        BY <1>0, <3>1, QueuedIsDue DEF Resync, world
      <3>2. CASE DropSA \/ CollectSA \/ Tick
        <4>1. UNCHANGED due
          BY <3>2 DEF DropSA, CollectSA, Tick
        <4> QED BY <1>0, <2>1, <4>1 DEF Quiet, TypeOK, Never
      <3> QED BY <1>1, <3>1, <3>2
    <2> QED BY <2>1, <2>2, BystanderKeeps
  <1>2. CASE Restart
    <2>1. rec' = Idle /\ UNCHANGED <<cr, now>> /\ due' = IF cr.uid = 0 THEN Never ELSE 0
      BY <1>2 DEF Restart, world
    <2>2. DoneIsBound'
      BY <1>0, <2>1 DEF DoneIsBound, Settled, Current, Never
    <2> QED BY <2>1, <2>2, IdleSynced
  <1>3. CASE Annotate
    <2>1. left \in [EnvKind -> Nat] /\ "role" \in EnvKind /\ Budget["role"] \in Nat
      BY <1>0, BudgetAssumption DEF TypeOK, EnvKind
    <2>2. left["role"] = Budget["role"] /\ left'["role"] = Budget["role"]
      BY DEF SettledInv, RolesStay
    <2> QED BY <1>3, <2>1, <2>2 DEF Annotate, Spend
  <1>4. CASE Upsert
    BY <1>4, StoreOutsideSettled DEF Upsert
  <1>5. CASE Apply
    BY <1>5, StoreOutsideSettled DEF Apply
  <1>6. CASE DeleteCR
    BY <1>6, StoreOutsideSettled DEF DeleteCR, world
  <1>7. CASE EditTTL
    BY <1>7, StoreOutsideSettled DEF EditTTL, world
  <1> QED BY <1>1, <1>2, <1>3, <1>4, <1>5, <1>6, <1>7 DEF Environment

-----------------------------------------------------------------------------
(* Steps of the operator.                                                  *)

LEMMA BeginSettled ==
  ASSUME SettledInv, Begin
  PROVE  SyncedInv' /\ QuietInv' /\ DoneIsBound'
  <1>0. TypeOK /\ CacheInv /\ crCache \in Bind /\ crCache.status \in Status
    BY DEF SettledInv, OrphanInv, TypeOK, Bind
  <1>1. UNCHANGED <<cr, crFresh, crCache, bindings, roles, now>>
    BY DEF Begin, ReconcileNothing, ReconcileDelete, ReconcileFinalizer,
           ReconcilePending, ReconcileInvalidTTL, ReconcileExpired, ReconcileBind,
           Dequeue, caches, world
  <1>2. Quiet' => crCache = cr
    BY <1>0, <1>1 DEF Quiet, CacheInv
  <1>3. CASE ReconcileNothing
    <2>1. rec' = Idle
      BY <1>3 DEF ReconcileNothing
    <2>2. ~Current(crCache)
      BY <1>3 DEF ReconcileNothing, Admitted, Observed, Current
    <2>3. DoneIsBound'
      BY <1>1, <1>2, <2>2 DEF DoneIsBound, Settled, Quiet, Current, Expired, Expiry
    <2> QED BY <2>1, <2>3, IdleSynced
  <1>4. ASSUME NEW pc \in {"list", "finalize", "patch", "account"}, NEW goal,
               goal \notin {"Bound", "BindFailed"}, Proceed(pc, goal),
               goal = "InvalidTTL" => crCache.ttl = NeverTTL,
               goal = "Expired" => Expired(crCache)
        PROVE  SyncedInv' /\ QuietInv' /\ DoneIsBound'
    <2>1. /\ rec'.pc = pc /\ rec'.goal = goal /\ rec'.bind = crCache
          /\ rec'.orig = crCache.status /\ rec'.expiry = Expiry(crCache)
      BY <1>4, ProceedHolds DEF Proceed, Idle
    <2>2. SyncedInv' /\ DoneIsBound'
      BY <1>4, <2>1, RunningIsUnsettled DEF SyncedInv
    <2>3. QuietInv'
      <3> SUFFICES ASSUME Quiet' PROVE QuietInv'
        BY DEF QuietInv
      <3>1. crCache = cr /\ ~Granting'
        BY <1>2, <1>4, <2>1 DEF Granting
      <3> QED BY <1>1, <1>4, <2>1, <3>1 DEF QuietInv, Expired, Expiry
    <2> QED BY <2>2, <2>3
  <1>5. CASE ReconcileDelete
    BY <1>4, <1>5 DEF ReconcileDelete
  <1>6. CASE ReconcileFinalizer
    BY <1>4, <1>6 DEF ReconcileFinalizer
  <1>7. CASE ReconcilePending
    BY <1>4, <1>7 DEF ReconcilePending
  <1>8. CASE ReconcileInvalidTTL
    BY <1>4, <1>8 DEF ReconcileInvalidTTL
  <1>9. CASE ReconcileExpired
    BY <1>4, <1>9 DEF ReconcileExpired
  <1>10. CASE ReconcileBind
    BY <1>4, <1>10 DEF ReconcileBind
  <1> QED BY <1>3, <1>5, <1>6, <1>7, <1>8, <1>9, <1>10 DEF Begin

LEMMA AccountSettled ==
  ASSUME SettledInv, Account
  PROVE  SyncedInv' /\ QuietInv' /\ DoneIsBound'
  <1>0. rec \in Reconcile /\ QuietInv
    BY DEF SettledInv, OrphanInv, TypeOK
  <1>1. rec.pc = "account" /\ UNCHANGED <<cr, crFresh, bindings, roles, due, now>>
    BY DEF Account, AccountFound, AccountCreate, AccountFails, world
  <1>2. /\ rec'.orig = rec.orig /\ rec'.expiry = rec.expiry
        /\ rec'.bind.uid = rec.bind.uid /\ rec'.bind.groups = rec.bind.groups
        /\ rec'.bind.status.expiresAt = rec.bind.status.expiresAt
        /\ \/ rec'.pc = "roles" /\ rec.orig.phase = "binded" /\ rec'.goal = rec.goal
           \/ rec'.pc = "patch" /\ rec'.goal \in {"Syncing", "ServiceAccountFailed"}
    <2>1. ASSUME NEW uid, AccountReady(uid)
          PROVE  /\ rec'.orig = rec.orig /\ rec'.expiry = rec.expiry
                 /\ rec'.bind.uid = rec.bind.uid /\ rec'.bind.groups = rec.bind.groups
                 /\ rec'.bind.status.expiresAt = rec.bind.status.expiresAt
                 /\ \/ rec'.pc = "roles" /\ rec.orig.phase = "binded" /\ rec'.goal = rec.goal
                    \/ rec'.pc = "patch" /\ rec'.goal = "Syncing"
      BY <1>0, <2>1 DEF AccountReady, Reconcile, Bind, Status
    <2>2. CASE AccountFails
      BY <1>0, <2>2 DEF AccountFails, Reconcile
    <2> QED BY <2>1, <2>2 DEF Account, AccountFound, AccountCreate
  <1>3. SyncedInv' /\ DoneIsBound'
    BY <1>2, RunningIsUnsettled DEF SyncedInv
  <1>4. QuietInv'
    <2> SUFFICES ASSUME Quiet' PROVE QuietInv'
      BY DEF QuietInv
    <2>1. Quiet /\ (Granting' => rec.orig.phase = "binded")
      BY <1>1, <1>2 DEF Quiet, Granting
    <2>2. /\ rec.orig = cr.status /\ rec.bind.uid = cr.uid /\ rec.bind.groups = cr.groups
          /\ rec.expiry = Expiry(cr) /\ rec.bind.status.expiresAt = cr.status.expiresAt
          /\ rec.goal = "InvalidTTL" => cr.ttl = NeverTTL
          /\ rec.goal = "Expired" => Expired(cr)
      BY <1>0, <1>1, <2>1 DEF QuietInv
    <2> QED BY <1>0, <1>1, <1>2, <2>1, <2>2 DEF QuietInv, Expired, Expiry
  <1> QED BY <1>3, <1>4

\* A loop of syncBindings or deleteOwned that goes on with the same object.
LEMMA LoopSettled ==
  ASSUME SettledInv, rec.pc # "idle", rec'.pc # "idle",
         UNCHANGED <<cr, crFresh, due, now>>,
         rec'.bind = rec.bind, rec'.orig = rec.orig, rec'.expiry = rec.expiry,
         rec'.goal = rec.goal, Granting' => Granting,
         ~(rec.pc = "patch" /\ rec.goal = "Bound"),
         ~(rec'.pc = "patch" /\ rec'.goal = "Bound")
  PROVE  QuietInv' /\ DoneIsBound'
  <1>1. DoneIsBound'
    BY RunningIsUnsettled
  <1>2. QuietInv'
    <2> SUFFICES ASSUME Quiet' PROVE QuietInv'
      BY DEF QuietInv
    <2>1. Quiet /\ QuietInv
      BY DEF Quiet, SettledInv
    <2> QED BY <2>1 DEF QuietInv, Expired, Expiry
  <1> QED BY <1>1, <1>2

LEMMA SyncSettledKeeps ==
  ASSUME SettledInv, SeesBindings, Sync
  PROVE  SyncedInv' /\ QuietInv' /\ DoneIsBound'
  <1>0. TypeOK /\ rec \in Reconcile /\ rec.bind \in Bind /\ SyncedInv /\ QuietInv
    BY DEF SettledInv, OrphanInv, TypeOK, Reconcile
  <1>1. CASE ListRoles
    <2>1. PICK k \in {1, 2} :
            /\ HalfBegins(k, "roles", "prune")
            /\ rec' = [rec EXCEPT !.pc = "create", !.k = k, !.want = Matching(k),
                                  !.todo = Matching(k)]
      BY <1>1 DEF ListRoles
    <2>2. /\ rec.pc \in {"roles", "prune"}
          /\ k = 2 => rec.pc = "prune" /\ rec.todo = {} /\ rec.k = 1
          /\ UNCHANGED <<cr, crFresh, due, now, bindings, roles>>
      BY <1>1, <2>1 DEF HalfBegins, LoopDone, ListRoles, world
    <2>3. /\ rec'.pc = "create" /\ rec'.bind = rec.bind /\ rec'.orig = rec.orig
          /\ rec'.expiry = rec.expiry /\ rec'.goal = rec.goal /\ rec'.k = k
          /\ rec'.want = Matching(k) /\ rec'.todo = Matching(k)
      BY <1>0, <2>1 DEF Reconcile
    <2>4. Matching(k) \subseteq RolesOf(k) /\ \A j : Matching(j)' = Matching(j) /\ OwnedOf(j)' = OwnedOf(j)
      BY <2>2, <2>3 DEF Matching, RolesOf, OwnedOf, OwnedIn
    <2>5. k = 2 => Synced(1)
      BY <1>0, <2>2 DEF SyncedInv, Synced
    <2>6. SyncedInv'
      BY <2>3, <2>4, <2>5 DEF SyncedInv, Synced, RolesOf
    <2> QED BY <2>2, <2>3, <2>6, LoopSettled DEF Granting
  <1>2. CASE CreateBinding
    <2>1. PICK r \in rec.todo :
            /\ bindings' = bindings \cup {[owner |-> rec.bind.uid, role |-> r]}
            /\ rec' = [rec EXCEPT !.todo = @ \ {r}]
      BY <1>2 DEF CreateBinding
    <2>2. UNCHANGED <<cr, crFresh, due, now, roles>> /\ rec.pc = "create"
      BY <1>2 DEF CreateBinding, world
    <2>3. /\ rec'.pc = "create" /\ rec'.bind = rec.bind /\ rec'.orig = rec.orig
          /\ rec'.expiry = rec.expiry /\ rec'.goal = rec.goal /\ rec'.k = rec.k
          /\ rec'.want = rec.want /\ rec'.todo = rec.todo \ {r} /\ rec.k \in {1, 2}
      BY <1>0, <2>1, <2>2 DEF Reconcile
    <2>4. \A j : Matching(j)' = Matching(j)
      BY <2>2, <2>3 DEF Matching, RolesOf
    <2>5. r \in RolesOf(rec.k)
      BY <1>0, <2>1, <2>2 DEF SyncedInv
    <2>6. OwnedOf(rec.k)' = OwnedOf(rec.k) \cup {r} /\ (rec.k = 2 => OwnedOf(1)' = OwnedOf(1))
      BY <2>1, <2>3, <2>5, RolesAssumption DEF OwnedOf, OwnedIn, RolesOf
    <2>7. SyncedInv'
      BY <1>0, <2>2, <2>3, <2>4, <2>6 DEF SyncedInv, Synced, RolesOf
    <2> QED BY <2>2, <2>3, <2>7, LoopSettled DEF Granting
  <1>3. CASE ListStale
    <2>1. UNCHANGED <<cr, crFresh, due, now, bindings, roles>> /\ rec.pc = "create" /\ rec.todo = {}
      BY <1>3 DEF ListStale, world
    <2>2. /\ rec'.pc = "prune" /\ rec'.bind = rec.bind /\ rec'.orig = rec.orig
          /\ rec'.expiry = rec.expiry /\ rec'.goal = rec.goal /\ rec'.k = rec.k
          /\ rec'.want = rec.want /\ rec'.todo = OwnedOf(rec.k) \ rec.want
      BY <1>0, <1>3 DEF ListStale, Reconcile, Listed, SeesBindings, OwnedOf
    <2>3. \A j : Matching(j)' = Matching(j) /\ OwnedOf(j)' = OwnedOf(j) /\ OwnedOf(j) \subseteq RolesOf(j)
      BY <2>1, <2>2 DEF Matching, RolesOf, OwnedOf, OwnedIn
    <2>4. SyncedInv'
      BY <1>0, <2>1, <2>2, <2>3 DEF SyncedInv, Synced, RolesOf
    <2> QED BY <2>1, <2>2, <2>4, LoopSettled DEF Granting
  <1>4. CASE DeleteBinding
    <2>1. PICK r \in rec.todo :
            /\ bindings' = bindings \ {[owner |-> rec.bind.uid, role |-> r]}
            /\ rec' = [rec EXCEPT !.todo = @ \ {r}]
      BY <1>4 DEF DeleteBinding
    <2>2. UNCHANGED <<cr, crFresh, due, now, roles>> /\ rec.pc \in {"prune", "delete"}
      BY <1>4 DEF DeleteBinding, world
    <2>3. /\ rec'.pc = rec.pc /\ rec'.bind = rec.bind /\ rec'.orig = rec.orig
          /\ rec'.expiry = rec.expiry /\ rec'.goal = rec.goal /\ rec'.k = rec.k
          /\ rec'.want = rec.want /\ rec'.todo = rec.todo \ {r} /\ rec.k \in {1, 2}
      BY <1>0, <2>1, <2>2 DEF Reconcile
    <2>4. \A j : Matching(j)' = Matching(j)
      BY <2>2, <2>3 DEF Matching, RolesOf
    <2>5. rec.pc = "prune" => r \in RolesOf(rec.k)
      BY <1>0, <2>1, <2>2 DEF SyncedInv
    <2>6. OwnedOf(rec.k)' = OwnedOf(rec.k) \ {r}
      BY <2>1, <2>3 DEF OwnedOf, OwnedIn, RolesOf
    <2>7. rec.pc = "prune" /\ rec.k = 2 => OwnedOf(1)' = OwnedOf(1)
      BY <2>1, <2>3, <2>5, RolesAssumption DEF OwnedOf, OwnedIn, RolesOf
    <2>8. SyncedInv'
      BY <1>0, <2>2, <2>3, <2>4, <2>6, <2>7 DEF SyncedInv, Synced, RolesOf
    <2> QED BY <2>2, <2>3, <2>8, LoopSettled DEF Granting
  <1>5. CASE SyncFails
    <2>1. UNCHANGED <<cr, crFresh, due, now>> /\ rec.pc \in {"roles", "create", "prune"}
      BY <1>5 DEF SyncFails, world
    <2>2. /\ rec'.pc = "patch" /\ rec'.bind = rec.bind /\ rec'.orig = rec.orig
          /\ rec'.expiry = rec.expiry /\ rec'.goal = "BindFailed"
      BY <1>0, <1>5 DEF SyncFails, Reconcile
    <2>3. SyncedInv' /\ DoneIsBound'
      BY <2>2, RunningIsUnsettled DEF SyncedInv
    <2>4. QuietInv'
      <3> SUFFICES ASSUME Quiet' PROVE QuietInv'
        BY DEF QuietInv
      <3>1. Quiet /\ Granting
        BY <2>1 DEF Quiet, Granting
      <3> QED BY <1>0, <2>1, <2>2, <3>1 DEF QuietInv, Expiry
    <2> QED BY <2>3, <2>4
  <1>6. ASSUME LoopDone("prune", 2) PROVE Synced(1) /\ Synced(2)
    <2>1. rec.pc = "prune" /\ rec.todo = {} /\ rec.k = 2
      BY <1>6 DEF LoopDone
    <2>2. rec.want = Matching(2) /\ Synced(1)
      BY <1>0, <2>1 DEF SyncedInv
    <2>3. OwnedOf(2) = rec.want
      BY <1>0, <2>1 DEF SyncedInv
    <2> QED BY <2>2, <2>3 DEF Synced
  <1>7. CASE SyncSettled
    <2>1. /\ LoopDone("prune", 2) /\ Established /\ rec' = Idle
          /\ due' = RequeueAt(rec.expiry)
          /\ UNCHANGED <<cr, crFresh, bindings, roles, now>>
      BY <1>7 DEF SyncSettled, world
    <2>2. DoneIsBound'
      <3> SUFFICES ASSUME Settled', Current(cr)' PROVE Binded(cr)'
        BY DEF DoneIsBound
      <3>1. rec.expiry \in Int /\ Quiet'
        BY <1>0 DEF Reconcile, Settled, Quiet
      <3>2. Quiet /\ (rec.expiry > now => due' # Never /\ due' <= rec.expiry)
        BY <1>0, <2>1, <3>1, RequeueIsQuiet
      <3>3. /\ rec.orig = cr.status /\ rec.expiry = Expiry(cr)
            /\ rec.bind.uid = cr.uid /\ rec.bind.groups = cr.groups
            /\ rec.bind.status.expiresAt = cr.status.expiresAt
        BY <1>0, <2>1, <3>2 DEF LoopDone, QuietInv
      <3>4. Expiry(cr)' = Expiry(cr) /\ rec.expiry > now
        BY <1>0, <2>1, <3>1, <3>3 DEF TypeOK, Current, Expired, Expiry
      <3>5. Granted(cr.uid)' = Desired(cr)'
        BY <1>6, <2>1, <3>3 DEF Synced, OwnedOf, OwnedIn, Matching, Granted, Desired, RolesOf, Role
      <3> QED BY <2>1, <3>2, <3>3, <3>4, <3>5 DEF Binded, Established
    <2> QED BY <2>1, <2>2, IdleSynced
  <1>8. CASE SyncDone
    <2>1. LoopDone("prune", 2) /\ UNCHANGED <<cr, crFresh, due, now, bindings, roles>>
      BY <1>8 DEF SyncDone, world
    <2>2. /\ rec'.pc = "patch" /\ rec'.goal = "Bound" /\ rec'.orig = rec.orig
          /\ rec'.expiry = rec.expiry /\ rec'.bind.uid = rec.bind.uid
          /\ rec'.bind.groups = rec.bind.groups /\ rec'.bind.status.expiresAt = rec.expiry
      BY <1>0, <1>8 DEF SyncDone, Reconcile, Bind, Status
    <2>3. Synced(1)' /\ Synced(2)'
      BY <1>6, <2>1, <2>2 DEF Synced, OwnedOf, OwnedIn, Matching, RolesOf
    <2>4. SyncedInv' /\ DoneIsBound'
      BY <2>2, <2>3, RunningIsUnsettled DEF SyncedInv
    <2>5. QuietInv'
      <3> SUFFICES ASSUME Quiet' PROVE QuietInv'
        BY DEF QuietInv
      <3>1. Quiet /\ Granting /\ rec.pc # "idle"
        BY <2>1 DEF Quiet, Granting, LoopDone
      <3> QED BY <1>0, <2>1, <2>2, <3>1 DEF QuietInv, Expiry
    <2> QED BY <2>4, <2>5
  <1> QED BY <1>1, <1>2, <1>3, <1>4, <1>5, <1>7, <1>8 DEF Sync

LEMMA RevokeSettled ==
  ASSUME SettledInv, Revoke
  PROVE  SyncedInv' /\ QuietInv' /\ DoneIsBound'
  <1>0. TypeOK /\ rec \in Reconcile /\ SyncedInv /\ QuietInv
    BY DEF SettledInv, OrphanInv, TypeOK
  <1>1. CASE ListOwned \/ Revoked
    <2>1. UNCHANGED <<cr, crFresh, due, now>> /\ rec.pc \in {"list", "delete"}
      BY <1>1 DEF ListOwned, Revoked, HalfBegins, LoopDone, world
    <2>2. /\ rec'.bind = rec.bind /\ rec'.orig = rec.orig /\ rec'.expiry = rec.expiry
          /\ rec'.goal = rec.goal
          /\ \/ rec'.pc \in {"delete", "unfinalize"}
             \/ rec'.pc = "patch" /\ rec'.goal = "Expired"
      BY <1>0, <1>1 DEF ListOwned, Revoked, Reconcile
    <2>3. SyncedInv'
      BY <2>2 DEF SyncedInv
    <2> QED BY <2>1, <2>2, <2>3, LoopSettled DEF Granting
  <1>2. CASE DeleteFails
    <2>1. rec' = Idle /\ ~Quiet'
      BY <1>0, <1>2, QueuedIsDue DEF DeleteFails, Abort, world
    <2> QED BY <2>1, IdleSynced, DueIsUnsettled
  <1> QED BY <1>1, <1>2 DEF Revoke

LEMMA FinalizeSettled ==
  ASSUME SettledInv, Finalize
  PROVE  SyncedInv' /\ QuietInv' /\ DoneIsBound'
  <1>0. TypeOK
    BY DEF SettledInv, OrphanInv
  <1>1. rec' = Idle
    BY DEF Finalize, AddFinalizer, RemoveFinalizer, UpdateFails, Abort
  <1>2. ~Quiet'
    <2>1. CASE AddFinalizer \/ RemoveFinalizer
      BY <2>1 DEF AddFinalizer, RemoveFinalizer, Store, Quiet
    <2>2. CASE UpdateFails
      BY <1>0, <2>2, QueuedIsDue DEF UpdateFails, Abort, world
    <2> QED BY <2>1, <2>2 DEF Finalize
  <1> QED BY <1>1, <1>2, IdleSynced, DueIsUnsettled

\* A patch made on the status that the server has leaves what it was meant to.
LEMMA PatchLands ==
  ASSUME TypeOK, rec.orig = cr.status
  PROVE  /\ Patched.status.phase = PhaseOf(rec.goal)
         /\ Patched.status.expiresAt = rec.bind.status.expiresAt
         /\ Patched.status.cond.reason = rec.goal
         /\ Patched.groups = cr.groups /\ Patched.ttl = cr.ttl
         /\ Patched.created = cr.created /\ Patched.renewed = cr.renewed
  <1>1. Patched.status.phase = PhaseOf(rec.goal)
    BY PatchPhase
  <1>2. /\ Mutated.expiresAt = rec.bind.status.expiresAt
        /\ Mutated.cond.reason = rec.goal
    BY DEF TypeOK, Mutated, SetCondition, Reconcile, Bind, Status
  <1>3. /\ Patched.status.expiresAt
             = Keep(rec.orig.expiresAt, Mutated.expiresAt, cr.status.expiresAt)
        /\ Patched.status.cond = Keep(rec.orig.cond, Mutated.cond, cr.status.cond)
    BY PatchKeeps DEF Merge
  <1>4. /\ Patched.status.expiresAt = Mutated.expiresAt
        /\ Patched.status.cond = Mutated.cond
    BY <1>3 DEF Keep
  <1>5. /\ Patched.groups = cr.groups /\ Patched.ttl = cr.ttl
        /\ Patched.created = cr.created /\ Patched.renewed = cr.renewed
    BY DEF TypeOK, Bind, Patched
  <1> QED BY <1>1, <1>2, <1>4, <1>5

LEMMA WritePhaseSettled ==
  ASSUME SettledInv, WritePhase
  PROVE  SyncedInv' /\ QuietInv' /\ DoneIsBound'
  <1>0. TypeOK /\ rec \in Reconcile /\ rec.pc = "patch" /\ SyncedInv /\ QuietInv
    BY DEF SettledInv, OrphanInv, TypeOK, WritePhase, Patch,
           PatchPending, PatchBinding, PatchBinded, PatchEnded, PatchFails
  <1>1. ASSUME Patch
        PROVE  /\ UNCHANGED <<bindings, roles, now>> /\ cr' = Patched
               /\ crFresh' => crFresh /\ cr' = cr
    <2>1. cr' = Patched /\ crFresh' = (crFresh /\ Patched = cr)
      BY <1>1 DEF Patch
    <2>2. crFresh' => crFresh /\ cr' = cr
      BY <2>1, Zenon
    <2> QED BY <1>1, <2>1, <2>2 DEF Patch, world
  <1>2. CASE PatchFails \/ PatchPending
    <2>1. rec' = Idle /\ ~Quiet'
      BY <1>0, <1>1, <1>2, QueuedIsDue DEF PatchFails, PatchPending, Abort, world
    <2> QED BY <2>1, IdleSynced, DueIsUnsettled
  <1>3. CASE PatchBinding
    <2>1. /\ rec'.pc = "roles" /\ rec'.goal = "Syncing" /\ rec'.orig = rec.orig
          /\ rec'.expiry = rec.expiry /\ rec'.bind = Patched
      BY <1>0, <1>3 DEF PatchBinding, Reconcile
    <2>2. SyncedInv' /\ DoneIsBound'
      BY <2>1, RunningIsUnsettled DEF SyncedInv
    <2>3. QuietInv'
      <3> SUFFICES ASSUME Quiet' PROVE QuietInv'
        BY DEF QuietInv
      <3>1. Quiet /\ cr' = cr /\ Patched = cr /\ UNCHANGED now
        BY <1>1, <1>3 DEF PatchBinding, Quiet
      <3>2. rec.orig = cr.status /\ rec.expiry = Expiry(cr)
        BY <1>0, <3>1 DEF QuietInv
      <3>3. cr.status.phase = "binding"
        BY <1>0, <1>3, <3>1, <3>2, PatchLands DEF PatchBinding, PhaseOf
      <3> QED BY <2>1, <3>1, <3>2, <3>3 DEF QuietInv, Expiry
    <2> QED BY <2>2, <2>3
  <1>4. CASE PatchBinded \/ PatchEnded
    <2>1. rec' = Idle /\ Patch
      BY <1>4 DEF PatchBinded, PatchEnded
    <2>2. DoneIsBound'
      <3> SUFFICES ASSUME Settled', Current(cr)' PROVE Binded(cr)' \/ AccountFailed(cr)'
        BY DEF DoneIsBound
      <3>1. /\ Quiet' /\ crFresh /\ cr' = cr /\ Patched = cr
            /\ UNCHANGED <<bindings, roles, now>>
        BY <1>1, <2>1 DEF Settled, Quiet
      <3>2. Expiry(cr)' = Expiry(cr) /\ ~Expired(cr) /\ cr.ttl # NeverTTL
        BY <3>1 DEF Current, Expired, Expiry
      <3>3. CASE PatchEnded
        <4>1. UNCHANGED due /\ rec.goal \in {"InvalidTTL", "Expired",
                                             "ServiceAccountFailed", "BindFailed"}
          BY <3>3 DEF PatchEnded
        <4>2. Quiet
          BY <3>1, <4>1 DEF Quiet
        <4>3. rec.orig = cr.status /\ rec.goal \in {"ServiceAccountFailed", "BindFailed"}
          BY <1>0, <3>2, <4>1, <4>2 DEF QuietInv
        <4>4. cr.status.phase = "failed" /\ cr.status.cond.reason = rec.goal
          BY <1>0, <3>1, <4>3, PatchLands DEF PhaseOf
        <4>5. rec.goal # "BindFailed"
          BY <1>0, <4>2, <4>4 DEF QuietInv, Granting
        <4> QED BY <3>1, <4>3, <4>4, <4>5 DEF AccountFailed
      <3>4. CASE PatchBinded
        <4>1. due' = RequeueAt(rec.expiry) /\ rec.goal = "Bound" /\ rec.expiry \in Int
          BY <1>0, <3>4 DEF PatchBinded, Reconcile
        <4>2. Quiet /\ (rec.expiry > now => due' # Never /\ due' <= rec.expiry)
          BY <1>0, <3>1, <4>1, RequeueIsQuiet
        <4>3. /\ rec.orig = cr.status /\ rec.expiry = Expiry(cr)
              /\ rec.bind.uid = cr.uid /\ rec.bind.groups = cr.groups
              /\ rec.bind.status.expiresAt = rec.expiry
          BY <1>0, <4>1, <4>2 DEF QuietInv
        <4>4. rec.expiry > now
          BY <1>0, <3>2, <4>1, <4>3 DEF TypeOK, Expired
        <4>5. cr.status.phase = "binded" /\ cr.status.expiresAt = rec.expiry
          BY <1>0, <3>1, <4>1, <4>3, PatchLands DEF PhaseOf
        <4>6. Synced(1) /\ Synced(2)
          BY <1>0, <4>1 DEF SyncedInv
        <4>7. Granted(cr.uid)' = Desired(cr)'
          BY <3>1, <4>3, <4>6 DEF Synced, OwnedOf, OwnedIn, Matching, Granted, Desired, RolesOf, Role
        <4> QED BY <3>1, <3>2, <4>2, <4>3, <4>4, <4>5, <4>7 DEF Binded
      <3> QED BY <1>4, <3>3, <3>4
    <2> QED BY <2>1, <2>2, IdleSynced
  <1> QED BY <1>2, <1>3, <1>4 DEF WritePhase

-----------------------------------------------------------------------------
(* The theorem.                                                            *)

LEMMA SettledInvInit == Init => SettledInv
  <1> SUFFICES ASSUME Init PROVE SettledInv
    OBVIOUS
  <1>1. SyncedInv /\ QuietInv
    BY DEF Init, SyncedInv, QuietInv, Idle
  <1>2. DoneIsBound /\ RolesStay
    BY DEF Init, DoneIsBound, Current, NoBind, RolesStay
  <1> QED BY <1>1, <1>2, OrphanInvInit DEF SettledInv

\* A step spends one kind of budget at most.
LEMMA SpendsOrNot == [Next]_vars => UNCHANGED left \/ \E kind \in EnvKind : Spend(kind)
  BY DEF Next, Operator, Begin, Account, Sync, Revoke, WritePhase, Finalize, Informers,
         Environment, vars, EnvKind, Fault,
         ReconcileNothing, ReconcileDelete, ReconcileFinalizer, ReconcilePending,
         ReconcileInvalidTTL, ReconcileExpired, ReconcileBind, Dequeue,
         AccountFound, AccountCreate, AccountFails,
         ListRoles, CreateBinding, ListStale, DeleteBinding, SyncFails, SyncSettled,
         SyncDone, ListOwned, DeleteFails, Revoked, Patch, PatchPending, PatchBinding,
         PatchBinded, PatchEnded, PatchFails, AddFinalizer, RemoveFinalizer,
         UpdateFails, DeliverCR, DeliverSA, DeliverBindings, Resync, Restart, Upsert,
         Apply, DeleteCR, EditTTL, Annotate, DropSA, CollectSA, Tick

\* Budgets are only spent: roles that have stayed to the end have always stayed.
LEMMA RolesStayed ==
  ASSUME TypeOK, left["role"] <= Budget["role"], [Next]_vars
  PROVE  left'["role"] <= Budget["role"] /\ (RolesStay' => RolesStay)
  <1>1. /\ left \in [EnvKind -> Nat] /\ "role" \in EnvKind
        /\ left["role"] \in Nat /\ Budget["role"] \in Nat
    BY BudgetAssumption DEF TypeOK, EnvKind
  <1> QED BY <1>1, SpendsOrNot DEF Spend, RolesStay

LEMMA SettledInvNext ==
  SeesBindings /\ SettledInv /\ RolesStay' /\ [Next]_vars => SettledInv'
  <1> SUFFICES ASSUME SeesBindings, SettledInv, RolesStay', [Next]_vars
               PROVE  SyncedInv' /\ QuietInv' /\ DoneIsBound'
    BY OrphanInvNext DEF SettledInv
  <1>1. CASE UNCHANGED vars
    <2>1. now \in Nat
      BY DEF SettledInv, OrphanInv, TypeOK
    <2> QED BY <1>1, <2>1, BystanderKeeps DEF vars, Quiet
  <1> QED BY <1>1, BeginSettled, AccountSettled, SyncSettledKeeps, RevokeSettled,
             WritePhaseSettled, FinalizeSettled, InformersSettled, EnvironmentSettled
          DEF Next, Operator

\* However stale the CR and ServiceAccount informers, and whatever writes,
\* failed calls, conflicts, edits, resyncs and restarts went before: when the
\* operator has nothing left to do, a CR within its TTL is binded, with the
\* expiry of its stamp and TTL, exactly the bindings of its memberships and a
\* place in the queue for its expiry -- or its ServiceAccount could not be had.
THEOREM SettledBinds ==
  ASSUME "binding" \notin Laggy
  PROVE  Spec => []SettledIsBound
  <1> DEFINE Inv == /\ OrphanInv /\ left["role"] <= Budget["role"]
                    /\ RolesStay => SettledInv
  <1>1. SeesBindings
    BY DEF SeesBindings
  <1>2. Init => Inv
    <2>1. Init => left["role"] <= Budget["role"]
      BY BudgetAssumption DEF Init, EnvKind
    <2> QED BY <2>1, SettledInvInit, OrphanInvInit
  <1>3. Inv /\ [Next]_vars => Inv'
    <2> SUFFICES ASSUME Inv, [Next]_vars PROVE Inv'
      OBVIOUS
    <2>1. left'["role"] <= Budget["role"] /\ (RolesStay' => RolesStay)
      BY RolesStayed DEF OrphanInv
    <2>2. RolesStay' => SettledInv'
      BY <1>1, <2>1, SettledInvNext
    <2> QED BY <1>1, <2>1, <2>2, OrphanInvNext
  <1>4. Inv => SettledIsBound
    BY DEF SettledInv, DoneIsBound, SettledIsBound
  <1> QED BY <1>2, <1>3, <1>4, PTL DEF Spec

=============================================================================
