------------------------ MODULE BindHandshakeProofs ------------------------
(***************************************************************************)
(* Proofs about the broker's requests and the operator together, for any   *)
(* number of handlers and any informers that lag.                          *)
(***************************************************************************)
EXTENDS BindHandshake, BindOperatorSettled

-----------------------------------------------------------------------------
(* The requests implement the operator's view of the broker.               *)

\* A copy whose version is still the server's is the CR, whoever wrote meanwhile:
\* this is what the version check of an update goes by.
CopiesCurrent == \A h \in Handler : req[h].fresh => req[h].got = cr

RequestsInv == RequestsOK /\ CopiesCurrent

\* Without the check, or with a copy that is not the CR, the update would undo what
\* was written since the read; with them it is an Upsert of the CR as it is.
LEMMA PutIsUpsert ==
  ASSUME RequestsInv, NEW h \in Handler, UpsertPut(h)
  PROVE  Upsert
  <1>0. cr \in Bind
    BY DEF RequestsInv, RequestsOK, TypeOK
  <1>1. PICK g \in SUBSET Group : StoreOutside(Upserted(req[h].got, g))
    BY DEF UpsertPut, PutStores
  <1>2. (req[h].got.uid = 0) = (cr.uid = 0)
    BY DEF UpsertPut, RequestsInv, CopiesCurrent
  <1>3. CASE cr.uid = 0
    BY <1>1, <1>2, <1>3 DEF UpsertPut, PutStores, Upserted, Upsert
  <1>4. CASE cr.uid # 0
    <2>1. req[h].got = cr
      BY <1>2, <1>4 DEF UpsertPut, RequestsInv, CopiesCurrent
    <2>2. [cr EXCEPT !.deleting = cr.deleting, !.status = cr.status] = cr
      BY <1>0 DEF Bind
    <2>3. StoreOutside([cr EXCEPT !.groups = g, !.ttl = BindTTL, !.renewed = now])
      BY <1>1, <1>2, <1>4, <2>1, <2>2 DEF Upserted
    <2> QED BY <1>2, <1>4, <2>3 DEF UpsertPut, PutStores, Upsert
  <1> QED BY <1>3, <1>4

LEMMA RequestsInit == HandshakeInit => RequestsInv
  <1> SUFFICES ASSUME HandshakeInit PROVE RequestsInv
    OBVIOUS
  <1>1. NoBind \in Bind
    BY NothingTyped
  <1>2. NoRequest \in Request /\ ~NoRequest.fresh
    BY <1>1 DEF Request, NoRequest
  <1> QED BY <1>2, TypeInit DEF HandshakeInit, RequestsInv, RequestsOK, CopiesCurrent

LEMMA StepIsOperatorStep == RequestsInv /\ [HandshakeNext]_hvars => [Next]_vars
  <1> SUFFICES ASSUME RequestsInv, HandshakeNext PROVE [Next]_vars
    BY DEF hvars, vars
  <1>1. CASE Others
    BY <1>1 DEF Others, Next, Environment
  <1>2. ASSUME NEW h \in Handler, Serve(h) PROVE [Next]_vars
    BY <1>2, PutIsUpsert
    DEF Serve, UpsertGet, UpsertFails, WaitBinded, WaitFails, WaitGivesUp, Ends, Next, Environment
  <1> QED BY <1>1, <1>2 DEF HandshakeNext

LEMMA RequestsNext == RequestsInv /\ [HandshakeNext]_hvars => RequestsInv'
  <1> SUFFICES ASSUME RequestsInv, [HandshakeNext]_hvars
               PROVE  req' \in [Handler -> Request] /\ CopiesCurrent'
    BY StepIsOperatorStep, TypeNext DEF RequestsInv, RequestsOK
  <1>0. req \in [Handler -> Request] /\ CopiesCurrent /\ cr \in Bind
    BY DEF RequestsInv, RequestsOK, TypeOK
  <1>1. CASE UNCHANGED hvars
    BY <1>0, <1>1 DEF hvars, vars, CopiesCurrent
  <1>2. CASE Beside
    <2>1. CASE cr' = cr
      BY <1>0, <1>2, <2>1 DEF Beside, CopiesCurrent
    <2>2. CASE cr' # cr
      <3>1. req' \in [Handler -> Request]
        BY <1>0, <1>2, <2>2 DEF Beside, Request
      <3>2. \A h \in Handler : ~req'[h].fresh
        BY <1>0, <1>2, <2>2 DEF Beside, Request
      <3> QED BY <3>1, <3>2 DEF CopiesCurrent
    <2> QED BY <2>1, <2>2
  <1>3. ASSUME NEW h \in Handler, Serve(h)
        PROVE  req' \in [Handler -> Request] /\ CopiesCurrent'
    <2>1. NoBind \in Bind
      BY NothingTyped
    <2>2. ASSUME NEW r \in Request, r.fresh => r.got = cr, req' = [req EXCEPT ![h] = r],
                 UNCHANGED vars
          PROVE  req' \in [Handler -> Request] /\ CopiesCurrent'
      BY <1>0, <2>2 DEF CopiesCurrent, vars
    <2>3. CASE UpsertGet(h)
      <3> DEFINE r == [NoRequest EXCEPT !.pc = "put", !.got = cr, !.fresh = TRUE]
      <3>1. r \in Request /\ r.got = cr
        BY <1>0 DEF NoRequest, Request
      <3> HIDE DEF r
      <3> QED BY <2>2, <2>3, <3>1 DEF UpsertGet, r
    <2>4. CASE UpsertPut(h)
      <3>1. req' \in [Handler -> Request]
        BY <1>0, <2>1, <2>4 DEF UpsertPut, PutStores, Request, NoRequest
      <3>2. \A g \in Handler : ~req'[g].fresh
        BY <1>0, <2>4 DEF UpsertPut, PutStores, Request, NoRequest
      <3> QED BY <3>1, <3>2 DEF CopiesCurrent
    <2>5. CASE Ends(h)
      <3>1. NoRequest \in Request /\ ~NoRequest.fresh
        BY <2>1 DEF NoRequest, Request
      <3> QED BY <2>2, <2>5, <3>1 DEF Ends
    <2> QED BY <1>3, <2>3, <2>4, <2>5 DEF Serve, UpsertFails, WaitBinded, WaitFails, WaitGivesUp
  <1> QED BY <1>1, <1>2, <1>3 DEF HandshakeNext

\* Concurrent requests of the broker read the CR and later write their copy of it
\* back, while the operator and other requests write it too.  Because an update
\* must carry the server's version, each write is an Upsert of the CR as it then
\* is: what is proved of BindOperator holds of the broker and the operator
\* together.
THEOREM RequestsAreUpserts == HandshakeSpec => ImplementsOperator
  <1>1. HandshakeInit => Init
    BY DEF HandshakeInit
  <1> QED BY <1>1, RequestsInit, RequestsNext, StepIsOperatorStep, PTL
          DEF HandshakeSpec, ImplementsOperator, Spec

\* The requests, and the operator beside them, keep to their types.
THEOREM RequestsTyped == HandshakeSpec => []RequestsOK
  <1>1. RequestsInv => RequestsOK
    BY DEF RequestsInv
  <1> QED BY <1>1, RequestsInit, RequestsNext, PTL DEF HandshakeSpec

-----------------------------------------------------------------------------
(* The account of a CR that is binded.                                     *)

\* The account is there, under this uid, and is the CR's own.
Holds(uid) == uid # 0 /\ sa.uid = uid /\ sa.owner = cr.uid

\* Nobody deletes accounts.  One that is the CR's own stays while the CR does,
\* so that an informer that has seen it still has it right, and so does a status
\* that names it.
OwnsInv ==
  /\ left["sa"] = Budget["sa"]
  /\ sa.owner <= last.cr /\ saCache.owner <= last.cr
  /\ cr.uid # 0 /\ saCache.uid # 0 /\ saCache.owner = cr.uid => saCache = sa
  /\ cr.status.ref # 0 => Holds(cr.status.ref)
  /\ cr.status.phase = "binded" => cr.status.ref # 0
  /\ cr.uid # 0 /\ crCache.uid = cr.uid /\ crCache.status.ref # 0 =>
       crCache.status.ref = cr.status.ref

\* A reconcile that grants access has the account in hand, and the status it
\* started from names that account or none.
HandInv ==
  /\ Granting \/ (rec.pc = "patch" /\ rec.goal = "Syncing") => Holds(rec.sa)
  /\ rec.pc = "patch" /\ rec.goal = "Bound" => rec.bind.status.ref = rec.sa
  /\ Serving =>
       /\ rec.orig.ref # 0 => rec.orig.ref = cr.status.ref
       /\ rec.bind.status.ref = rec.orig.ref \/ Holds(rec.bind.status.ref)

AccountInv == OrphanInv /\ OwnsInv /\ HandInv

accounts == <<cr, crCache, sa, saCache, last.cr>>

\* A new CR names no account.
LEMMA NothingNamed == NoStatus.ref = 0 /\ NoStatus.phase = ""
  BY DEF NoStatus

LEMMA AccountsKept ==
  ASSUME OwnsInv, UNCHANGED accounts, left'["sa"] = Budget["sa"]
  PROVE  OwnsInv'
  BY DEF OwnsInv, Holds, accounts

LEMMA IdleHand == ASSUME rec' = Idle PROVE HandInv'
  BY DEF HandInv, Granting, Serving, Idle

\* No step but DropSA spends what is left for deleting accounts.
LEMMA NothingDropped ==
  ASSUME TypeOK, left["sa"] <= Budget["sa"], [Next]_vars
  PROVE  /\ left'["sa"] <= Budget["sa"]
         /\ left'["sa"] = Budget["sa"] => left["sa"] = Budget["sa"] /\ ~DropSA
  <1>0. left["sa"] \in Nat /\ Budget["sa"] \in Nat /\ left \in [EnvKind -> Nat]
    BY BudgetAssumption DEF TypeOK, EnvKind
  <1>1. CASE DropSA
    <2>1. left["sa"] > 0 /\ left'["sa"] = left["sa"] - 1
      BY <1>0, <1>1 DEF DropSA, Spend, EnvKind
    <2> QED BY <1>0, <2>1
  <1> SUFFICES ASSUME ~DropSA PROVE left'["sa"] = left["sa"]
    BY <1>1
  <1>2. ASSUME NEW kind \in EnvKind \ {"sa"}, Spend(kind) PROVE left'["sa"] = left["sa"]
    BY <1>0, <1>2 DEF Spend, EnvKind
  <1>3. CASE Begin
    BY <1>3 DEF Begin, ReconcileNothing, ReconcileDelete, ReconcileFinalizer,
           ReconcilePending, ReconcileInvalidTTL, ReconcileExpired, ReconcileBind, Dequeue
  <1>4. CASE Account \/ Revoke
    BY <1>2, <1>4 DEF Account, AccountFound, AccountCreate, AccountFails, Revoke, ListOwned,
           DeleteFails, Revoked, Fault, EnvKind
  <1>5. CASE Sync
    BY <1>2, <1>5 DEF Sync, ListRoles, CreateBinding, ListStale, DeleteBinding, SyncFails,
           SyncSettled, SyncDone, Fault, EnvKind
  <1>6. CASE WritePhase \/ Finalize
    BY <1>2, <1>6 DEF WritePhase, PatchPending, PatchBinding, PatchBinded, PatchEnded, PatchFails,
           Patch, Finalize, AddFinalizer, RemoveFinalizer, UpdateFails, Fault, EnvKind
  <1>7. CASE Informers \/ UNCHANGED vars
    BY <1>7 DEF Informers, DeliverCR, DeliverSA, DeliverBindings, vars
  <1>8. CASE Environment
    BY <1>2, <1>8 DEF Environment, Resync, Restart, Upsert, Apply, DeleteCR, EditTTL,
           Annotate, CollectSA, Tick, EnvKind
  <1> QED BY <1>3, <1>4, <1>5, <1>6, <1>7, <1>8 DEF Next, Operator

LEMMA BeginAccount ==
  ASSUME AccountInv, Begin, left'["sa"] = Budget["sa"]
  PROVE  OwnsInv' /\ HandInv'
  <1>0. OrphanInv /\ OwnsInv /\ crCache \in Bind
    BY DEF AccountInv, OrphanInv, TypeOK
  <1>1. UNCHANGED accounts
    BY DEF Begin, ReconcileNothing, ReconcileDelete, ReconcileFinalizer,
           ReconcilePending, ReconcileInvalidTTL, ReconcileExpired, ReconcileBind,
           Dequeue, accounts, caches, world
  <1>2. ASSUME NEW pc \in {"patch", "account", "list"},
               NEW goal \in {"", "Accepted", "InvalidTTL", "Expired"},
               Proceed(pc, goal), Observed
        PROVE  HandInv'
    <2>1. crCache.uid = cr.uid /\ cr.uid # 0
      BY <1>0, <1>2 DEF Observed, OrphanInv, CacheInv
    <2>2. rec'.pc = pc /\ rec'.goal = goal /\ rec'.bind = crCache /\ rec'.orig = crCache.status
      BY <1>2, ProceedHolds
    <2> QED BY <1>0, <1>1, <1>2, <2>1, <2>2 DEF HandInv, OwnsInv, Granting, Serving, accounts
  <1>3. ASSUME NEW pc \in {"list", "finalize"}, Proceed(pc, "") PROVE HandInv'
    BY <1>3, ProceedHolds, pc = "list" \/ pc = "finalize" DEF HandInv, Granting, Serving, Deleting
  <1>4. HandInv'
    BY <1>2, <1>3, IdleHand
    DEF Begin, ReconcileNothing, ReconcileDelete, ReconcileFinalizer, Admitted,
        ReconcilePending, ReconcileInvalidTTL, ReconcileExpired, ReconcileBind
  <1> QED BY <1>0, <1>1, <1>4, AccountsKept

\* The account a reconcile finds or creates is the CR's own.
LEMMA AccountAccount ==
  ASSUME AccountInv, Account, left'["sa"] = Budget["sa"]
  PROVE  OwnsInv' /\ HandInv'
  <1>0. /\ OrphanInv /\ OwnsInv /\ HandInv /\ rec \in Reconcile
        /\ last \in [cr : Nat, sa : Nat] /\ cr \in Bind
        /\ rec.pc = "account" /\ UNCHANGED <<cr, crCache, saCache>> /\ last'.cr = last.cr
    BY DEF AccountInv, OrphanInv, TypeOK, Account, AccountFound, AccountCreate, AccountFails,
           caches, world
  <1>1. Serving /\ rec.bind.uid = cr.uid /\ cr.uid # 0 /\ cr.uid <= last.cr
    BY <1>0 DEF OrphanInv, HeldInv, CacheInv, Serving, Deleting
  <1>2. ASSUME NEW uid, AccountReady(uid), Holds(uid)', UNCHANGED sa \/ cr.status.ref = 0
        PROVE  HandInv'
    <2>1. rec'.sa = uid /\ rec'.orig = rec.orig
      BY <1>0, <1>2 DEF AccountReady, Reconcile, Bind, Status
    <2>2. \/ rec'.pc = "roles" /\ rec'.bind = rec.bind
          \/ rec'.pc = "patch" /\ rec'.goal = "Syncing" /\ rec'.bind.status.ref = uid
      BY <1>0, <1>2 DEF AccountReady, Reconcile, Bind, Status
    <2>3. rec.orig.ref # 0 => rec.orig.ref = cr.status.ref
      BY <1>0, <1>1 DEF HandInv
    <2>4. rec.bind.status.ref = rec.orig.ref \/ Holds(rec.bind.status.ref)
      BY <1>0, <1>1 DEF HandInv
    <2>5. (rec.bind.status.ref = rec.orig.ref \/ Holds(rec.bind.status.ref))'
      <3>1. CASE rec'.bind.status.ref = uid
        BY <1>2, <3>1 DEF Holds
      <3>2. CASE rec'.bind = rec.bind /\ UNCHANGED sa
        BY <1>0, <2>1, <2>4, <3>2 DEF Holds
      <3>3. CASE rec'.bind = rec.bind /\ ~UNCHANGED sa
        <4>1. sa.uid = 0
          BY <3>3 DEF Account, AccountFound, AccountCreate, AccountFails
        <4> QED BY <2>1, <2>4, <3>3, <4>1 DEF Holds
      <3> QED BY <2>2, <3>1, <3>2, <3>3
    <2> QED BY <1>0, <1>2, <2>1, <2>2, <2>3, <2>5 DEF HandInv, Granting, Holds
  <1>3. CASE AccountFound
    <2>1. UNCHANGED accounts /\ UNCHANGED sa
      BY <1>0, <1>3 DEF AccountFound, accounts
    <2>2. AccountView.uid # 0 /\ AccountView.owner = cr.uid
      BY <1>1, <1>3 DEF AccountFound
    <2>3. AccountView = sa
      BY <1>0, <1>1, <2>2 DEF AccountView, OwnsInv
    <2>4. PICK uid : AccountReady(uid) /\ uid = AccountView.uid
      BY <1>3 DEF AccountFound
    <2>5. Holds(uid)'
      BY <1>0, <2>1, <2>2, <2>3, <2>4 DEF Holds
    <2> QED BY <1>0, <1>2, <2>1, <2>4, <2>5, AccountsKept
  <1>4. CASE AccountCreate
    <2>1. sa.uid = 0 /\ sa' = [uid |-> last.sa + 1, owner |-> cr.uid]
      BY <1>1, <1>4 DEF AccountCreate
    <2>2. cr.status.ref = 0
      BY <1>0, <2>1 DEF OwnsInv, Holds
    <2>3. PICK uid : AccountReady(uid) /\ uid = last.sa + 1
      BY <1>4 DEF AccountCreate
    <2>4. Holds(uid)'
      BY <1>0, <2>1, <2>3 DEF Holds
    <2>5. OwnsInv'
      BY <1>0, <1>1, <2>1, <2>2 DEF OwnsInv, Holds
    <2> QED BY <1>2, <2>2, <2>3, <2>4, <2>5
  <1>5. CASE AccountFails
    <2>1. UNCHANGED accounts /\ UNCHANGED sa
      BY <1>0, <1>5 DEF AccountFails, accounts
    <2>2. /\ rec'.pc = "patch" /\ rec'.goal = "ServiceAccountFailed"
          /\ rec'.orig = rec.orig /\ rec'.bind = rec.bind
      BY <1>0, <1>5 DEF AccountFails, Reconcile
    <2>3. HandInv'
      BY <1>0, <1>1, <2>1, <2>2 DEF HandInv, Granting, Holds
    <2> QED BY <1>0, <2>1, <2>3, AccountsKept
  <1> QED BY <1>3, <1>4, <1>5 DEF Account

\* syncBindings and deleteOwned keep the account in hand.
LEMMA LoopAccount ==
  ASSUME AccountInv, Sync \/ Revoke, left'["sa"] = Budget["sa"]
  PROVE  OwnsInv' /\ HandInv'
  <1>0. OwnsInv /\ HandInv /\ HeldInv /\ rec \in Reconcile
    BY DEF AccountInv, OrphanInv, TypeOK
  <1>1. UNCHANGED accounts
    BY DEF Sync, ListRoles, CreateBinding, ListStale, DeleteBinding, SyncFails, SyncSettled,
           SyncDone, Revoke, ListOwned, DeleteFails, Revoked, accounts, caches, world
  <1> SUFFICES HandInv'
    BY <1>0, <1>1, AccountsKept
  <1>2. ASSUME rec'.goal = rec.goal, rec'.sa = rec.sa, rec'.orig = rec.orig, rec'.bind = rec.bind,
               \/ rec'.pc = rec.pc
               \/ rec.pc \in {"roles", "create", "prune"} /\ rec'.pc \in {"create", "prune"}
               \/ rec.pc \in {"list", "delete"} /\ rec'.pc = "delete"
        PROVE  HandInv'
    BY <1>0, <1>1, <1>2 DEF HandInv, Granting, Serving, Deleting, Holds, accounts
  <1>3. CASE ListRoles \/ CreateBinding \/ ListStale \/ DeleteBinding \/ ListOwned
    <2>1. rec'.goal = rec.goal /\ rec'.sa = rec.sa /\ rec'.orig = rec.orig /\ rec'.bind = rec.bind
      BY <1>0, <1>3 DEF ListRoles, CreateBinding, ListStale, DeleteBinding, ListOwned, Reconcile
    <2>2. \/ rec'.pc = rec.pc
          \/ rec.pc \in {"roles", "create", "prune"} /\ rec'.pc \in {"create", "prune"}
          \/ rec.pc \in {"list", "delete"} /\ rec'.pc = "delete"
      BY <1>0, <1>3 DEF ListRoles, CreateBinding, ListStale, DeleteBinding, ListOwned, HalfBegins,
             LoopDone, Reconcile
    <2> QED BY <1>2, <2>1, <2>2
  <1>4. CASE SyncFails
    <2>1. /\ rec.pc \in {"roles", "create", "prune"}
          /\ rec'.pc = "patch" /\ rec'.goal = "BindFailed"
          /\ rec'.sa = rec.sa /\ rec'.orig = rec.orig /\ rec'.bind = rec.bind
      BY <1>0, <1>4 DEF SyncFails, Reconcile
    <2> QED BY <1>0, <1>1, <2>1 DEF HandInv, Granting, Serving, Deleting, Holds, accounts
  <1>5. CASE SyncDone
    <2>1. /\ rec.pc = "prune" /\ rec'.pc = "patch" /\ rec'.goal = "Bound"
          /\ rec'.sa = rec.sa /\ rec'.orig = rec.orig /\ rec'.bind.status.ref = rec.sa
      BY <1>0, <1>5 DEF SyncDone, LoopDone, Reconcile, Bind, Status
    <2> QED BY <1>0, <1>1, <2>1 DEF HandInv, Granting, Serving, Deleting, Holds, accounts
  <1>6. CASE SyncSettled \/ DeleteFails
    BY <1>6, IdleHand DEF SyncSettled, DeleteFails, Abort
  <1>7. CASE Revoked
    <2>1. /\ rec.pc = "delete" /\ rec'.goal = rec.goal /\ rec'.orig = rec.orig
          /\ rec'.bind = rec.bind
          /\ rec'.pc = IF rec.goal = "Expired" THEN "patch" ELSE "unfinalize"
      BY <1>0, <1>7 DEF Revoked, LoopDone, Reconcile
    <2> QED BY <1>0, <1>1, <2>1 DEF HandInv, HeldInv, Granting, Serving, Deleting, Holds, accounts
  <1> QED BY <1>3, <1>4, <1>5, <1>6, <1>7 DEF Sync, Revoke

\* A merge patch leaves the account named on the server, or names the CR's own;
\* it says binded only when one is named.
LEMMA PatchRef ==
  ASSUME AccountInv, rec.pc = "patch", NEW ref, ref = Patched.status.ref
  PROVE  /\ ref # 0 => Holds(ref)
         /\ cr.status.ref # 0 => ref = cr.status.ref
         /\ ref = rec.orig.ref \/ Holds(ref)
         /\ Patched.status.phase = "binded" => ref # 0
  <1>0. /\ TypeOK /\ OwnsInv /\ HandInv /\ rec \in Reconcile /\ cr \in Bind
        /\ rec.goal \in Reason
    BY DEF AccountInv, OrphanInv, TypeOK, Reconcile
  <1>1. Serving
    BY DEF Serving, Deleting
  <1>2. Mutated.ref = rec.bind.status.ref
    BY <1>0 DEF Mutated, Reconcile, Bind, Status
  <1>3. ref = IF rec.bind.status.ref = rec.orig.ref THEN cr.status.ref ELSE rec.bind.status.ref
    BY <1>0, <1>2, PatchKeeps DEF Merge, Keep
  <1>4. /\ rec.orig.ref # 0 => rec.orig.ref = cr.status.ref
        /\ rec.bind.status.ref = rec.orig.ref \/ Holds(rec.bind.status.ref)
    BY <1>0, <1>1 DEF HandInv
  <1>5. cr.status.ref # 0 => Holds(cr.status.ref)
    BY <1>0 DEF OwnsInv
  <1>6. Patched.status.phase = "binded" => ref # 0
    <2>1. CASE Patched.status.phase = cr.status.phase
      BY <1>0, <1>3, <1>4, <2>1 DEF OwnsInv, Holds
    <2>2. CASE Patched.status.phase = PhaseOf(rec.goal)
      <3>1. Patched.status.phase = "binded" => rec.goal = "Bound"
        BY <1>0, <2>2 DEF PhaseOf, Reason
      <3>2. rec.goal = "Bound" => rec.bind.status.ref # 0
        BY <1>0 DEF HandInv, Granting, Holds
      <3> QED BY <1>3, <1>4, <3>1, <3>2
    <2> QED BY <1>0, <2>1, <2>2, PatchPhase
  <1> QED BY <1>3, <1>4, <1>5, <1>6 DEF Holds

LEMMA WritePhaseAccount ==
  ASSUME AccountInv, WritePhase, left'["sa"] = Budget["sa"]
  PROVE  OwnsInv' /\ HandInv'
  <1>0. /\ TypeOK /\ OwnsInv /\ HandInv /\ rec \in Reconcile /\ rec.pc = "patch"
        /\ UNCHANGED <<crCache, sa, saCache, last>>
    BY DEF AccountInv, OrphanInv, TypeOK, WritePhase, Patch, PatchPending, PatchBinding,
           PatchBinded, PatchEnded, PatchFails, caches, world
  <1>1. PICK ref : ref = Patched.status.ref
    OBVIOUS
  <1>2. ASSUME Patch PROVE OwnsInv' /\ cr'.uid = cr.uid /\ cr'.status.ref = ref
    <2>1. cr' = Patched /\ cr'.uid = cr.uid /\ cr'.status.ref = ref
      BY <1>0, <1>1, <1>2, PatchKeeps DEF Patch
    <2>2. /\ ref # 0 => Holds(ref)
          /\ cr.status.ref # 0 => ref = cr.status.ref
          /\ cr'.status.phase = "binded" => ref # 0
      BY <1>0, <1>1, <2>1, PatchRef
    <2> QED BY <1>0, <2>1, <2>2 DEF OwnsInv, Holds
  <1>3. CASE PatchPending \/ PatchBinded \/ PatchEnded
    BY <1>2, <1>3, IdleHand DEF PatchPending, PatchBinded, PatchEnded
  <1>4. CASE PatchBinding
    <2>1. /\ rec'.pc = "roles" /\ rec'.sa = rec.sa /\ rec'.orig = rec.orig
          /\ rec'.bind = Patched /\ rec.goal = "Syncing" /\ Patch
      BY <1>0, <1>4 DEF PatchBinding, Reconcile
    <2>2. Holds(rec.sa) /\ Serving
      BY <1>0, <2>1 DEF HandInv, Serving, Deleting
    <2>3. /\ cr.status.ref # 0 => ref = cr.status.ref
          /\ ref = rec.orig.ref \/ Holds(ref)
      BY <1>0, <1>1, PatchRef
    <2>4. rec.orig.ref # 0 => rec.orig.ref = cr.status.ref
      BY <1>0, <2>2 DEF HandInv
    <2>5. HandInv'
      BY <1>0, <1>1, <1>2, <2>1, <2>2, <2>3, <2>4 DEF HandInv, Granting, Holds
    <2> QED BY <1>2, <2>1, <2>5
  <1>5. CASE PatchFails
    BY <1>0, <1>5, IdleHand, AccountsKept DEF PatchFails, Abort, accounts
  <1> QED BY <1>3, <1>4, <1>5 DEF WritePhase

\* A CR that keeps uid and status, or gives way to one that names no account and
\* that no informer or account has known.
SameOrNew ==
  \/ cr'.status = cr.status /\ cr'.uid = cr.uid
  \/ cr'.status.ref = 0 /\ cr'.status.phase = "" /\ (cr'.uid = 0 \/ cr'.uid > last.cr)

LEMMA OwnsOutside ==
  ASSUME AccountInv, left'["sa"] = Budget["sa"], UNCHANGED <<crCache, sa, saCache>>, SameOrNew,
         cr'.uid \in Nat, last'.cr \in Nat, last.cr <= last'.cr
  PROVE  OwnsInv'
  <1>0. /\ OwnsInv /\ CacheInv /\ last.cr \in Nat
        /\ sa.owner \in Nat /\ saCache.owner \in Nat /\ crCache.uid \in Nat
    BY DEF AccountInv, OrphanInv, TypeOK, Bind
  <1>1. sa'.owner <= last'.cr /\ saCache'.owner <= last'.cr
    BY <1>0 DEF OwnsInv
  <1>2. CASE cr'.status = cr.status /\ cr'.uid = cr.uid
    BY <1>0, <1>1, <1>2 DEF OwnsInv, Holds
  <1>3. CASE cr'.status.ref = 0 /\ cr'.status.phase = "" /\ (cr'.uid = 0 \/ cr'.uid > last.cr)
    <2>1. cr'.uid # 0 => crCache.uid # cr'.uid /\ saCache.owner # cr'.uid
      <3>1. crCache.uid <= last.cr /\ saCache.owner <= last.cr
        BY <1>0 DEF OwnsInv, CacheInv
      <3>2. PICK c \in Nat, l \in Nat : c = cr'.uid /\ l = last.cr
        BY <1>0
      <3>3. c # 0 => c > l
        BY <1>3, <3>2
      <3> QED BY <1>0, <3>1, <3>2, <3>3
    <2> QED BY <1>0, <1>1, <1>3, <2>1 DEF OwnsInv
  <1> QED BY <1>2, <1>3 DEF SameOrNew

LEMMA HandOutside ==
  ASSUME AccountInv, UNCHANGED sa, SameOrNew, cr'.uid # cr.uid => ~cr.finalizer,
         cr'.status # cr.status => ~cr.finalizer,
         rec' = rec \/ rec' = [rec EXCEPT !.fresh = FALSE]
  PROVE  HandInv'
  <1>0. HandInv /\ HeldInv /\ rec \in Reconcile
    BY DEF AccountInv, OrphanInv, TypeOK
  <1>1. /\ rec'.pc = rec.pc /\ rec'.goal = rec.goal /\ rec'.orig = rec.orig
        /\ rec'.bind = rec.bind /\ rec'.sa = rec.sa
    BY <1>0 DEF Reconcile
  <1>2. Serving => cr'.status = cr.status /\ cr'.uid = cr.uid
    BY <1>0 DEF HeldInv
  <1>3. Granting \/ (rec.pc = "patch" /\ rec.goal = "Syncing") => Serving
    BY DEF Granting, Serving, Deleting
  <1> QED BY <1>0, <1>1, <1>2, <1>3 DEF HandInv, Granting, Serving, Deleting, Holds

LEMMA FinalizeAccount ==
  ASSUME AccountInv, Finalize, TypeOK', left'["sa"] = Budget["sa"]
  PROVE  OwnsInv' /\ HandInv'
  <1>0. /\ cr \in Bind /\ cr'.uid \in Nat /\ last'.cr \in Nat /\ rec' = Idle
        /\ UNCHANGED <<crCache, sa, saCache, last>>
    BY DEF AccountInv, OrphanInv, TypeOK, Bind, Finalize, AddFinalizer, RemoveFinalizer,
           UpdateFails, Abort, caches, world
  <1>1. SameOrNew
    <2>1. CASE AddFinalizer
      BY <1>0, <2>1 DEF AddFinalizer, Store, Bind, SameOrNew
    <2>2. CASE RemoveFinalizer
      BY <2>2 DEF RemoveFinalizer, Store, NoBind, NoStatus, SameOrNew
    <2> QED BY <2>1, <2>2 DEF Finalize, UpdateFails, SameOrNew
  <1> QED BY <1>0, <1>1, OwnsOutside, IdleHand

LEMMA InformersAccount ==
  ASSUME AccountInv, Informers, left'["sa"] = Budget["sa"]
  PROVE  OwnsInv' /\ HandInv'
  <1>0. OwnsInv /\ HandInv /\ UNCHANGED <<cr, sa, last, rec>>
    BY DEF AccountInv, Informers, DeliverCR, DeliverSA, DeliverBindings, world
  <1>1. HandInv'
    BY <1>0 DEF HandInv, Granting, Serving, Deleting, Holds
  <1>2. /\ crCache' = crCache \/ crCache' = cr
        /\ saCache' = saCache \/ saCache' = sa
    BY DEF Informers, DeliverCR, DeliverSA, DeliverBindings
  <1> QED BY <1>0, <1>1, <1>2 DEF OwnsInv, Holds

\* The garbage collector takes only what no CR in use depends on.
LEMMA CollectAccount ==
  ASSUME AccountInv, CollectSA, left'["sa"] = Budget["sa"]
  PROVE  OwnsInv' /\ HandInv'
  <1>0. /\ OwnsInv /\ HandInv /\ UNCHANGED <<cr, crCache, saCache, last, rec>>
        /\ sa.owner # cr.uid /\ sa' = [uid |-> 0, owner |-> 0]
        /\ last.cr \in Nat
    BY DEF AccountInv, OrphanInv, TypeOK, CollectSA, NoSA, caches, world
  <1>1. \A uid : ~Holds(uid)
    BY <1>0 DEF Holds
  <1>2. OwnsInv'
    BY <1>0, <1>1 DEF OwnsInv
  <1>3. HandInv'
    BY <1>0, <1>1 DEF HandInv, Granting, Serving, Deleting
  <1> QED BY <1>2, <1>3

LEMMA EnvironmentAccount ==
  ASSUME AccountInv, Environment, ~DropSA, TypeOK', left'["sa"] = Budget["sa"]
  PROVE  OwnsInv' /\ HandInv'
  <1>0. /\ OwnsInv /\ cr \in Bind /\ (cr.uid = 0 => ~cr.finalizer)
        /\ last \in [cr : Nat, sa : Nat] /\ last' \in [cr : Nat, sa : Nat] /\ cr'.uid \in Nat
    BY DEF AccountInv, OrphanInv, CacheInv, TypeOK, Bind
  <1>1. ASSUME UNCHANGED <<crCache, sa, saCache>>, SameOrNew, last.cr <= last'.cr,
               cr'.uid # cr.uid \/ cr'.status # cr.status => ~cr.finalizer,
               rec' = rec \/ rec' = [rec EXCEPT !.fresh = FALSE]
        PROVE  OwnsInv' /\ HandInv'
    BY <1>0, <1>1, OwnsOutside, HandOutside
  <1>2. CASE Resync \/ Annotate \/ Tick
    <2>1. UNCHANGED <<cr, crCache, sa, saCache, rec>> /\ last' = last
      BY <1>2 DEF Resync, Annotate, Tick, caches, world
    <2> QED BY <1>0, <1>1, <2>1 DEF SameOrNew
  <1>3. CASE CollectSA
    BY <1>3, CollectAccount
  <1>4. CASE Restart
    <2>1. rec' = Idle /\ crCache' = cr /\ saCache' = sa /\ UNCHANGED <<cr, sa, last>>
      BY <1>4 DEF Restart, world
    <2> QED BY <1>0, <2>1, IdleHand DEF OwnsInv, Holds
  <1>5. CASE Upsert
    <2>1. PICK g : StoreOutside([(IF cr.uid = 0
                                  THEN [NoBind EXCEPT !.uid = last.cr + 1, !.created = now]
                                  ELSE cr)
                                 EXCEPT !.groups = g, !.ttl = BindTTL, !.renewed = now])
      BY <1>5 DEF Upsert
    <2>2. UNCHANGED <<crCache, sa, saCache>> /\ last.cr <= last'.cr
      BY <1>0, <1>5 DEF Upsert, caches
    <2>3. CASE cr.uid = 0
      <3>1. /\ cr'.status = NoStatus /\ cr'.uid = last.cr + 1
            /\ rec' = [rec EXCEPT !.fresh = FALSE]
        BY <1>0, <2>1, <2>3 DEF StoreOutside, Store, NoBind
      <3>2. SameOrNew
        <4>1. cr'.uid > last.cr
          BY <1>0, <3>1
        <4> QED BY <3>1, <4>1, NothingNamed DEF SameOrNew
      <3> QED BY <1>0, <1>1, <2>2, <2>3, <3>1, <3>2
    <2>4. CASE cr.uid # 0
      BY <1>0, <1>1, <2>1, <2>2, <2>4 DEF StoreOutside, Store, SameOrNew, Bind
    <2> QED BY <2>3, <2>4
  <1>6. CASE Apply
    <2>1. PICK g : StoreOutside([NoBind EXCEPT !.uid = last.cr + 1, !.created = now,
                                               !.groups = g, !.ttl = BindTTL])
      BY <1>6 DEF Apply
    <2>2. cr.uid = 0 /\ UNCHANGED <<crCache, sa, saCache>> /\ last.cr <= last'.cr
      BY <1>0, <1>6 DEF Apply, caches
    <2>3. /\ cr'.status = NoStatus /\ cr'.uid = last.cr + 1
          /\ rec' = [rec EXCEPT !.fresh = FALSE]
      BY <1>0, <2>1 DEF StoreOutside, Store, NoBind
    <2>4. SameOrNew
      <3>1. cr'.uid > last.cr
        BY <1>0, <2>3
      <3> QED BY <2>3, <3>1, NothingNamed DEF SameOrNew
    <2> QED BY <1>0, <1>1, <2>2, <2>3, <2>4
  <1>7. CASE DeleteCR
    <2>1. UNCHANGED <<crCache, sa, saCache, last>>
      BY <1>7 DEF DeleteCR, caches, world
    <2>2. /\ \/ cr'.status = cr.status /\ cr'.uid = cr.uid
             \/ cr'.status = NoStatus /\ cr'.uid = 0 /\ ~cr.finalizer
          /\ rec' = [rec EXCEPT !.fresh = FALSE]
      BY <1>0, <1>7 DEF DeleteCR, StoreOutside, Store, Bind, NoBind
    <2>3. SameOrNew
      BY <2>2, NothingNamed DEF SameOrNew
    <2> QED BY <1>0, <1>1, <2>1, <2>2, <2>3
  <1>8. CASE EditTTL
    <2>1. UNCHANGED <<crCache, sa, saCache, last>>
      BY <1>8 DEF EditTTL, caches, world
    <2> QED BY <1>0, <1>1, <1>8, <2>1 DEF EditTTL, StoreOutside, Store, SameOrNew, Bind
  <1> QED BY <1>2, <1>3, <1>4, <1>5, <1>6, <1>7, <1>8 DEF Environment

LEMMA AccountInvNext ==
  ASSUME AccountInv, [Next]_vars, ~DropSA, left'["sa"] = Budget["sa"]
  PROVE  AccountInv'
  <1> SUFFICES OwnsInv' /\ HandInv'
    BY OrphanInvNext DEF AccountInv
  <1>0. TypeOK' /\ OwnsInv /\ HandInv
    BY TypeNext DEF AccountInv, OrphanInv
  <1>1. CASE UNCHANGED vars
    BY <1>0, <1>1 DEF vars, OwnsInv, HandInv, Granting, Serving, Deleting, Holds
  <1> QED BY <1>0, <1>1, BeginAccount, AccountAccount, LoopAccount, WritePhaseAccount,
             FinalizeAccount, InformersAccount, EnvironmentAccount
          DEF Next, Operator

\* Until somebody deletes a ServiceAccount, the account that a request has a token
\* minted for after WaitBinded exists and is the CR's own, however many requests
\* write the CR, whichever informers lag, whatever calls fail, and although the
\* account of an earlier CR of that name may still be there when this one starts.
THEOREM BindedOwnsAccount == HandshakeSpec => []BindedHasAccount
  <1> DEFINE Inv == /\ OrphanInv /\ left["sa"] <= Budget["sa"]
                    /\ left["sa"] = Budget["sa"] => AccountInv
  <1>1. Init => Inv
    <2> SUFFICES ASSUME Init PROVE left["sa"] <= Budget["sa"] /\ OwnsInv /\ HandInv
      BY OrphanInvInit DEF AccountInv
    <2>1. OwnsInv
      <3>1. /\ cr.uid = 0 /\ cr.status = NoStatus /\ sa.owner = 0 /\ saCache.owner = 0
            /\ last.cr = 0 /\ left["sa"] = Budget["sa"]
        BY DEF Init, NoBind, NoSA
      <3>2. sa.owner <= last.cr /\ saCache.owner <= last.cr
        BY <3>1
      <3> QED BY <3>1, <3>2, NothingNamed DEF OwnsInv
    <2>2. HandInv
      BY DEF Init, HandInv, Granting, Serving, Idle
    <2>3. left["sa"] <= Budget["sa"]
      BY BudgetAssumption DEF Init, EnvKind
    <2> QED BY <2>1, <2>2, <2>3
  <1>2. Inv /\ [Next]_vars => Inv'
    <2> SUFFICES ASSUME Inv, [Next]_vars PROVE Inv'
      OBVIOUS
    <2>1. /\ left'["sa"] <= Budget["sa"]
          /\ left'["sa"] = Budget["sa"] => left["sa"] = Budget["sa"] /\ ~DropSA
      BY NothingDropped DEF OrphanInv
    <2>2. left'["sa"] = Budget["sa"] => AccountInv'
      BY <2>1, AccountInvNext
    <2> QED BY <2>1, <2>2, OrphanInvNext
  <1>3. Inv => BindedHasAccount
    BY DEF AccountInv, OwnsInv, Holds, BindedHasAccount
  <1>4. Spec => []BindedHasAccount
    BY <1>1, <1>2, <1>3, PTL DEF Spec
  <1> QED BY <1>4, RequestsAreUpserts, PTL DEF ImplementsOperator

-----------------------------------------------------------------------------
(* The bindings of the login that created the CR.                          *)

\* The running reconcile revokes an expired CR, or is on its way to binded.
Expiring == rec.goal = "Expired" /\ rec.pc \in {"list", "delete", "patch"}

Admitting ==
  rec.pc = "account" \/ Granting \/ (rec.pc = "patch" /\ rec.goal = "Syncing")

\* Nobody but the operator has written the CR since it was created: informer and
\* reconcile have its memberships, it has not come any nearer to its expiry, and
\* once it says binded the bindings are in place.
Placed ==
  /\ cr.uid # 0 /\ cr.ttl = BindTTL /\ cr.renewed = now
  /\ crCache.uid = cr.uid =>
       crCache.groups = cr.groups /\ crCache.ttl = cr.ttl /\ crCache.renewed = cr.renewed
  /\ Serving => rec.bind.groups = cr.groups
  /\ Expiring => BindTTL = 0
  /\ Admitting => BindTTL # 0
  /\ cr.status.phase = "binded" =>
       BindTTL # 0 /\ (cr.deleting \/ Granted(cr.uid) = Desired(cr))

\* Some request waits for the CR that it created.
First == \E h \in Handler : req[h].first

FirstInv == (\A h \in Handler : req[h].first => At(h, "wait")) /\ (First => Placed)

\* A step that only moves the reconcile.
LEMMA PlacedKept ==
  ASSUME Placed, UNCHANGED <<cr, crCache, bindings, roles, now>>,
         Serving' => rec'.bind.groups = cr.groups,
         Expiring' => BindTTL = 0, Admitting' => BindTTL # 0
  PROVE  Placed'
  BY DEF Placed, Granted, Desired

LEMMA IdlePlaced ==
  ASSUME Placed, UNCHANGED <<cr, crCache, bindings, roles, now>>, rec' = Idle
  PROVE  Placed'
  <1>1. ~Serving' /\ ~Expiring' /\ ~Admitting'
    BY DEF Serving, Expiring, Admitting, Granting, Idle
  <1> QED BY <1>1, PlacedKept

LEMMA BeginPlaced ==
  ASSUME SettledInv, Placed, Begin
  PROVE  Placed'
  <1>0. CacheInv /\ now \in Nat /\ BindTTL \in Nat
    BY TTLAssumption DEF SettledInv, OrphanInv, TypeOK
  <1>1. UNCHANGED <<cr, crCache, bindings, roles, now>>
    BY DEF Begin, ReconcileNothing, ReconcileDelete, ReconcileFinalizer,
           ReconcilePending, ReconcileInvalidTTL, ReconcileExpired, ReconcileBind,
           Dequeue, caches, world
  <1>2. Observed => crCache.groups = cr.groups /\ (Expired(crCache) <=> BindTTL = 0)
    <2> SUFFICES ASSUME Observed
                 PROVE  crCache.groups = cr.groups /\ (Expired(crCache) <=> BindTTL = 0)
      OBVIOUS
    <2>1. crCache.uid = cr.uid
      BY <1>0 DEF Observed, CacheInv
    <2>2. crCache.groups = cr.groups /\ crCache.ttl = BindTTL /\ crCache.renewed = now
      BY <2>1 DEF Placed
    <2> QED BY <1>0, <2>2 DEF Expired, Expiry, NoStamp, NeverTTL
  <1>3. ASSUME NEW pc \in {"patch", "account", "list"},
               NEW goal \in {"", "Accepted", "InvalidTTL", "Expired"},
               Proceed(pc, goal), Observed,
               goal = "Expired" => Expired(crCache), pc = "account" => ~Expired(crCache)
        PROVE  Placed'
    <2>1. rec'.pc = pc /\ rec'.goal = goal /\ rec'.bind = crCache
      BY <1>3, ProceedHolds
    <2> QED BY <1>1, <1>2, <1>3, <2>1, PlacedKept DEF Expiring, Admitting, Granting
  <1>4. ASSUME NEW pc \in {"list", "finalize"}, Proceed(pc, "") PROVE Placed'
    <2>1. rec'.pc = pc /\ rec'.goal = ""
      BY <1>4, ProceedHolds
    <2>2. ~Serving' /\ ~Expiring' /\ ~Admitting'
      BY <1>4, <2>1, pc = "list" \/ pc = "finalize"
      DEF Serving, Deleting, Expiring, Admitting, Granting
    <2> QED BY <1>1, <2>2, PlacedKept
  <1>5. CASE ReconcileNothing
    BY <1>1, <1>5, IdlePlaced DEF ReconcileNothing
  <1>6. CASE ReconcileDelete \/ ReconcileFinalizer
    BY <1>4, <1>6 DEF ReconcileDelete, ReconcileFinalizer
  <1>7. CASE ReconcilePending \/ ReconcileInvalidTTL
    BY <1>3, <1>7 DEF ReconcilePending, ReconcileInvalidTTL, Admitted
  <1>8. CASE ReconcileExpired \/ ReconcileBind
    BY <1>3, <1>8 DEF ReconcileExpired, ReconcileBind, Admitted
  <1> QED BY <1>5, <1>6, <1>7, <1>8 DEF Begin

LEMMA AccountPlaced ==
  ASSUME SettledInv, Placed, Account
  PROVE  Placed'
  <1>0. rec \in Reconcile
    BY DEF SettledInv, OrphanInv, TypeOK
  <1>1. rec.pc = "account" /\ UNCHANGED <<cr, crCache, bindings, roles, now>>
    BY DEF Account, AccountFound, AccountCreate, AccountFails, caches, world
  <1>2. /\ rec'.bind.groups = rec.bind.groups
        /\ \/ rec'.pc = "roles"
           \/ rec'.pc = "patch" /\ rec'.goal \in {"Syncing", "ServiceAccountFailed"}
    <2>1. ASSUME NEW uid, AccountReady(uid)
          PROVE  /\ rec'.bind.groups = rec.bind.groups
                 /\ rec'.pc = "roles" \/ (rec'.pc = "patch" /\ rec'.goal = "Syncing")
      BY <1>0, <2>1 DEF AccountReady, Reconcile, Bind, Status
    <2>2. CASE AccountFails
      BY <1>0, <2>2 DEF AccountFails, Reconcile
    <2> QED BY <2>1, <2>2 DEF Account, AccountFound, AccountCreate
  <1>3. Serving /\ Admitting
    BY <1>1 DEF Serving, Deleting, Admitting
  <1>4. rec.bind.groups = cr.groups /\ BindTTL # 0
    BY <1>3 DEF Placed
  <1> QED BY <1>1, <1>2, <1>4, PlacedKept DEF Expiring

\* A binding that is created or deleted does not disturb bindings in place.
LEMMA BindingPlaced ==
  ASSUME Placed, UNCHANGED <<cr, crCache, roles, now>>,
         rec'.pc = rec.pc, rec'.goal = rec.goal, rec'.bind = rec.bind,
         cr.status.phase = "binded" /\ ~cr.deleting /\ Granted(cr.uid) = Desired(cr) =>
           Granted(cr.uid)' = Granted(cr.uid)
  PROVE  Placed'
  <1>1. Serving' = Serving /\ Expiring' = Expiring /\ Admitting' = Admitting
    BY DEF Serving, Deleting, Expiring, Admitting, Granting
  <1>2. Desired(cr)' = Desired(cr)
    BY DEF Desired
  <1> QED BY <1>1, <1>2 DEF Placed

LEMMA SyncPlaced ==
  ASSUME SeesBindings, SettledInv, Placed, Sync
  PROVE  Placed'
  <1>0. /\ rec \in Reconcile /\ SyncedInv /\ HeldInv /\ OwnedInv /\ bindings \subseteq Binding
        /\ UNCHANGED <<cr, crCache, roles, now>>
    BY DEF SettledInv, OrphanInv, TypeOK, Sync, ListRoles, CreateBinding, ListStale,
           DeleteBinding, SyncFails, SyncSettled, SyncDone, caches, world
  <1>1. CASE CreateBinding
    <2>1. PICK r \in rec.todo :
            /\ bindings' = bindings \cup {[owner |-> rec.bind.uid, role |-> r]}
            /\ rec' = [rec EXCEPT !.todo = @ \ {r}]
      BY <1>1 DEF CreateBinding
    <2>2. rec.pc = "create" /\ rec'.pc = "create" /\ rec'.goal = rec.goal /\ rec'.bind = rec.bind
      BY <1>0, <1>1, <2>1 DEF CreateBinding, Reconcile
    <2>3. rec.bind.groups = cr.groups /\ rec.bind.uid = cr.uid
      BY <1>0, <2>2 DEF Placed, HeldInv, Serving, Deleting
    <2>4. r \in Matching(rec.k)
      BY <1>0, <2>1, <2>2 DEF SyncedInv
    <2>5. r \in Desired(cr)
      BY <2>3, <2>4 DEF Matching, Desired, RolesOf, Role
    <2>6. Granted(cr.uid) = Desired(cr) => Granted(cr.uid)' = Granted(cr.uid)
      BY <1>0, <2>1, <2>3, <2>5 DEF Granted
    <2> QED BY <1>0, <2>2, <2>6, BindingPlaced
  <1>2. CASE DeleteBinding
    <2>1. PICK r \in rec.todo :
            /\ bindings' = bindings \ {[owner |-> rec.bind.uid, role |-> r]}
            /\ rec' = [rec EXCEPT !.todo = @ \ {r}]
      BY <1>2 DEF DeleteBinding
    <2>2. /\ rec.pc \in {"prune", "delete"}
          /\ rec'.pc = rec.pc /\ rec'.goal = rec.goal /\ rec'.bind = rec.bind
      BY <1>0, <1>2, <2>1 DEF DeleteBinding, Reconcile
    <2>3. ASSUME cr.status.phase = "binded", ~cr.deleting, Granted(cr.uid) = Desired(cr)
          PROVE  Granted(cr.uid)' = Granted(cr.uid)
      <3>1. CASE rec.pc = "prune"
        <4>1. rec.bind.groups = cr.groups /\ rec.bind.uid = cr.uid
          BY <1>0, <3>1 DEF Placed, HeldInv, Serving, Deleting
        <4>2. r \in RolesOf(rec.k) \ Matching(rec.k)
          BY <1>0, <2>1, <3>1 DEF SyncedInv
        <4>3. r \notin Desired(cr)
          BY <4>1, <4>2 DEF Matching, Desired
        <4> QED BY <1>0, <2>1, <2>3, <4>1, <4>3 DEF Granted
      <3>2. CASE rec.pc = "delete"
        <4>1. rec.goal # "Expired"
          BY <2>3, <3>2 DEF Placed, Expiring
        <4>2. Deleting
          BY <1>0, <3>2, <4>1 DEF HeldInv, Deleting
        <4>3. bindings = {}
          BY <1>0, <2>3, <4>2 DEF HeldInv, OwnedInv
        <4> QED BY <1>0, <2>1, <4>3 DEF Granted
      <3> QED BY <2>2, <3>1, <3>2
    <2> QED BY <1>0, <2>2, <2>3, BindingPlaced
  <1>3. CASE ListRoles \/ ListStale \/ SyncFails \/ SyncDone
    <2>1. UNCHANGED bindings /\ rec.pc \in {"roles", "create", "prune"}
      BY <1>3 DEF ListRoles, ListStale, SyncFails, SyncDone, HalfBegins, LoopDone
    <2>2. /\ rec'.bind.groups = rec.bind.groups
          /\ \/ rec'.pc \in {"create", "prune"}
             \/ rec'.pc = "patch" /\ rec'.goal \in {"BindFailed", "Bound"}
      <3>1. CASE ListRoles
        BY <1>0, <3>1 DEF ListRoles, Reconcile
      <3>2. CASE ListStale
        BY <1>0, <3>2 DEF ListStale, Reconcile
      <3>3. CASE SyncFails
        BY <1>0, <3>3 DEF SyncFails, Reconcile
      <3>4. CASE SyncDone
        BY <1>0, <3>4 DEF SyncDone, Reconcile, Bind, Status
      <3> QED BY <1>3, <3>1, <3>2, <3>3, <3>4
    <2>3. Serving /\ Admitting
      BY <2>1 DEF Serving, Deleting, Admitting, Granting
    <2>4. rec.bind.groups = cr.groups /\ BindTTL # 0
      BY <2>3 DEF Placed
    <2> QED BY <1>0, <2>1, <2>2, <2>4, PlacedKept DEF Expiring
  <1>4. CASE SyncSettled
    BY <1>0, <1>4, IdlePlaced DEF SyncSettled
  <1> QED BY <1>1, <1>2, <1>3, <1>4 DEF Sync

LEMMA RevokePlaced ==
  ASSUME SettledInv, Placed, Revoke
  PROVE  Placed'
  <1>0. rec \in Reconcile /\ HeldInv /\ UNCHANGED <<cr, crCache, bindings, roles, now>>
    BY DEF SettledInv, OrphanInv, TypeOK, Revoke, ListOwned, DeleteFails, Revoked, caches, world
  <1>1. CASE DeleteFails
    BY <1>0, <1>1, IdlePlaced DEF DeleteFails, Abort
  <1>2. CASE ListOwned \/ Revoked
    <2>1. rec.pc \in {"list", "delete"}
      BY <1>2 DEF ListOwned, Revoked, HalfBegins, LoopDone
    <2>2. /\ rec'.bind = rec.bind /\ rec'.goal = rec.goal
          /\ \/ rec'.pc = "delete"
             \/ rec'.pc = "patch" /\ rec.goal = "Expired"
             \/ rec'.pc = "unfinalize" /\ rec.goal # "Expired"
      BY <1>0, <1>2 DEF ListOwned, Revoked, Reconcile
    <2>3. rec.goal \in {"", "Expired"}
      BY <1>0, <2>1 DEF HeldInv
    <2>4. (Serving' => Serving) /\ (Expiring' => Expiring) /\ ~Admitting'
      BY <2>1, <2>2, <2>3 DEF Serving, Deleting, Expiring, Admitting, Granting
    <2>5. (Serving => rec.bind.groups = cr.groups) /\ (Expiring => BindTTL = 0)
      BY DEF Placed
    <2> QED BY <1>0, <2>2, <2>4, <2>5, PlacedKept
  <1> QED BY <1>1, <1>2 DEF Revoke

\* binded is written when both halves of syncBindings are done.
LEMMA WritePhasePlaced ==
  ASSUME SettledInv, Placed, WritePhase
  PROVE  Placed'
  <1>0. /\ TypeOK /\ rec \in Reconcile /\ rec.pc = "patch" /\ SyncedInv /\ HeldInv
        /\ UNCHANGED <<crCache, bindings, roles, now>>
    BY DEF SettledInv, OrphanInv, TypeOK, WritePhase, Patch, PatchPending, PatchBinding,
           PatchBinded, PatchEnded, PatchFails, caches, world
  <1>1. CASE PatchFails
    BY <1>0, <1>1, IdlePlaced DEF PatchFails, Abort
  <1>2. rec.bind.uid = cr.uid /\ rec.bind.groups = cr.groups
    BY <1>0 DEF Placed, HeldInv, Serving, Deleting
  <1>3. /\ Patched.uid = cr.uid /\ Patched.deleting = cr.deleting /\ Patched.groups = cr.groups
        /\ Patched.ttl = cr.ttl /\ Patched.renewed = cr.renewed
    BY <1>0 DEF TypeOK, Bind, Patched
  <1>4. Patched.status.phase = "binded" =>
          BindTTL # 0 /\ (cr.deleting \/ Granted(cr.uid) = Desired(cr))
    <2>1. CASE Patched.status.phase = cr.status.phase
      BY <2>1 DEF Placed
    <2>2. CASE Patched.status.phase = PhaseOf(rec.goal) /\ rec.goal # "Bound"
      <3>1. PhaseOf(rec.goal) # "binded"
        BY <2>2 DEF PhaseOf
      <3> QED BY <2>2, <3>1
    <2>3. CASE rec.goal = "Bound"
      <3>1. BindTTL # 0 /\ Synced(1) /\ Synced(2)
        BY <1>0, <2>3 DEF Placed, SyncedInv, Admitting, Granting
      <3>2. Granted(cr.uid) = Desired(cr)
        BY <1>2, <3>1 DEF Synced, OwnedOf, OwnedIn, Matching, Granted, Desired, RolesOf, Role
      <3> QED BY <3>1, <3>2
    <2> QED BY <1>0, <2>1, <2>2, <2>3, PatchPhase
  <1>5. ASSUME cr' = Patched, Serving' => rec'.bind.groups = cr.groups,
               ~Expiring', Admitting' => BindTTL # 0
        PROVE  Placed'
    BY <1>0, <1>3, <1>4, <1>5 DEF Placed, Granted, Desired
  <1>6. CASE PatchPending \/ PatchBinded \/ PatchEnded
    <2>1. cr' = Patched /\ rec' = Idle
      BY <1>6 DEF PatchPending, PatchBinded, PatchEnded, Patch
    <2>2. ~Serving' /\ ~Expiring' /\ ~Admitting'
      BY <2>1 DEF Serving, Expiring, Admitting, Granting, Idle
    <2> QED BY <1>5, <2>1, <2>2
  <1>7. CASE PatchBinding
    <2>1. cr' = Patched /\ rec'.bind = Patched /\ rec'.pc = "roles" /\ rec.goal = "Syncing"
      BY <1>0, <1>7 DEF PatchBinding, Patch, Reconcile
    <2>2. BindTTL # 0
      BY <1>0, <2>1 DEF Placed, Admitting
    <2> QED BY <1>3, <1>5, <2>1, <2>2 DEF Expiring
  <1> QED BY <1>1, <1>6, <1>7 DEF WritePhase

\* A write that leaves uid, spec and status alone.
LEMMA WritePlaced ==
  ASSUME Placed, UNCHANGED <<crCache, bindings, roles, now>>,
         cr'.uid = cr.uid, cr'.groups = cr.groups, cr'.ttl = cr.ttl, cr'.renewed = cr.renewed,
         cr'.status = cr.status, cr.deleting => cr'.deleting,
         (Serving' => Serving) /\ (Expiring' => Expiring) /\ (Admitting' => Admitting),
         Serving' => rec'.bind = rec.bind
  PROVE  Placed'
  BY DEF Placed, Granted, Desired

LEMMA FinalizePlaced ==
  ASSUME SettledInv, Placed, Finalize, cr'.uid = cr.uid
  PROVE  Placed'
  <1>0. cr \in Bind /\ rec' = Idle /\ UNCHANGED <<crCache, bindings, roles, now>>
    BY DEF SettledInv, OrphanInv, TypeOK, Finalize, AddFinalizer, RemoveFinalizer,
           UpdateFails, Abort, caches, world
  <1>1. ~Serving' /\ ~Expiring' /\ ~Admitting'
    BY <1>0 DEF Serving, Expiring, Admitting, Granting, Idle
  <1>2. CASE AddFinalizer
    <2>1. /\ cr'.groups = cr.groups /\ cr'.ttl = cr.ttl /\ cr'.renewed = cr.renewed
          /\ cr'.status = cr.status /\ cr'.deleting = cr.deleting
      BY <1>0, <1>2 DEF AddFinalizer, Store, Bind
    <2> QED BY <1>0, <1>1, <2>1, WritePlaced
  <1>3. CASE RemoveFinalizer
    BY <1>3 DEF RemoveFinalizer, Store, NoBind, Placed
  <1>4. CASE UpdateFails
    BY <1>0, <1>4, IdlePlaced DEF UpdateFails
  <1> QED BY <1>2, <1>3, <1>4 DEF Finalize

LEMMA InformersPlaced ==
  ASSUME Placed, Informers
  PROVE  Placed'
  <1>1. UNCHANGED <<cr, bindings, roles, now, rec>> /\ (crCache' = crCache \/ crCache' = cr)
    BY DEF Informers, DeliverCR, DeliverSA, DeliverBindings, world
  <1>2. Serving' = Serving /\ Expiring' = Expiring /\ Admitting' = Admitting
    BY <1>1 DEF Serving, Deleting, Expiring, Admitting, Granting
  <1> QED BY <1>1, <1>2 DEF Placed, Granted, Desired

LEMMA OutsidePlaced ==
  ASSUME SettledInv, left["ttl"] = 0, left["role"] = 0, Placed, cr'.uid = cr.uid,
         \/ Resync \/ Restart \/ Apply \/ DeleteCR \/ EditTTL \/ Annotate \/ DropSA \/ CollectSA
  PROVE  Placed'
  <1>0. cr \in Bind /\ rec \in Reconcile /\ cr.uid # 0
    BY DEF SettledInv, OrphanInv, TypeOK, Placed
  <1>1. CASE Resync \/ DropSA \/ CollectSA
    <2>1. UNCHANGED <<cr, crCache, bindings, roles, now, rec>>
      BY <1>1 DEF Resync, DropSA, CollectSA, caches, world
    <2>2. Serving' = Serving /\ Expiring' = Expiring /\ Admitting' = Admitting
      BY <2>1 DEF Serving, Deleting, Expiring, Admitting, Granting
    <2> QED BY <2>1, <2>2, WritePlaced
  <1>2. CASE Restart
    <2>1. rec' = Idle /\ crCache' = cr /\ UNCHANGED <<cr, bindings, roles, now>>
      BY <1>2 DEF Restart, world
    <2>2. ~Serving' /\ ~Expiring' /\ ~Admitting'
      BY <2>1 DEF Serving, Expiring, Admitting, Granting, Idle
    <2> QED BY <2>1, <2>2 DEF Placed, Granted, Desired
  <1>3. CASE Apply
    BY <1>0, <1>3 DEF Apply
  <1>4. CASE DeleteCR
    <2>1. /\ UNCHANGED <<crCache, bindings, roles, now>> /\ cr.finalizer
          /\ StoreOutside([cr EXCEPT !.deleting = TRUE])
      BY <1>0, <1>4 DEF DeleteCR, StoreOutside, Store, NoBind, caches, world
    <2>2. /\ cr'.groups = cr.groups /\ cr'.ttl = cr.ttl /\ cr'.renewed = cr.renewed
          /\ cr'.status = cr.status /\ cr'.deleting
      BY <1>0, <2>1 DEF StoreOutside, Store, Bind
    <2>3. rec'.pc = rec.pc /\ rec'.goal = rec.goal /\ rec'.bind = rec.bind
      BY <1>0, <2>1 DEF StoreOutside, Reconcile
    <2>4. Serving' = Serving /\ Expiring' = Expiring /\ Admitting' = Admitting
      BY <2>3 DEF Serving, Deleting, Expiring, Admitting, Granting
    <2> QED BY <2>1, <2>2, <2>3, <2>4, WritePlaced
  <1>5. CASE EditTTL \/ Annotate
    BY <1>0, <1>5 DEF EditTTL, Annotate, Spend
  <1> QED BY <1>1, <1>2, <1>3, <1>4, <1>5

\* The CR that a first login creates.
LEMMA CreatedPlaced ==
  ASSUME SettledInv, NEW h \in Handler, UpsertPut(h), cr.uid = 0, req[h].got.uid = 0
  PROVE  Placed'
  <1>0. /\ rec \in Reconcile /\ last.cr \in Nat /\ crCache.uid \in Nat /\ crCache.uid <= last.cr
        /\ HeldInv /\ CacheInv /\ UNCHANGED <<crCache, now>>
    BY DEF SettledInv, OrphanInv, CacheInv, TypeOK, Bind, UpsertPut, PutStores, caches
  <1>1. PICK g \in SUBSET Group : StoreOutside(Upserted(req[h].got, g))
    BY DEF UpsertPut, PutStores
  <1>2. /\ cr'.uid = last.cr + 1 /\ cr'.ttl = BindTTL /\ cr'.renewed = now
        /\ cr'.status = NoStatus
    BY <1>1 DEF StoreOutside, Store, Upserted, NoBind
  <1>3. rec'.pc = rec.pc /\ rec'.goal = rec.goal
    BY <1>0, <1>1 DEF StoreOutside, Reconcile
  <1>4. ~Serving
    BY <1>0 DEF HeldInv, CacheInv
  <1>5. ~Serving' /\ ~Expiring' /\ ~Admitting'
    BY <1>3, <1>4 DEF Serving, Deleting, Expiring, Admitting, Granting
  <1>6. crCache'.uid # cr'.uid /\ cr'.uid # 0
    BY <1>0, <1>2
  <1> QED BY <1>0, <1>2, <1>5, <1>6, NothingNamed DEF Placed

LEMMA FirstInvInit == HandshakeInit => FirstInv
  BY DEF HandshakeInit, FirstInv, First, NoRequest

LEMMA FirstInvNext ==
  ASSUME SeesBindings, SettledInv, RequestsInv, left["ttl"] = 0, left["role"] = 0, FirstInv,
         [HandshakeNext]_hvars
  PROVE  FirstInv'
  <1>0. req \in [Handler -> Request]
    BY DEF RequestsInv, RequestsOK
  <1>1. ASSUME UNCHANGED vars, \A h \in Handler : req'[h].first => req[h].first /\ req'[h].pc = req[h].pc
        PROVE  FirstInv'
    <2>1. First' => First
      BY <1>1 DEF First
    <2>2. Placed' = Placed
      BY <1>1 DEF vars, Placed, Serving, Deleting, Expiring, Admitting, Granting, Granted, Desired
    <2> QED BY <1>1, <2>1, <2>2 DEF FirstInv, At
  <1>2. CASE UNCHANGED hvars
    BY <1>1, <1>2 DEF hvars
  <1>3. CASE Others /\ Beside
    <2>1. \A h \in Handler : req'[h].pc = req[h].pc /\ (req'[h].first => req[h].first /\ cr'.uid = cr.uid)
      BY <1>0, <1>3 DEF Beside, Request
    <2> SUFFICES ASSUME First' PROVE Placed'
      BY <2>1 DEF FirstInv, At
    <2>2. First /\ cr'.uid = cr.uid
      BY <2>1 DEF First
    <2>3. Placed /\ ~NobodyWaits
      BY <2>2 DEF First, FirstInv, NobodyWaits
    <2> QED BY <1>3, <2>2, <2>3, BeginPlaced, AccountPlaced, SyncPlaced, RevokePlaced,
               WritePhasePlaced, FinalizePlaced, InformersPlaced, OutsidePlaced
            DEF Others, Operator
  <1>4. ASSUME NEW h \in Handler, Serve(h) PROVE FirstInv'
    <2>1. CASE UpsertGet(h) \/ UpsertFails(h) \/ WaitBinded(h) \/ WaitFails(h) \/ WaitGivesUp(h)
      <3>1. UNCHANGED vars
        BY <2>1 DEF UpsertGet, UpsertFails, WaitBinded, WaitFails, WaitGivesUp, Ends
      <3>2. \A g \in Handler : req'[g].first => req[g].first /\ req'[g].pc = req[g].pc
        <4>1. ASSUME NEW r, ~r.first, req' = [req EXCEPT ![h] = r]
              PROVE  \A g \in Handler : req'[g].first => req[g].first /\ req'[g].pc = req[g].pc
          BY <1>0, <4>1
        <4>2. CASE UpsertGet(h)
          <5>1. ~[NoRequest EXCEPT !.pc = "put", !.got = cr, !.fresh = TRUE].first
            BY DEF NoRequest
          <5> QED BY <2>1, <4>1, <4>2, <5>1 DEF UpsertGet
        <4>3. CASE Ends(h)
          <5>1. ~NoRequest.first
            BY DEF NoRequest
          <5> QED BY <4>1, <4>3, <5>1 DEF Ends
        <4> QED BY <2>1, <4>2, <4>3 DEF UpsertFails, WaitBinded, WaitFails, WaitGivesUp
      <3> QED BY <1>1, <3>1, <3>2
    <2>2. CASE UpsertPut(h)
      <3>1. \A g \in Handler : req'[g].first => g = h /\ req'[g].pc = "wait" /\ req[h].got.uid = 0
        BY <1>0, <2>2 DEF UpsertPut, PutStores, NoRequest, Request
      <3>0. req[h].got.uid = 0 => cr.uid = 0
        BY <2>2 DEF UpsertPut
      <3>2. First' => Placed'
        BY <2>2, <3>0, <3>1, CreatedPlaced DEF First
      <3> QED BY <3>1, <3>2 DEF FirstInv, At
    <2> QED BY <1>4, <2>1, <2>2 DEF Serve
  <1> QED BY <1>2, <1>3, <1>4 DEF HandshakeNext

\* A budget that is spent stays spent.
LEMMA SpentStays ==
  ASSUME TypeOK, NEW k \in EnvKind, left[k] = 0, [Next]_vars
  PROVE  left'[k] = 0
  <1>1. left \in [EnvKind -> Nat]
    BY DEF TypeOK
  <1>2. UNCHANGED left \/ \E kind \in EnvKind : Spend(kind)
    BY SpendsOrNot
  <1> QED BY <1>1, <1>2 DEF Spend

\* The login that creates the CR gets its token only after its bindings are there:
\* whichever CR and ServiceAccount informers lag, however many requests poll, fail
\* or write meanwhile, whatever calls fail and whenever the operator restarts.  It
\* takes binding informers that are current, roles that keep their annotations and
\* a spec.ttl that nobody edits; a spec.ttl of zero makes the premise false, not
\* the property.
THEOREM FirstLoginBound ==
  ASSUME "binding" \notin Laggy, Budget["role"] = 0, Budget["ttl"] = 0
  PROVE  HandshakeSpec => FirstLoginInPlace
  <1> DEFINE Spent == left["ttl"] = 0 /\ left["role"] = 0
             Inv == SettledInv /\ RequestsInv /\ Spent /\ FirstInv
  <1>0. SeesBindings
    BY DEF SeesBindings
  <1>1. HandshakeInit => Inv
    BY SettledInvInit, RequestsInit, FirstInvInit DEF HandshakeInit, Init
  <1>2. Inv /\ [HandshakeNext]_hvars => Inv'
    <2> SUFFICES ASSUME Inv, [HandshakeNext]_hvars PROVE Inv'
      OBVIOUS
    <2>1. [Next]_vars
      BY StepIsOperatorStep
    <2>2. Spent'
      BY <2>1, SpentStays DEF RequestsInv, RequestsOK, EnvKind
    <2>3. SettledInv'
      BY <1>0, <2>1, <2>2, SettledInvNext DEF RolesStay
    <2> QED BY <1>0, <2>2, <2>3, RequestsNext, FirstInvNext
  <1>3. Inv => [\A h \in Handler : WaitBinded(h) /\ req[h].first /\ ~cr.deleting =>
                  Granted(cr.uid) = Desired(cr)]_hvars
    BY DEF FirstInv, First, Placed, WaitBinded
  <1> QED BY <1>1, <1>2, <1>3, PTL DEF HandshakeSpec, FirstLoginInPlace
=============================================================================
