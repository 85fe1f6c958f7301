---------------------- MODULE BindOperatorRevocation ----------------------
(***************************************************************************)
(* Proofs that access does not outlive the CR, nor the phase unbound.      *)
(*                                                                         *)
(* A theorem assumes the informers to be current that it needs to be so:   *)
(* access outlives the CR if the bindings are listed from an informer that *)
(* is behind, and the phase unbound also if the CR is read from one. That  *)
(* no reconcile acts on a successor of its CR needs neither.               *)
(***************************************************************************)
EXTENDS BindOperatorProofs

-----------------------------------------------------------------------------
(* The inductive invariant.                                                *)

\* The informer's copy is an earlier version of the CR, or of an earlier CR:
\* finalizer and deletion mark, once set, stay until the CR is gone, and only
\* a CR that the operator has seen carries the finalizer.
CacheInv ==
  /\ cr.uid <= last.cr /\ crCache.uid <= last.cr
  /\ crFresh => crCache = cr
  /\ cr.finalizer => cr.uid # 0 /\ crCache.uid = cr.uid
  /\ cr.deleting => cr.finalizer
  /\ crCache.deleting => crCache.finalizer
  /\ crCache.finalizer => crCache.uid # 0
  /\ crCache.uid = cr.uid =>
       (crCache.finalizer => cr.finalizer) /\ (crCache.deleting => cr.deleting)
  /\ crCache.finalizer /\ ~crCache.deleting => crCache.uid = cr.uid

\* reconcileDelete is running.
Deleting == rec.goal = "" /\ rec.pc \in {"list", "delete", "unfinalize"}

\* Reconcile is past the deletion and finalizer checks.
Serving == rec.pc \notin {"idle", "finalize"} /\ ~Deleting

\* A reconcile that grants or expires access holds the CR that is on the
\* server, and that CR cannot go while it runs; a reconcile that deletes works
\* on a CR that is marked, or that has gone and has no successor in use.
HeldInv ==
  /\ Serving => rec.bind.uid = cr.uid /\ cr.finalizer
  /\ rec.pc = "finalize" /\ rec.fresh => crCache.uid = cr.uid /\ cr.uid # 0
  /\ Deleting =>
       /\ cr.finalizer => cr.uid = rec.bind.uid /\ cr.deleting
       /\ crCache.finalizer => crCache.deleting
  /\ rec.pc = "unfinalize" => rec.goal = ""
  /\ rec.pc \in {"list", "delete"} => rec.goal \in {"", "Expired"}

\* The binding informers are current.
SeesBindings == "binding" \notin Laggy

\* deleteOwned leaves nothing that it sees in the halves it has finished.
DeletedInv ==
  SeesBindings =>
    /\ rec.pc = "delete" =>
         /\ OwnedIn(bindings, rec.bind.uid, rec.k) \subseteq rec.todo
         /\ rec.k = 2 => OwnedIn(bindings, rec.bind.uid, 1) = {}
    /\ rec.pc = "unfinalize" \/ (rec.pc = "patch" /\ rec.goal = "Expired") =>
         \A k \in {1, 2} : OwnedIn(bindings, rec.bind.uid, k) = {}

\* Bindings belong to the CR on the server, which carries the finalizer.
OwnedInv == SeesBindings => \A b \in bindings : b.owner = cr.uid /\ cr.finalizer

OrphanInv == TypeOK /\ CacheInv /\ HeldInv /\ DeletedInv /\ OwnedInv

\* Before the first patch of a reconcile its baseline is the server's status.
Unwritten ==
  \/ rec.pc \in {"account", "list", "delete"}
  \/ rec.pc = "patch" /\ rec.goal \notin {"Bound", "BindFailed"}

\* Access is being granted.
Granting ==
  \/ rec.pc \in {"roles", "create", "prune"}
  \/ rec.pc = "patch" /\ rec.goal \in {"Bound", "BindFailed"}

\* A reconcile that grants access has left unbound behind.
PhaseInv ==
  /\ Serving /\ Unwritten => rec.orig = cr.status
  /\ Granting => cr.status.phase \in {"binding", "binded"}
  /\ rec.pc = "patch" => rec.goal # ""

RevokedInv == OrphanInv /\ PhaseInv /\ UnboundIsRevoked

-----------------------------------------------------------------------------
(* Orphaned bindings, one lemma per group of actions.                      *)

\* What the cache and the owners depend on.
objects == <<cr, crCache, crFresh, bindings, last.cr>>

LEMMA ObjectsKept ==
  ASSUME CacheInv, OwnedInv, UNCHANGED objects
  PROVE  CacheInv' /\ OwnedInv'
  BY DEF CacheInv, OwnedInv, objects

\* An idle worker holds nothing.
LEMMA IdleHolds == ASSUME rec' = Idle PROVE HeldInv' /\ DeletedInv'
  BY DEF HeldInv, DeletedInv, Serving, Deleting, Idle

LEMMA ProceedHolds ==
  ASSUME NEW pc, NEW goal, Proceed(pc, goal)
  PROVE  rec'.pc = pc /\ rec'.goal = goal /\ rec'.bind = crCache
           /\ rec'.fresh = crFresh /\ rec'.orig = crCache.status
  BY DEF Proceed, Idle

LEMMA BeginHolds == OrphanInv /\ Begin => HeldInv' /\ DeletedInv' /\ UNCHANGED objects
  <1> SUFFICES ASSUME OrphanInv, Begin PROVE HeldInv' /\ DeletedInv' /\ UNCHANGED objects
    OBVIOUS
  <1>1. UNCHANGED objects
    BY DEF Begin, ReconcileNothing, ReconcileDelete, ReconcileFinalizer,
           ReconcilePending, ReconcileInvalidTTL, ReconcileExpired, ReconcileBind,
           Dequeue, objects, caches, world
  <1>2. CASE ReconcileNothing
    BY <1>1, <1>2, IdleHolds DEF ReconcileNothing
  <1>3. CASE ReconcileDelete
    BY <1>1, <1>3, ProceedHolds
    DEF ReconcileDelete, OrphanInv, CacheInv, HeldInv, DeletedInv, Serving, Deleting, objects
  <1>4. CASE ReconcileFinalizer
    <2>1. rec'.pc = "finalize" /\ rec'.fresh = crFresh /\ crCache.uid # 0
      BY <1>4, ProceedHolds DEF ReconcileFinalizer
    <2>2. rec'.fresh => crCache = cr
      BY <2>1 DEF OrphanInv, CacheInv
    <2>3. rec'.fresh => crCache'.uid = cr'.uid /\ cr'.uid # 0
      BY <1>1, <2>1, <2>2 DEF objects
    <2> QED BY <1>1, <2>1, <2>3 DEF HeldInv, DeletedInv, Serving, Deleting
  <1>5. ASSUME NEW pc \in {"patch", "account", "list"}, NEW goal, Proceed(pc, goal), Observed,
               pc = "list" <=> goal = "Expired"
        PROVE  HeldInv' /\ DeletedInv'
    BY <1>1, <1>5, ProceedHolds
    DEF Observed, OrphanInv, CacheInv, HeldInv, DeletedInv, Serving, Deleting, objects
  <1>6. CASE ReconcilePending
    BY <1>1, <1>5, <1>6 DEF ReconcilePending
  <1>7. CASE ReconcileInvalidTTL
    BY <1>1, <1>5, <1>7 DEF ReconcileInvalidTTL, Admitted
  <1>8. CASE ReconcileExpired
    BY <1>1, <1>5, <1>8 DEF ReconcileExpired, Admitted
  <1>9. CASE ReconcileBind
    BY <1>1, <1>5, <1>9 DEF ReconcileBind, Admitted
  <1> QED BY <1>2, <1>3, <1>4, <1>6, <1>7, <1>8, <1>9, <1>1 DEF Begin

\* A reconcile that goes on serving the same CR.
LEMMA StillServing ==
  ASSUME OrphanInv, Serving, UNCHANGED <<cr, crCache>>,
         rec'.bind.uid = rec.bind.uid,
         \/ rec'.pc \in {"roles", "create", "prune"}
         \/ rec'.pc = "patch" /\ rec'.goal # "Expired"
  PROVE  HeldInv' /\ DeletedInv'
  BY DEF OrphanInv, HeldInv, DeletedInv, Serving, Deleting

LEMMA AccountHolds == OrphanInv /\ Account => HeldInv' /\ DeletedInv' /\ UNCHANGED objects
  <1> SUFFICES ASSUME OrphanInv, Account PROVE HeldInv' /\ DeletedInv' /\ UNCHANGED objects
    OBVIOUS
  <1>0. rec \in Reconcile /\ last \in [cr : Nat, sa : Nat]
    BY DEF OrphanInv, TypeOK
  <1>1. UNCHANGED objects
    BY <1>0 DEF Account, AccountFound, AccountCreate, AccountFails, objects, caches, world
  <1>2. rec.pc = "account"
    BY DEF Account, AccountFound, AccountCreate, AccountFails
  <1>3. /\ rec'.bind.uid = rec.bind.uid
        /\ \/ rec'.pc = "roles"
           \/ rec'.pc = "patch" /\ rec'.goal # "Expired"
    <2>1. ASSUME NEW uid, AccountReady(uid)
          PROVE  rec'.bind.uid = rec.bind.uid /\ rec'.pc \in {"roles", "patch"}
                   /\ (rec'.pc = "patch" => rec'.goal # "Expired")
      BY <1>0, <2>1 DEF AccountReady, Reconcile, Bind
    <2>2. CASE AccountFails
      BY <1>0, <2>2 DEF AccountFails, Reconcile
    <2> QED BY <2>1, <2>2 DEF Account, AccountFound, AccountCreate
  <1> QED BY <1>1, <1>2, <1>3, StillServing DEF Serving, Deleting, objects

LEMMA SyncHolds ==
  OrphanInv /\ Sync => CacheInv' /\ HeldInv' /\ DeletedInv' /\ OwnedInv'
  <1> SUFFICES ASSUME OrphanInv, Sync
               PROVE  CacheInv' /\ HeldInv' /\ DeletedInv' /\ OwnedInv'
    OBVIOUS
  <1>0. rec \in Reconcile /\ CacheInv /\ OwnedInv
    BY DEF OrphanInv, TypeOK
  <1>1. CASE CreateBinding
    <2>1. PICK r \in rec.todo :
            /\ bindings' = bindings \cup {[owner |-> rec.bind.uid, role |-> r]}
            /\ rec' = [rec EXCEPT !.todo = @ \ {r}]
      BY <1>1 DEF CreateBinding
    <2>2. UNCHANGED <<cr, crCache, crFresh, last>> /\ rec.pc = "create"
      BY <1>1 DEF CreateBinding, caches, world
    <2>3. rec'.pc = "create" /\ rec'.bind = rec.bind
      BY <1>0, <2>1, <2>2 DEF Reconcile
    <2>4. HeldInv' /\ DeletedInv'
      BY <2>2, <2>3, StillServing DEF Serving, Deleting
    <2>5. rec.bind.uid = cr.uid /\ cr.finalizer
      BY <2>2 DEF OrphanInv, HeldInv, Serving, Deleting
    <2>6. OwnedInv'
      BY <1>0, <2>1, <2>2, <2>5 DEF OwnedInv
    <2> QED BY <1>0, <2>2, <2>4, <2>6 DEF CacheInv
  <1>2. CASE DeleteBinding
    <2>1. PICK r \in rec.todo :
            /\ bindings' = bindings \ {[owner |-> rec.bind.uid, role |-> r]}
            /\ rec' = [rec EXCEPT !.todo = @ \ {r}]
      BY <1>2 DEF DeleteBinding
    <2>2. UNCHANGED <<cr, crCache, crFresh, last>> /\ rec.pc \in {"prune", "delete"}
      BY <1>2 DEF DeleteBinding, caches, world
    <2>3. /\ rec'.pc = rec.pc /\ rec'.bind = rec.bind /\ rec'.goal = rec.goal
          /\ rec'.k = rec.k /\ rec'.todo = rec.todo \ {r}
      BY <1>0, <2>1 DEF Reconcile
    <2>4. HeldInv'
      BY <2>2, <2>3 DEF OrphanInv, HeldInv, Serving, Deleting
    <2>5. DeletedInv'
      BY <2>1, <2>2, <2>3 DEF OrphanInv, DeletedInv, OwnedIn
    <2>6. CacheInv' /\ OwnedInv'
      BY <1>0, <2>1, <2>2 DEF CacheInv, OwnedInv
    <2> QED BY <2>4, <2>5, <2>6
  <1>3. CASE ListRoles \/ ListStale \/ SyncFails \/ SyncDone
    <2>1. UNCHANGED objects
      BY <1>3 DEF ListRoles, ListStale, SyncFails, SyncDone, objects, caches, world
    <2>2. rec.pc \in {"roles", "create", "prune"}
      BY <1>3 DEF ListRoles, ListStale, SyncFails, SyncDone, HalfBegins, LoopDone
    <2>3. /\ rec'.bind.uid = rec.bind.uid
          /\ \/ rec'.pc \in {"roles", "create", "prune"}
             \/ rec'.pc = "patch" /\ rec'.goal # "Expired"
      <3>1. CASE ListRoles
        BY <1>0, <3>1 DEF ListRoles, Reconcile
      <3>2. CASE ListStale
        BY <1>0, <3>2 DEF ListStale, Reconcile
      <3>3. CASE SyncFails
        BY <1>0, <3>3 DEF SyncFails, Reconcile
      <3>4. CASE SyncDone
        BY <1>0, <3>4 DEF SyncDone, Reconcile, Bind, Status
      <3> QED BY <1>3, <3>1, <3>2, <3>3, <3>4
    <2> QED BY <1>0, <2>1, <2>2, <2>3, StillServing, ObjectsKept
            DEF Serving, Deleting, objects
  <1>4. CASE SyncSettled
    <2>1. UNCHANGED objects /\ rec' = Idle
      BY <1>4 DEF SyncSettled, objects, caches, world
    <2> QED BY <1>0, <2>1, IdleHolds, ObjectsKept
  <1> QED BY <1>1, <1>2, <1>3, <1>4 DEF Sync

LEMMA RevokeHolds ==
  ASSUME OrphanInv, Revoke
  PROVE  HeldInv' /\ DeletedInv' /\ UNCHANGED objects
  <1>0. rec \in Reconcile
    BY DEF OrphanInv, TypeOK
  <1>1. UNCHANGED objects
    BY DEF Revoke, ListOwned, DeleteFails, Revoked, objects, caches, world
  <1>2. CASE ListOwned
    <2>1. PICK k \in {1, 2} :
            /\ HalfBegins(k, "list", "delete")
            /\ rec' = [rec EXCEPT !.pc = "delete", !.k = k, !.todo = Listed(k)]
      BY <1>2 DEF ListOwned
    <2>2. rec.pc \in {"list", "delete"} /\ (k = 2 => rec.pc = "delete" /\ rec.todo = {} /\ rec.k = 1)
      BY <2>1 DEF HalfBegins, LoopDone
    <2>3. /\ rec'.pc = "delete" /\ rec'.bind = rec.bind /\ rec'.goal = rec.goal
          /\ rec'.k = k /\ (SeesBindings => rec'.todo = OwnedIn(bindings, rec.bind.uid, k))
      BY <1>0, <2>1 DEF Reconcile, Listed, SeesBindings
    <2>4. HeldInv'
      BY <1>1, <2>2, <2>3 DEF OrphanInv, HeldInv, Serving, Deleting, objects
    <2>5. DeletedInv'
      BY <1>1, <2>2, <2>3 DEF OrphanInv, DeletedInv, OwnedIn, RolesOf, objects
    <2> QED BY <1>1, <2>4, <2>5
  <1>3. CASE DeleteFails
    BY <1>1, <1>3, IdleHolds DEF DeleteFails, Abort
  <1>4. CASE Revoked
    <2>1. rec.pc = "delete" /\ rec.todo = {} /\ rec.k = 2
      BY <1>4 DEF Revoked, LoopDone
    <2>2. /\ rec'.bind = rec.bind /\ rec'.goal = rec.goal
          /\ rec'.pc = IF rec.goal = "Expired" THEN "patch" ELSE "unfinalize"
      BY <1>0, <1>4 DEF Revoked, Reconcile
    <2>3. SeesBindings => \A k \in {1, 2} : OwnedIn(bindings, rec.bind.uid, k) = {}
      BY <2>1 DEF OrphanInv, DeletedInv
    <2>4. DeletedInv'
      BY <1>1, <2>2, <2>3 DEF DeletedInv, OwnedIn, RolesOf, objects
    <2>5. HeldInv'
      BY <1>1, <2>1, <2>2 DEF OrphanInv, HeldInv, Serving, Deleting, objects
    <2> QED BY <1>1, <2>4, <2>5
  <1> QED BY <1>2, <1>3, <1>4 DEF Revoke

\* A patch changes nothing but the status.
LEMMA PatchKeeps ==
  ASSUME TypeOK
  PROVE  /\ Patched.uid = cr.uid /\ Patched.finalizer = cr.finalizer
         /\ Patched.deleting = cr.deleting
         /\ Patched.status = Merge(rec.orig, Mutated, cr.status)
  BY DEF TypeOK, Bind, Patched

LEMMA WritePhaseHolds ==
  OrphanInv /\ WritePhase => CacheInv' /\ HeldInv' /\ DeletedInv' /\ OwnedInv'
  <1> SUFFICES ASSUME OrphanInv, WritePhase
               PROVE  CacheInv' /\ HeldInv' /\ DeletedInv' /\ OwnedInv'
    OBVIOUS
  <1>0. TypeOK /\ rec \in Reconcile /\ CacheInv /\ OwnedInv
    BY DEF OrphanInv, TypeOK
  <1>1. ASSUME Patch
        PROVE  /\ CacheInv' /\ OwnedInv'
               /\ cr'.uid = cr.uid /\ cr'.finalizer = cr.finalizer /\ UNCHANGED crCache
    <2>1. /\ cr'.uid = cr.uid /\ cr'.finalizer = cr.finalizer
          /\ cr'.deleting = cr.deleting
      BY <1>0, <1>1, PatchKeeps DEF Patch
    <2>2. UNCHANGED <<crCache, bindings, last>>
      BY <1>1 DEF Patch, caches, world
    <2>3. crFresh' => crCache' = cr'
      <3>1. cr' = Patched /\ crFresh' = (crFresh /\ Patched = cr)
        BY <1>1 DEF Patch
      <3>2. crFresh' => crFresh /\ cr' = cr
        BY <3>1, Zenon
      <3> QED BY <1>0, <2>2, <3>2 DEF CacheInv
    <2>4. CacheInv'
      BY <1>0, <2>1, <2>2, <2>3 DEF CacheInv
    <2>5. OwnedInv'
      BY <1>0, <2>1, <2>2 DEF OwnedInv
    <2> QED BY <2>1, <2>2, <2>4, <2>5
  <1>2. CASE PatchPending \/ PatchBinded \/ PatchEnded
    BY <1>1, <1>2, IdleHolds DEF PatchPending, PatchBinded, PatchEnded
  <1>3. CASE PatchBinding
    <2>1. rec.pc = "patch" /\ Patch
      BY <1>3 DEF PatchBinding, Patch
    <2>2. rec'.pc = "roles" /\ rec'.bind = Patched
      BY <1>0, <1>3 DEF PatchBinding, Reconcile
    <2>3. cr.finalizer
      BY <2>1 DEF OrphanInv, HeldInv, Serving, Deleting
    <2>4. HeldInv' /\ DeletedInv'
      BY <1>0, <1>1, <2>1, <2>2, <2>3, PatchKeeps
      DEF HeldInv, DeletedInv, Serving, Deleting
    <2> QED BY <1>1, <2>1, <2>4
  <1>4. CASE PatchFails
    <2>1. UNCHANGED objects /\ rec' = Idle
      BY <1>4 DEF PatchFails, Abort, objects, caches, world
    <2> QED BY <1>0, <2>1, IdleHolds, ObjectsKept
  <1> QED BY <1>2, <1>3, <1>4 DEF WritePhase

LEMMA FinalizeHolds ==
  OrphanInv /\ Finalize => CacheInv' /\ HeldInv' /\ DeletedInv' /\ OwnedInv'
  <1> SUFFICES ASSUME OrphanInv, Finalize
               PROVE  CacheInv' /\ HeldInv' /\ DeletedInv' /\ OwnedInv'
    OBVIOUS
  <1>0. TypeOK /\ CacheInv /\ OwnedInv
    BY DEF OrphanInv
  <1>1. CASE AddFinalizer
    <2>1. crCache.uid = cr.uid /\ cr.uid # 0
      BY <1>1 DEF AddFinalizer, OrphanInv, HeldInv
    <2>2. /\ cr'.uid = cr.uid /\ cr'.finalizer /\ cr'.deleting = cr.deleting
          /\ ~crFresh' /\ UNCHANGED <<crCache, bindings, last>> /\ rec' = Idle
      BY <1>0, <1>1 DEF AddFinalizer, Store, TypeOK, Bind, caches, world
    <2>3. CacheInv'
      BY <1>0, <2>1, <2>2 DEF CacheInv
    <2>4. OwnedInv'
      BY <1>0, <2>2 DEF OwnedInv
    <2> QED BY <2>2, <2>3, <2>4, IdleHolds
  <1>2. CASE RemoveFinalizer
    <2>1. rec.pc = "unfinalize" /\ Deleting
      BY <1>2 DEF RemoveFinalizer, OrphanInv, HeldInv, Deleting
    <2>2. /\ cr' = NoBind /\ ~crFresh' /\ UNCHANGED <<crCache, bindings, last>> /\ rec' = Idle
      BY <1>2 DEF RemoveFinalizer, Store, caches, world
    <2>3. crCache.finalizer => crCache.deleting
      BY <2>1 DEF OrphanInv, HeldInv
    <2>4. SeesBindings => bindings = {}
      <3> SUFFICES ASSUME SeesBindings, NEW b \in bindings PROVE FALSE
        OBVIOUS
      <3>1. b.owner = rec.bind.uid
        BY <2>1 DEF OrphanInv, OwnedInv, HeldInv
      <3>2. b \in Binding /\ b = [owner |-> b.owner, role |-> b.role]
        BY <1>0 DEF TypeOK, Binding
      <3>3. PICK k \in {1, 2} : b.role \in RolesOf(k)
        BY <3>2 DEF Binding, Role, RolesOf
      <3>4. b.role \in OwnedIn(bindings, rec.bind.uid, k)
        BY <3>1, <3>2, <3>3 DEF OwnedIn
      <3> QED BY <2>1, <3>4 DEF OrphanInv, DeletedInv
    <2>5. CacheInv'
      BY <1>0, <2>2, <2>3 DEF CacheInv, NoBind, TypeOK, Bind
    <2>6. OwnedInv'
      BY <2>2, <2>4 DEF OwnedInv
    <2> QED BY <2>2, <2>5, <2>6, IdleHolds
  <1>3. CASE UpdateFails
    <2>1. UNCHANGED objects /\ rec' = Idle
      BY <1>3 DEF UpdateFails, Abort, objects, caches, world
    <2> QED BY <1>0, <2>1, IdleHolds, ObjectsKept
  <1> QED BY <1>1, <1>2, <1>3 DEF Finalize

\* A step that leaves the objects and the reconcile alone.
LEMMA NothingMoves ==
  ASSUME OrphanInv, UNCHANGED objects, UNCHANGED rec
  PROVE  CacheInv' /\ HeldInv' /\ DeletedInv' /\ OwnedInv'
  <1>1. CacheInv' /\ OwnedInv'
    BY ObjectsKept DEF OrphanInv
  <1>2. HeldInv' /\ DeletedInv'
    BY DEF OrphanInv, HeldInv, DeletedInv, Serving, Deleting, OwnedIn, RolesOf, objects
  <1> QED BY <1>1, <1>2

LEMMA InformersHold ==
  OrphanInv /\ Informers => CacheInv' /\ HeldInv' /\ DeletedInv' /\ OwnedInv'
  <1> SUFFICES ASSUME OrphanInv, Informers
               PROVE  CacheInv' /\ HeldInv' /\ DeletedInv' /\ OwnedInv'
    OBVIOUS
  <1>1. CASE DeliverCR
    <2>1. crCache' = cr /\ UNCHANGED <<cr, bindings, last, rec>>
      BY <1>1 DEF DeliverCR, world
    <2>2. CacheInv' /\ OwnedInv'
      BY <2>1 DEF OrphanInv, CacheInv, OwnedInv
    <2>3. HeldInv'
      BY <2>1 DEF OrphanInv, CacheInv, HeldInv, Serving, Deleting
    <2>4. DeletedInv'
      BY <2>1 DEF OrphanInv, DeletedInv, OwnedIn, RolesOf
    <2> QED BY <2>2, <2>3, <2>4
  <1>2. CASE DeliverSA \/ DeliverBindings
    BY <1>2, NothingMoves DEF DeliverSA, DeliverBindings, objects, world
  <1> QED BY <1>1, <1>2 DEF Informers

\* Somebody else's version of the same CR, marked at most.
LEMMA StoreSame ==
  ASSUME OrphanInv, NEW c, StoreOutside(c), UNCHANGED <<crCache, bindings, last>>,
         c.uid = cr.uid, c.finalizer = cr.finalizer,
         cr.deleting => c.deleting, c.deleting => c.finalizer
  PROVE  CacheInv' /\ HeldInv' /\ DeletedInv' /\ OwnedInv'
  <1>0. rec \in Reconcile
    BY DEF OrphanInv, TypeOK
  <1>1. cr' = c /\ ~crFresh'
    BY DEF StoreOutside, Store
  <1>2. /\ rec'.pc = rec.pc /\ rec'.goal = rec.goal /\ rec'.bind = rec.bind
        /\ rec'.k = rec.k /\ rec'.todo = rec.todo /\ ~rec'.fresh
    BY <1>0 DEF StoreOutside, Reconcile
  <1>3. CacheInv' /\ OwnedInv'
    BY <1>1 DEF OrphanInv, CacheInv, OwnedInv
  <1>4. HeldInv'
    BY <1>1, <1>2 DEF OrphanInv, HeldInv, Serving, Deleting
  <1>5. DeletedInv'
    BY <1>2 DEF OrphanInv, DeletedInv, OwnedIn, RolesOf
  <1> QED BY <1>3, <1>4, <1>5

\* A CR without finalizer is replaced by none or by a new one.
LEMMA StoreOther ==
  ASSUME OrphanInv, NEW c, StoreOutside(c), UNCHANGED <<crCache, bindings>>,
         ~cr.finalizer, ~c.finalizer, ~c.deleting, last'.cr \in Nat, last.cr <= last'.cr,
         c.uid \in Nat, c.uid <= last'.cr, c.uid = 0 \/ c.uid > last.cr
  PROVE  CacheInv' /\ HeldInv' /\ DeletedInv' /\ OwnedInv'
  <1>0. rec \in Reconcile /\ crCache.uid \in Nat /\ last.cr \in Nat
    BY DEF OrphanInv, TypeOK, Bind
  <1>1. cr' = c /\ ~crFresh'
    BY DEF StoreOutside, Store
  <1>2. /\ rec'.pc = rec.pc /\ rec'.goal = rec.goal /\ rec'.bind = rec.bind
        /\ rec'.k = rec.k /\ rec'.todo = rec.todo /\ ~rec'.fresh
    BY <1>0 DEF StoreOutside, Reconcile
  <1>3. (SeesBindings => bindings = {}) /\ ~Serving
    BY DEF OrphanInv, OwnedInv, HeldInv
  <1>4. crCache.finalizer => crCache.deleting
    BY DEF OrphanInv, CacheInv
  <1>5. CacheInv'
    BY <1>0, <1>1, <1>4 DEF OrphanInv, CacheInv
  <1>6. HeldInv'
    BY <1>1, <1>2, <1>3, <1>4 DEF OrphanInv, HeldInv, Serving, Deleting
  <1>7. DeletedInv' /\ OwnedInv'
    BY <1>2, <1>3 DEF DeletedInv, OwnedInv, OwnedIn
  <1> QED BY <1>5, <1>6, <1>7

LEMMA EnvironmentHolds ==
  OrphanInv /\ Environment => CacheInv' /\ HeldInv' /\ DeletedInv' /\ OwnedInv'
  <1> SUFFICES ASSUME OrphanInv, Environment
               PROVE  CacheInv' /\ HeldInv' /\ DeletedInv' /\ OwnedInv'
    OBVIOUS
  <1>0. cr \in Bind /\ last \in [cr : Nat, sa : Nat] /\ now \in Nat
    BY DEF OrphanInv, TypeOK
  <1>1. CASE Resync \/ Annotate \/ DropSA \/ CollectSA \/ Tick
    <2>1. UNCHANGED objects /\ UNCHANGED rec
      BY <1>1 DEF Resync, Annotate, DropSA, CollectSA, Tick, objects, caches, world
    <2> QED BY <2>1, NothingMoves
  <1>2. CASE Restart
    <2>1. rec' = Idle /\ crCache' = cr /\ UNCHANGED <<cr, bindings, last>>
      BY <1>2 DEF Restart, world
    <2>2. CacheInv' /\ OwnedInv'
      BY <2>1 DEF OrphanInv, CacheInv, OwnedInv
    <2> QED BY <2>1, <2>2, IdleHolds
  <1>3. CASE Upsert
    <2>1. PICK g \in SUBSET Group :
            LET base == IF cr.uid = 0
                        THEN [NoBind EXCEPT !.uid = last.cr + 1, !.created = now]
                        ELSE cr
            IN StoreOutside([base EXCEPT !.groups = g, !.ttl = BindTTL, !.renewed = now])
      BY <1>3 DEF Upsert
    <2>2. UNCHANGED <<crCache, bindings>>
          /\ last' = [last EXCEPT !.cr = IF cr.uid = 0 THEN @ + 1 ELSE @]
      BY <1>3 DEF Upsert, caches
    <2>3. CASE cr.uid = 0
      <3> DEFINE c == [[NoBind EXCEPT !.uid = last.cr + 1, !.created = now]
                          EXCEPT !.groups = g, !.ttl = BindTTL, !.renewed = now]
      <3>1. c.uid = last.cr + 1 /\ ~c.finalizer /\ ~c.deleting /\ StoreOutside(c)
        BY <2>1, <2>3 DEF NoBind
      <3>2. ~cr.finalizer
        BY <2>3 DEF OrphanInv, CacheInv
      <3>3. last'.cr = last.cr + 1 /\ last.cr \in Nat
        BY <1>0, <2>2, <2>3
      <3> HIDE DEF c
      <3> QED BY <2>2, <3>1, <3>2, <3>3, StoreOther
    <2>4. CASE cr.uid # 0
      <3> DEFINE c == [cr EXCEPT !.groups = g, !.ttl = BindTTL, !.renewed = now]
      <3>1. /\ c.uid = cr.uid /\ c.finalizer = cr.finalizer /\ c.deleting = cr.deleting
            /\ StoreOutside(c)
        BY <1>0, <2>1, <2>4 DEF Bind
      <3>2. cr.deleting => cr.finalizer
        BY DEF OrphanInv, CacheInv
      <3>3. UNCHANGED last
        BY <1>0, <2>2, <2>4
      <3> HIDE DEF c
      <3> QED BY <2>2, <3>1, <3>2, <3>3, StoreSame
    <2> QED BY <2>3, <2>4
  <1>4. CASE Apply
    <2>1. PICK g \in SUBSET Group :
            StoreOutside([NoBind EXCEPT !.uid = last.cr + 1, !.created = now,
                                        !.groups = g, !.ttl = BindTTL])
      BY <1>4 DEF Apply
    <2> DEFINE c == [NoBind EXCEPT !.uid = last.cr + 1, !.created = now,
                                   !.groups = g, !.ttl = BindTTL]
    <2>2. c.uid = last.cr + 1 /\ ~c.finalizer /\ ~c.deleting /\ StoreOutside(c)
      BY <2>1 DEF NoBind
    <2>3. ~cr.finalizer /\ UNCHANGED <<crCache, bindings>>
      BY <1>4 DEF Apply, OrphanInv, CacheInv, caches
    <2>4. last'.cr = last.cr + 1 /\ last.cr \in Nat
      BY <1>0, <1>4 DEF Apply
    <2> HIDE DEF c
    <2> QED BY <2>2, <2>3, <2>4, StoreOther
  <1>5. CASE DeleteCR
    <2>1. UNCHANGED <<crCache, bindings, last>>
      BY <1>5 DEF DeleteCR, caches, world
    <2>2. CASE cr.finalizer
      <3> DEFINE c == [cr EXCEPT !.deleting = TRUE]
      <3>1. c.uid = cr.uid /\ c.finalizer = cr.finalizer /\ c.deleting /\ StoreOutside(c)
        BY <1>0, <1>5, <2>2 DEF DeleteCR, Bind
      <3> HIDE DEF c
      <3> QED BY <2>1, <2>2, <3>1, StoreSame
    <2>3. CASE ~cr.finalizer
      <3>1. StoreOutside(NoBind)
        BY <1>5, <2>3 DEF DeleteCR
      <3>2. ~NoBind.finalizer /\ ~NoBind.deleting /\ NoBind.uid = 0
        BY DEF NoBind
      <3>3. last'.cr = last.cr /\ last.cr \in Nat
        BY <1>0, <2>1
      <3> QED BY <2>1, <2>3, <3>1, <3>2, <3>3, StoreOther
    <2> QED BY <2>2, <2>3
  <1>6. CASE EditTTL
    <2>1. PICK t \in EditTTLs : StoreOutside([cr EXCEPT !.ttl = t])
      BY <1>6 DEF EditTTL
    <2> DEFINE c == [cr EXCEPT !.ttl = t]
    <2>2. /\ c.uid = cr.uid /\ c.finalizer = cr.finalizer /\ c.deleting = cr.deleting
          /\ StoreOutside(c)
      BY <1>0, <2>1 DEF Bind
    <2>3. (cr.deleting => cr.finalizer) /\ UNCHANGED <<crCache, bindings, last>>
      BY <1>6 DEF EditTTL, OrphanInv, CacheInv, caches, world
    <2> HIDE DEF c
    <2> QED BY <2>2, <2>3, StoreSame
  <1> QED BY <1>1, <1>2, <1>3, <1>4, <1>5, <1>6 DEF Environment

LEMMA OrphanInvInit == Init => OrphanInv
  <1> SUFFICES ASSUME Init PROVE OrphanInv
    OBVIOUS
  <1>1. TypeOK
    BY TypeInit
  <1>2. CacheInv
    BY DEF Init, CacheInv, NoBind
  <1>3. HeldInv /\ DeletedInv /\ OwnedInv
    BY DEF Init, HeldInv, DeletedInv, OwnedInv, Serving, Deleting, Idle
  <1> QED BY <1>1, <1>2, <1>3 DEF OrphanInv

LEMMA OrphanInvNext == OrphanInv /\ [Next]_vars => OrphanInv'
  <1> SUFFICES ASSUME OrphanInv, [Next]_vars
               PROVE  CacheInv' /\ HeldInv' /\ DeletedInv' /\ OwnedInv'
    BY TypeNext DEF OrphanInv
  <1>0. CacheInv /\ OwnedInv
    BY DEF OrphanInv
  <1>1. CASE Begin \/ Account \/ Revoke
    BY <1>0, <1>1, BeginHolds, AccountHolds, RevokeHolds, ObjectsKept
  <1>2. CASE UNCHANGED vars
    BY <1>2, NothingMoves DEF vars, objects
  <1> QED BY <1>1, <1>2, SyncHolds, WritePhaseHolds, FinalizeHolds, InformersHold,
             EnvironmentHolds
          DEF Next, Operator

\* With current binding informers no binding outlives its CR: the finalizer is
\* removed only after deleteOwned has found and deleted every one of them, and
\* syncBindings creates none for a CR that could go meanwhile, however stale
\* the CR and ServiceAccount informers, and whatever calls fail.
THEOREM NoOrphans ==
  ASSUME "binding" \notin Laggy
  PROVE  Spec => []NoOrphanedBindings
  <1>1. OrphanInv => NoOrphanedBindings
    BY DEF OrphanInv, OwnedInv, SeesBindings, NoOrphanedBindings
  <1> QED BY <1>1, OrphanInvInit, OrphanInvNext, PTL DEF Spec

\* However stale the informers, no status patch and no binding made for one CR
\* lands on a successor of the same name: the finalizer pins the CR that a
\* reconcile past the finalizer check holds.
THEOREM OneIncarnation == Spec => []SameIncarnation
  <1>1. OrphanInv => SameIncarnation
    BY DEF OrphanInv, HeldInv, Serving, Deleting, SameIncarnation
  <1> QED BY <1>1, OrphanInvInit, OrphanInvNext, PTL DEF Spec

-----------------------------------------------------------------------------
(* The phase unbound.                                                      *)

LEMMA IdlePhase == ASSUME rec' = Idle PROVE PhaseInv'
  BY DEF PhaseInv, Serving, Unwritten, Granting, Idle

LEMMA UnboundKept ==
  ASSUME UnboundIsRevoked, UNCHANGED <<cr, bindings>>
  PROVE  UnboundIsRevoked'
  BY DEF UnboundIsRevoked, Granted

LEMMA BeginPhase ==
  ASSUME "cr" \notin Laggy, RevokedInv, Begin
  PROVE  PhaseInv' /\ UnboundIsRevoked'
  <1>1. UNCHANGED <<cr, bindings>> /\ Dequeue
    BY DEF Begin, ReconcileNothing, ReconcileDelete, ReconcileFinalizer,
           ReconcilePending, ReconcileInvalidTTL, ReconcileExpired, ReconcileBind,
           Dequeue
  <1>2. crCache = cr
    BY <1>1 DEF Dequeue, RevokedInv, OrphanInv, CacheInv
  <1>3. ASSUME NEW pc \in {"list", "finalize", "patch", "account"},
               NEW goal \in {"", "Accepted", "InvalidTTL", "Expired"},
               Proceed(pc, goal), pc = "patch" => goal # ""
        PROVE  PhaseInv'
    BY <1>1, <1>2, <1>3, ProceedHolds DEF PhaseInv, Serving, Unwritten, Granting
  <1>4. PhaseInv'
    BY <1>3, IdlePhase
    DEF Begin, ReconcileNothing, ReconcileDelete, ReconcileFinalizer,
        ReconcilePending, ReconcileInvalidTTL, ReconcileExpired, ReconcileBind
  <1> QED BY <1>1, <1>4, UnboundKept DEF RevokedInv

LEMMA AccountPhase ==
  ASSUME RevokedInv, Account
  PROVE  PhaseInv' /\ UnboundIsRevoked'
  <1>0. rec \in Reconcile
    BY DEF RevokedInv, OrphanInv, TypeOK
  <1>1. UNCHANGED <<cr, bindings>> /\ rec.pc = "account"
    BY DEF Account, AccountFound, AccountCreate, AccountFails
  <1>2. rec.orig = cr.status
    BY <1>1 DEF RevokedInv, PhaseInv, Serving, Deleting, Unwritten
  <1>3. ASSUME NEW uid, AccountReady(uid) PROVE PhaseInv'
    <2>1. CASE rec.orig.phase = "binded"
      <3>1. rec'.pc = "roles"
        BY <1>0, <1>3, <2>1 DEF AccountReady, Reconcile
      <3> QED BY <1>1, <1>2, <2>1, <3>1 DEF PhaseInv, Unwritten, Granting
    <2>2. CASE rec.orig.phase # "binded"
      <3>1. rec'.pc = "patch" /\ rec'.goal = "Syncing" /\ rec'.orig = rec.orig
        BY <1>0, <1>3, <2>2 DEF AccountReady, Reconcile
      <3> QED BY <1>1, <1>2, <3>1 DEF PhaseInv, Unwritten, Granting
    <2> QED BY <2>1, <2>2
  <1>4. CASE AccountFails
    <2>1. rec'.pc = "patch" /\ rec'.goal = "ServiceAccountFailed" /\ rec'.orig = rec.orig
      BY <1>0, <1>4 DEF AccountFails, Reconcile
    <2>2. PhaseInv'
      BY <1>1, <1>2, <2>1 DEF PhaseInv, Unwritten, Granting
    <2> QED BY <1>1, <2>2, UnboundKept DEF RevokedInv
  <1>5. CASE AccountFound \/ AccountCreate
    BY <1>1, <1>3, <1>5, UnboundKept DEF AccountFound, AccountCreate, RevokedInv
  <1> QED BY <1>4, <1>5 DEF Account

LEMMA SyncPhase ==
  ASSUME RevokedInv, Sync
  PROVE  PhaseInv' /\ UnboundIsRevoked'
  <1>0. rec \in Reconcile /\ PhaseInv /\ UnboundIsRevoked /\ UNCHANGED cr
    BY DEF RevokedInv, OrphanInv, TypeOK, Sync, ListRoles, CreateBinding, ListStale,
           DeleteBinding, SyncFails, SyncSettled, SyncDone
  <1>1. ASSUME rec.pc \in {"roles", "create", "prune"},
               \/ rec'.pc \in {"roles", "create", "prune"}
               \/ rec'.pc = "patch" /\ rec'.goal \in {"Bound", "BindFailed"}
        PROVE  PhaseInv' /\ UnboundIsRevoked'
    BY <1>0, <1>1 DEF PhaseInv, Unwritten, Granting, UnboundIsRevoked
  <1>2. CASE CreateBinding
    <2>1. rec.pc = "create" /\ rec'.pc = "create"
      BY <1>0, <1>2 DEF CreateBinding, Reconcile
    <2> QED BY <1>1, <2>1
  <1>3. CASE DeleteBinding
    <2>1. PICK r \in rec.todo :
            /\ bindings' = bindings \ {[owner |-> rec.bind.uid, role |-> r]}
            /\ rec' = [rec EXCEPT !.todo = @ \ {r}]
      BY <1>3 DEF DeleteBinding
    <2>2. rec'.pc = rec.pc /\ rec'.goal = rec.goal /\ rec'.orig = rec.orig
      BY <1>0, <2>1 DEF Reconcile
    <2>3. PhaseInv'
      BY <1>0, <2>2 DEF PhaseInv, Serving, Deleting, Unwritten, Granting
    <2>4. UnboundIsRevoked'
      BY <1>0, <2>1 DEF UnboundIsRevoked, Granted
    <2> QED BY <2>3, <2>4
  <1>4. CASE ListRoles
    <2>1. rec.pc \in {"roles", "prune"} /\ rec'.pc = "create"
      BY <1>0, <1>4 DEF ListRoles, HalfBegins, LoopDone, Reconcile
    <2> QED BY <1>1, <2>1
  <1>5. CASE ListStale
    <2>1. rec.pc = "create" /\ rec'.pc = "prune"
      BY <1>0, <1>5 DEF ListStale, Reconcile
    <2> QED BY <1>1, <2>1
  <1>6. CASE SyncFails
    <2>1. rec.pc \in {"roles", "create", "prune"} /\ rec'.pc = "patch"
            /\ rec'.goal = "BindFailed"
      BY <1>0, <1>6 DEF SyncFails, Reconcile
    <2> QED BY <1>1, <2>1
  <1>7. CASE SyncSettled
    BY <1>0, <1>7, IdlePhase, UnboundKept DEF SyncSettled
  <1>8. CASE SyncDone
    <2>1. rec.pc = "prune" /\ rec'.pc = "patch" /\ rec'.goal = "Bound"
      BY <1>0, <1>8 DEF SyncDone, LoopDone, Reconcile
    <2> QED BY <1>1, <2>1
  <1> QED BY <1>2, <1>3, <1>4, <1>5, <1>6, <1>7, <1>8 DEF Sync

LEMMA RevokePhase ==
  ASSUME RevokedInv, Revoke
  PROVE  PhaseInv' /\ UnboundIsRevoked'
  <1>0. rec \in Reconcile /\ PhaseInv /\ HeldInv /\ UNCHANGED <<cr, bindings>>
    BY DEF RevokedInv, OrphanInv, TypeOK, Revoke, ListOwned, DeleteFails, Revoked
  <1>1. CASE ListOwned
    <2>1. /\ rec.pc \in {"list", "delete"} /\ rec'.pc = "delete"
          /\ rec'.goal = rec.goal /\ rec'.orig = rec.orig
      BY <1>0, <1>1 DEF ListOwned, HalfBegins, LoopDone, Reconcile
    <2>2. PhaseInv'
      BY <1>0, <2>1 DEF PhaseInv, Serving, Deleting, Unwritten, Granting
    <2> QED BY <1>0, <2>2, UnboundKept DEF RevokedInv
  <1>2. CASE DeleteFails
    BY <1>0, <1>2, IdlePhase, UnboundKept DEF DeleteFails, Abort, RevokedInv
  <1>3. CASE Revoked
    <2>1. /\ rec.pc = "delete" /\ rec'.goal = rec.goal /\ rec'.orig = rec.orig
          /\ rec'.pc = IF rec.goal = "Expired" THEN "patch" ELSE "unfinalize"
      BY <1>0, <1>3 DEF Revoked, LoopDone, Reconcile
    <2>2. PhaseInv'
      BY <1>0, <2>1 DEF PhaseInv, HeldInv, Serving, Deleting, Unwritten, Granting
    <2> QED BY <1>0, <2>2, UnboundKept DEF RevokedInv
  <1> QED BY <1>1, <1>2, <1>3 DEF Revoke

\* A patch writes the phase it was meant to write, or leaves the server's.
LEMMA PatchPhase ==
  ASSUME TypeOK
  PROVE  Patched.status.phase
           = IF PhaseOf(rec.goal) = rec.orig.phase THEN cr.status.phase ELSE PhaseOf(rec.goal)
  <1>1. Mutated.phase = PhaseOf(rec.goal)
    BY DEF TypeOK, Mutated, Reconcile, Bind, Status
  <1>2. Patched.status.phase = Keep(rec.orig.phase, Mutated.phase, cr.status.phase)
    BY PatchKeeps DEF Merge
  <1> QED BY <1>1, <1>2 DEF Keep

LEMMA WritePhasePhase ==
  ASSUME SeesBindings, RevokedInv, WritePhase
  PROVE  PhaseInv' /\ UnboundIsRevoked'
  <1>0. /\ TypeOK /\ rec \in Reconcile /\ UNCHANGED bindings /\ rec.pc = "patch"
        /\ rec.bind.uid = cr.uid /\ PhaseInv
    BY DEF RevokedInv, OrphanInv, TypeOK, HeldInv, Serving, Deleting, WritePhase, Patch,
           PatchPending, PatchBinding, PatchBinded, PatchEnded, PatchFails
  <1>1. rec.goal \notin {"Bound", "BindFailed"} =>
          Patched.status.phase = PhaseOf(rec.goal)
    <2>1. rec.goal \notin {"Bound", "BindFailed"} => rec.orig = cr.status
      BY <1>0 DEF PhaseInv, Serving, Deleting, Unwritten
    <2> QED BY <1>0, <2>1, PatchPhase
  <1>2. rec.goal \in {"Bound", "BindFailed"} => Patched.status.phase # "unbound"
    <2>1. rec.goal \in {"Bound", "BindFailed"} => cr.status.phase \in {"binding", "binded"}
      BY <1>0 DEF PhaseInv, Granting
    <2> QED BY <1>0, <2>1, PatchPhase DEF PhaseOf
  <1>3. ASSUME Patch PROVE UnboundIsRevoked'
    <2>1. cr' = Patched /\ cr'.uid = cr.uid
      BY <1>0, <1>3, PatchKeeps DEF Patch
    <2>2. CASE rec.goal = "Expired"
      <3>1. \A k \in {1, 2} : OwnedIn(bindings, cr.uid, k) = {}
        BY <1>0, <2>2 DEF RevokedInv, OrphanInv, DeletedInv
      <3>2. Granted(cr.uid)' = {}
        BY <1>0, <2>1, <3>1 DEF Granted, OwnedIn, RolesOf, Role
      <3> QED BY <2>1, <3>2 DEF UnboundIsRevoked
    <2>3. CASE rec.goal # "Expired"
      <3>1. Patched.status.phase # "unbound"
        BY <1>1, <1>2, <2>3 DEF PhaseOf
      <3> QED BY <2>1, <3>1 DEF UnboundIsRevoked
    <2> QED BY <2>2, <2>3
  <1>4. CASE PatchPending \/ PatchBinded \/ PatchEnded
    BY <1>3, <1>4, IdlePhase DEF PatchPending, PatchBinded, PatchEnded
  <1>5. CASE PatchBinding
    <2>1. Patch /\ rec'.pc = "roles" /\ cr' = Patched
      BY <1>0, <1>5 DEF PatchBinding, Patch, Reconcile
    <2>2. cr'.status.phase = "binding"
      BY <1>1, <1>5, <2>1 DEF PatchBinding, PhaseOf
    <2> QED BY <1>3, <2>1, <2>2 DEF PhaseInv, Unwritten, Granting
  <1>6. CASE PatchFails
    BY <1>0, <1>6, IdlePhase, UnboundKept DEF PatchFails, Abort, RevokedInv
  <1> QED BY <1>4, <1>5, <1>6 DEF WritePhase

LEMMA FinalizePhase ==
  ASSUME RevokedInv, Finalize
  PROVE  PhaseInv' /\ UnboundIsRevoked'
  <1>0. cr \in Bind /\ rec' = Idle /\ UNCHANGED bindings
    BY DEF RevokedInv, OrphanInv, TypeOK, Finalize, AddFinalizer, RemoveFinalizer,
           UpdateFails, Abort
  <1>1. \/ cr'.status = cr.status /\ cr'.uid = cr.uid
        \/ cr'.status.phase = ""
    <2>1. CASE AddFinalizer
      BY <1>0, <2>1 DEF AddFinalizer, Store, Bind
    <2>2. CASE RemoveFinalizer
      BY <2>2 DEF RemoveFinalizer, Store, NoBind, NoStatus
    <2> QED BY <2>1, <2>2 DEF Finalize, UpdateFails
  <1>2. UnboundIsRevoked'
    BY <1>0, <1>1 DEF RevokedInv, UnboundIsRevoked, Granted
  <1> QED BY <1>0, <1>2, IdlePhase

\* Nobody but the operator writes the status, and a CR in use is not replaced.
LEMMA OutsidePhase ==
  ASSUME RevokedInv, UNCHANGED bindings,
         rec' \in {rec, [rec EXCEPT !.fresh = FALSE], Idle},
         \/ cr'.status = cr.status /\ cr'.uid = cr.uid
         \/ cr'.status.phase = "" /\ ~cr.finalizer
  PROVE  PhaseInv' /\ UnboundIsRevoked'
  <1>0. rec \in Reconcile /\ PhaseInv /\ HeldInv
    BY DEF RevokedInv, OrphanInv, TypeOK
  <1>1. UnboundIsRevoked'
    BY DEF RevokedInv, UnboundIsRevoked, Granted
  <1>2. CASE rec' = Idle
    BY <1>1, <1>2, IdlePhase
  <1>3. CASE rec' # Idle
    <2>1. rec'.pc = rec.pc /\ rec'.goal = rec.goal /\ rec'.orig = rec.orig
      BY <1>0, <1>3 DEF Reconcile
    <2>2. Serving \/ Granting => cr.finalizer
      BY <1>0 DEF HeldInv, Serving, Deleting, Granting
    <2>3. PhaseInv'
      BY <1>0, <2>1, <2>2 DEF PhaseInv, Serving, Deleting, Unwritten, Granting
    <2> QED BY <1>1, <2>3
  <1> QED BY <1>2, <1>3

LEMMA EnvironmentPhase ==
  ASSUME RevokedInv, Environment
  PROVE  PhaseInv' /\ UnboundIsRevoked'
  <1>0. cr \in Bind /\ UNCHANGED bindings /\ (cr.uid = 0 => ~cr.finalizer)
    BY DEF RevokedInv, OrphanInv, TypeOK, CacheInv, Environment, Resync, Restart, Upsert,
           Apply, DeleteCR, EditTTL, Annotate, DropSA, CollectSA, Tick
  <1>1. rec' \in {rec, [rec EXCEPT !.fresh = FALSE], Idle}
    BY DEF Environment, Resync, Restart, Upsert, Apply, DeleteCR, EditTTL, Annotate,
           DropSA, CollectSA, Tick, StoreOutside
  <1>2. \/ cr'.status = cr.status /\ cr'.uid = cr.uid
        \/ cr'.status.phase = "" /\ ~cr.finalizer
    <2>1. CASE Upsert
      <3>1. PICK g : cr' = [(IF cr.uid = 0
                             THEN [NoBind EXCEPT !.uid = last.cr + 1, !.created = now]
                             ELSE cr)
                            EXCEPT !.groups = g, !.ttl = BindTTL, !.renewed = now]
        BY <2>1 DEF Upsert, StoreOutside, Store
      <3>2. CASE cr.uid = 0
        BY <1>0, <3>1, <3>2 DEF NoBind, NoStatus
      <3>3. CASE cr.uid # 0
        BY <1>0, <3>1, <3>3 DEF Bind
      <3> QED BY <3>2, <3>3
    <2>2. CASE Apply
      <3>1. PICK g : cr' = [NoBind EXCEPT !.uid = last.cr + 1, !.created = now,
                                          !.groups = g, !.ttl = BindTTL]
        BY <2>2 DEF Apply, StoreOutside, Store
      <3>2. cr'.status.phase = ""
        BY <3>1 DEF NoBind, NoStatus
      <3> QED BY <1>0, <2>2, <3>2 DEF Apply
    <2>3. CASE DeleteCR
      BY <1>0, <2>3 DEF DeleteCR, StoreOutside, Store, Bind, NoBind, NoStatus
    <2>4. CASE EditTTL
      BY <1>0, <2>4 DEF EditTTL, StoreOutside, Store, Bind
    <2>5. CASE UNCHANGED cr
      BY <2>5
    <2> QED BY <2>1, <2>2, <2>3, <2>4, <2>5
            DEF Environment, Resync, Restart, Annotate, DropSA, CollectSA, Tick
  <1> QED BY <1>0, <1>1, <1>2, OutsidePhase

\* With current CR and binding informers a CR that says unbound has no access
\* left, although an expired CR that is already unbound is never revoked again:
\* unbound is written only after deleteOwned is done, and a renewal leaves
\* unbound before it creates its first binding.
THEOREM UnboundHasNoAccess ==
  ASSUME "cr" \notin Laggy, "binding" \notin Laggy
  PROVE  Spec => []UnboundIsRevoked
  <1>1. Init => RevokedInv
    <2> SUFFICES ASSUME Init PROVE PhaseInv /\ UnboundIsRevoked
      BY OrphanInvInit DEF RevokedInv
    <2> QED BY DEF Init, PhaseInv, UnboundIsRevoked, Granting, Serving, Idle, NoBind, NoStatus
  <1>2. RevokedInv /\ [Next]_vars => RevokedInv'
    <2> SUFFICES ASSUME RevokedInv, [Next]_vars PROVE PhaseInv' /\ UnboundIsRevoked'
      BY OrphanInvNext DEF RevokedInv
    <2>1. CASE Informers \/ UNCHANGED vars
      <3>1. UNCHANGED <<cr, bindings, rec>>
        BY <2>1 DEF Informers, DeliverCR, DeliverSA, DeliverBindings, vars
      <3> QED BY <3>1, OutsidePhase
    <2> QED BY <2>1, BeginPhase, AccountPhase, SyncPhase, RevokePhase, WritePhasePhase,
               FinalizePhase, EnvironmentPhase
            DEF Next, Operator, SeesBindings
  <1>3. RevokedInv => UnboundIsRevoked
    BY DEF RevokedInv
  <1> QED BY <1>1, <1>2, <1>3, PTL DEF Spec

=============================================================================
