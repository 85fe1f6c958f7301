------------------------ MODULE BindOperatorProofs ------------------------
(***************************************************************************)
(* Proofs about BindOperator, for any roles, groups, TTLs and budgets.     *)
(***************************************************************************)
EXTENDS BindOperator, TLAPS

-----------------------------------------------------------------------------
(* What the operators of the model return.                                 *)

\* The status of a fresh CR, an absent CR and an idle worker are well typed.
LEMMA NothingTyped == NoStatus \in Status /\ NoBind \in Bind /\ Idle \in Reconcile
  <1>1. NoStatus \in Status
    BY DEF NoStatus, Status, Condition, Phase, Reason, Never
  <1>2. NoBind \in Bind
    BY <1>1 DEF NoBind, Bind, NoStamp, NeverTTL
  <1>3. Idle \in Reconcile
    BY <1>1, <1>2 DEF Idle, Reconcile, PC, Reason
  <1> QED BY <1>1, <1>2, <1>3

\* Anchor plus TTL is a time.
LEMMA ExpiryTyped == ASSUME NEW c \in Bind PROVE Expiry(c) \in Int
  BY DEF Bind, Expiry, NoStamp, NeverTTL

\* Queueing the CR leaves a time in the queue.
LEMMA EarliestTyped ==
  ASSUME due \in Nat \cup {Never}, NEW t \in Nat
  PROVE  Earliest(t) \in Nat \cup {Never}
  BY DEF Earliest, Never

LEMMA RequeueTyped ==
  ASSUME due \in Nat \cup {Never}, now \in Nat, NEW t \in Int
  PROVE  RequeueAt(t) \in Nat \cup {Never}
  BY DEF RequeueAt, Earliest, Never

LEMMA SpendTyped ==
  ASSUME left \in [EnvKind -> Nat], NEW kind \in EnvKind, Spend(kind)
  PROVE  left' \in [EnvKind -> Nat]
  BY DEF Spend

\* A reconcile starts with the informer's copy in hand.
LEMMA ProceedTyped ==
  ASSUME TypeOK, NEW pc \in PC, NEW goal \in Reason, Proceed(pc, goal)
  PROVE  rec' \in Reconcile
  <1>1. crCache \in Bind /\ crCache.status \in Status /\ crFresh \in BOOLEAN
    BY DEF TypeOK, Bind
  <1>2. Expiry(crCache) \in Int
    BY <1>1, ExpiryTyped
  <1> QED BY <1>1, <1>2, NothingTyped DEF Reconcile, Proceed

\* What a status patch leaves on the server is a status.
LEMMA PatchedTyped ==
  ASSUME TypeOK, rec.goal # ""
  PROVE  Patched \in Bind
  <1>1. Mutated \in Status
    BY DEF TypeOK, Status, Mutated, SetCondition, PhaseOf, Condition, Reconcile,
           Bind, Phase, Reason
  <1>2. rec.orig \in Status /\ cr.status \in Status /\ cr \in Bind
    BY DEF TypeOK, Reconcile, Bind
  <1>3. Merge(rec.orig, Mutated, cr.status) \in Status
    BY <1>1, <1>2 DEF Status, Merge, Keep
  <1> QED BY <1>2, <1>3 DEF Patched, Bind

\* The loops run over roles.
LEMMA LoopsTyped == \A k : Matching(k) \in SUBSET Role /\ Listed(k) \in SUBSET Role
  BY DEF Matching, Listed, OwnedIn, RolesOf, Role

-----------------------------------------------------------------------------
(* Type correctness, one lemma per group of actions.                       *)

LEMMA DequeueTyped ==
  ASSUME TypeOK, Dequeue, rec' \in Reconcile
  PROVE  TypeOK'
  BY DEF TypeOK, Dequeue, caches, world, Never

LEMMA BeginTyped == TypeOK /\ Begin => TypeOK'
  <1> SUFFICES ASSUME TypeOK, Begin PROVE TypeOK'
    OBVIOUS
  <1>1. Dequeue /\ rec' \in Reconcile
    <2>1. CASE ReconcileNothing
      BY <2>1, NothingTyped DEF ReconcileNothing
    <2>2. CASE ReconcileDelete
      BY <2>2, ProceedTyped DEF ReconcileDelete, PC, Reason
    <2>3. CASE ReconcileFinalizer
      BY <2>3, ProceedTyped DEF ReconcileFinalizer, PC, Reason
    <2>4. CASE ReconcilePending
      BY <2>4, ProceedTyped DEF ReconcilePending, PC, Reason
    <2>5. CASE ReconcileInvalidTTL
      BY <2>5, ProceedTyped DEF ReconcileInvalidTTL, PC, Reason
    <2>6. CASE ReconcileExpired
      BY <2>6, ProceedTyped DEF ReconcileExpired, PC, Reason
    <2>7. CASE ReconcileBind
      BY <2>7, ProceedTyped DEF ReconcileBind, PC, Reason
    <2> QED BY <2>1, <2>2, <2>3, <2>4, <2>5, <2>6, <2>7 DEF Begin
  <1> QED BY <1>1, DequeueTyped

LEMMA AccountTyped == TypeOK /\ Account => TypeOK'
  <1> SUFFICES ASSUME TypeOK, Account PROVE TypeOK'
    OBVIOUS
  <1>0. rec \in Reconcile /\ last.sa + 1 \in Nat /\ AccountView.uid \in Nat
    BY DEF TypeOK, AccountView
  <1>1. ASSUME NEW uid \in Nat, AccountReady(uid) PROVE rec' \in Reconcile
    BY <1>0, <1>1 DEF AccountReady, Reconcile, PC, Reason, Bind, Status
  <1>2. CASE AccountFound
    <2>1. rec' \in Reconcile
      BY <1>0, <1>1, <1>2 DEF AccountFound
    <2> QED BY <1>2, <2>1 DEF AccountFound, TypeOK, caches, world
  <1>3. CASE AccountCreate
    <2>1. rec' \in Reconcile
      BY <1>0, <1>1, <1>3 DEF AccountCreate
    <2>2. rec.bind.uid \in Nat
      BY <1>0 DEF Reconcile, Bind
    <2> QED BY <1>3, <2>1, <2>2 DEF AccountCreate, TypeOK, caches
  <1>4. CASE AccountFails
    <2>1. rec' \in Reconcile
      BY <1>0, <1>4 DEF AccountFails, Reconcile, PC, Reason
    <2>2. left' \in [EnvKind -> Nat]
      BY <1>4, SpendTyped DEF AccountFails, Fault, TypeOK, EnvKind
    <2> QED BY <1>4, <2>1, <2>2 DEF AccountFails, TypeOK, caches, world
  <1> QED BY <1>2, <1>3, <1>4 DEF Account

LEMMA SyncTyped == TypeOK /\ Sync => TypeOK'
  <1> SUFFICES ASSUME TypeOK, Sync PROVE TypeOK'
    OBVIOUS
  <1>0. rec \in Reconcile /\ bindings \subseteq Binding
    BY DEF TypeOK
  <1>1. CASE ListRoles
    <2>0. PICK k \in {1, 2} :
            rec' = [rec EXCEPT !.pc = "create", !.k = k, !.want = Matching(k),
                               !.todo = Matching(k)]
      BY <1>1 DEF ListRoles
    <2>1. rec' \in Reconcile
      BY <1>0, <2>0, LoopsTyped DEF Reconcile, PC
    <2> QED BY <1>1, <2>1 DEF ListRoles, TypeOK, caches, world
  <1>2. CASE CreateBinding
    <2>1. rec' \in Reconcile
      BY <1>0, <1>2 DEF CreateBinding, Reconcile
    <2>2. bindings' \subseteq Binding
      BY <1>0, <1>2 DEF CreateBinding, Binding, Reconcile, Bind
    <2> QED BY <1>2, <2>1, <2>2 DEF CreateBinding, TypeOK, caches, world
  <1>3. CASE ListStale
    <2>1. rec' \in Reconcile
      BY <1>0, <1>3, LoopsTyped DEF ListStale, Reconcile, PC
    <2> QED BY <1>3, <2>1 DEF ListStale, TypeOK, caches, world
  <1>4. CASE DeleteBinding
    <2>1. rec' \in Reconcile
      BY <1>0, <1>4 DEF DeleteBinding, Reconcile
    <2>2. bindings' \subseteq Binding
      BY <1>0, <1>4 DEF DeleteBinding
    <2> QED BY <1>4, <2>1, <2>2 DEF DeleteBinding, TypeOK, caches, world
  <1>5. CASE SyncFails
    <2>1. rec' \in Reconcile
      BY <1>0, <1>5 DEF SyncFails, Reconcile, PC, Reason
    <2>2. left' \in [EnvKind -> Nat]
      BY <1>5, SpendTyped DEF SyncFails, Fault, TypeOK, EnvKind
    <2> QED BY <1>5, <2>1, <2>2 DEF SyncFails, TypeOK, caches, world
  <1>6. CASE SyncSettled
    <2>1. rec' \in Reconcile
      BY <1>6, NothingTyped DEF SyncSettled
    <2>2. due' \in Nat \cup {Never}
      BY <1>0, <1>6, RequeueTyped DEF SyncSettled, TypeOK, Reconcile
    <2> QED BY <1>6, <2>1, <2>2 DEF SyncSettled, TypeOK, caches, world
  <1>7. CASE SyncDone
    <2>1. rec' \in Reconcile
      BY <1>0, <1>7 DEF SyncDone, Reconcile, PC, Reason, Bind, Status
    <2> QED BY <1>7, <2>1 DEF SyncDone, TypeOK, caches, world
  <1> QED BY <1>1, <1>2, <1>3, <1>4, <1>5, <1>6, <1>7 DEF Sync

LEMMA RevokeTyped == TypeOK /\ Revoke => TypeOK'
  <1> SUFFICES ASSUME TypeOK, Revoke PROVE TypeOK'
    OBVIOUS
  <1>0. rec \in Reconcile
    BY DEF TypeOK
  <1>1. CASE ListOwned
    <2>0. PICK k \in {1, 2} :
            rec' = [rec EXCEPT !.pc = "delete", !.k = k, !.todo = Listed(k)]
      BY <1>1 DEF ListOwned
    <2>1. rec' \in Reconcile
      BY <1>0, <2>0, LoopsTyped DEF Reconcile, PC
    <2> QED BY <1>1, <2>1 DEF ListOwned, TypeOK, caches, world
  <1>2. CASE DeleteFails
    <2>1. left' \in [EnvKind -> Nat]
      BY <1>2, SpendTyped DEF DeleteFails, Fault, TypeOK, EnvKind
    <2> QED BY <1>2, <2>1, NothingTyped, EarliestTyped
            DEF DeleteFails, Abort, TypeOK, caches, world
  <1>3. CASE Revoked
    <2>1. rec' \in Reconcile
      BY <1>0, <1>3 DEF Revoked, Reconcile, PC
    <2> QED BY <1>3, <2>1 DEF Revoked, TypeOK, caches, world
  <1> QED BY <1>1, <1>2, <1>3 DEF Revoke

LEMMA WritePhaseTyped == TypeOK /\ WritePhase => TypeOK'
  <1> SUFFICES ASSUME TypeOK, WritePhase PROVE TypeOK'
    OBVIOUS
  <1>0. rec \in Reconcile /\ due \in Nat \cup {Never} /\ now \in Nat /\ cr \in Bind
    BY DEF TypeOK
  <1>1. ASSUME Patch, rec.goal # "", rec' \in Reconcile, due' \in Nat \cup {Never}
        PROVE  TypeOK'
    BY <1>1, PatchedTyped DEF Patch, TypeOK, caches, world
  <1>2. CASE PatchPending
    BY <1>0, <1>1, <1>2, NothingTyped, EarliestTyped DEF PatchPending
  <1>3. CASE PatchBinding
    <2>1. Patched \in Bind
      BY <1>3, PatchedTyped DEF PatchBinding
    <2>2. rec' \in Reconcile
      BY <1>0, <1>3, <2>1 DEF PatchBinding, Reconcile, PC
    <2> QED BY <1>0, <1>1, <1>3, <2>2 DEF PatchBinding
  <1>4. CASE PatchBinded
    <2>1. due' \in Nat \cup {Never}
      BY <1>0, <1>4, RequeueTyped DEF PatchBinded, Reconcile
    <2> QED BY <1>1, <1>4, <2>1, NothingTyped DEF PatchBinded
  <1>5. CASE PatchEnded
    BY <1>0, <1>1, <1>5, NothingTyped DEF PatchEnded
  <1>6. CASE PatchFails
    <2>1. left' \in [EnvKind -> Nat]
      BY <1>6, SpendTyped DEF PatchFails, Fault, TypeOK, EnvKind
    <2> QED BY <1>6, <2>1, NothingTyped, EarliestTyped
            DEF PatchFails, Abort, TypeOK, caches, world
  <1> QED BY <1>2, <1>3, <1>4, <1>5, <1>6 DEF WritePhase

LEMMA FinalizeTyped == TypeOK /\ Finalize => TypeOK'
  <1> SUFFICES ASSUME TypeOK, Finalize PROVE TypeOK'
    OBVIOUS
  <1>1. CASE AddFinalizer
    <2>1. cr' \in Bind
      BY <1>1 DEF AddFinalizer, Store, TypeOK, Bind
    <2> QED BY <1>1, <2>1, NothingTyped DEF AddFinalizer, Store, TypeOK, caches, world
  <1>2. CASE RemoveFinalizer
    BY <1>2, NothingTyped DEF RemoveFinalizer, Store, TypeOK, caches, world
  <1>3. CASE UpdateFails
    <2>1. left' \in [EnvKind -> Nat]
      BY <1>3, SpendTyped DEF UpdateFails, Fault, TypeOK, EnvKind
    <2> QED BY <1>3, <2>1, NothingTyped, EarliestTyped
            DEF UpdateFails, Abort, TypeOK, caches, world
  <1> QED BY <1>1, <1>2, <1>3 DEF Finalize

LEMMA InformersTyped == TypeOK /\ Informers => TypeOK'
  <1> SUFFICES ASSUME TypeOK, Informers PROVE TypeOK'
    OBVIOUS
  <1>1. CASE DeliverCR
    BY <1>1, EarliestTyped DEF DeliverCR, TypeOK, world
  <1>2. CASE DeliverSA
    BY <1>2 DEF DeliverSA, TypeOK, world
  <1>3. CASE DeliverBindings
    BY <1>3 DEF DeliverBindings, HalfOf, TypeOK, world
  <1> QED BY <1>1, <1>2, <1>3 DEF Informers

LEMMA EnvironmentTyped == TypeOK /\ Environment => TypeOK'
  <1> SUFFICES ASSUME TypeOK, Environment PROVE TypeOK'
    OBVIOUS
  <1>0. cr \in Bind /\ now \in Nat /\ last.cr + 1 \in Nat /\ rec \in Reconcile
    BY DEF TypeOK
  <1>1. left' \in [EnvKind -> Nat]
    BY SpendTyped DEF Environment, Resync, Restart, Upsert, Apply, DeleteCR, EditTTL,
                      Annotate, DropSA, CollectSA, Tick, TypeOK, EnvKind
  <1>2. ASSUME NEW c \in Bind, StoreOutside(c)
        PROVE  cr' \in Bind /\ crFresh' \in BOOLEAN /\ rec' \in Reconcile
    BY <1>0, <1>2 DEF StoreOutside, Store, Reconcile
  <1>3. CASE Resync
    BY <1>1, <1>3, EarliestTyped DEF Resync, TypeOK, caches, world
  <1>4. CASE Restart
    BY <1>1, <1>4, NothingTyped DEF Restart, TypeOK, world
  <1>5. CASE Upsert
    <2>1. PICK g \in SUBSET Group :
            LET base == IF cr.uid = 0
                        THEN [NoBind EXCEPT !.uid = last.cr + 1, !.created = now]
                        ELSE cr
            IN StoreOutside([base EXCEPT !.groups = g, !.ttl = BindTTL, !.renewed = now])
      BY <1>5 DEF Upsert
    <2> DEFINE base == IF cr.uid = 0
                       THEN [NoBind EXCEPT !.uid = last.cr + 1, !.created = now]
                       ELSE cr
    <2>2. base \in Bind
      BY <1>0, NothingTyped DEF Bind
    <2> HIDE DEF base
    <2>3. [base EXCEPT !.groups = g, !.ttl = BindTTL, !.renewed = now] \in Bind
      BY <1>0, <2>2, TTLAssumption DEF Bind
    <2>4. cr' \in Bind /\ crFresh' \in BOOLEAN /\ rec' \in Reconcile
      BY <1>2, <2>1, <2>3 DEF base
    <2>5. last' \in [cr : Nat, sa : Nat]
      BY <1>5 DEF Upsert, TypeOK
    <2> QED BY <1>1, <1>5, <2>4, <2>5 DEF Upsert, TypeOK, caches
  <1>6. CASE Apply
    <2>1. PICK g \in SUBSET Group :
            StoreOutside([NoBind EXCEPT !.uid = last.cr + 1, !.created = now,
                                        !.groups = g, !.ttl = BindTTL])
      BY <1>6 DEF Apply
    <2>2. [NoBind EXCEPT !.uid = last.cr + 1, !.created = now,
                         !.groups = g, !.ttl = BindTTL] \in Bind
      BY <1>0, NothingTyped, TTLAssumption DEF Bind
    <2>3. cr' \in Bind /\ crFresh' \in BOOLEAN /\ rec' \in Reconcile
      BY <1>2, <2>1, <2>2
    <2> QED BY <1>1, <1>6, <2>3 DEF Apply, TypeOK, caches
  <1>7. CASE DeleteCR
    <2>1. (IF cr.finalizer THEN [cr EXCEPT !.deleting = TRUE] ELSE NoBind) \in Bind
      BY <1>0, NothingTyped DEF Bind
    <2>2. cr' \in Bind /\ crFresh' \in BOOLEAN /\ rec' \in Reconcile
      BY <1>2, <1>7, <2>1 DEF DeleteCR
    <2> QED BY <1>1, <1>7, <2>2 DEF DeleteCR, TypeOK, caches, world
  <1>8. CASE EditTTL
    <2>1. PICK t \in EditTTLs : StoreOutside([cr EXCEPT !.ttl = t])
      BY <1>8 DEF EditTTL
    <2>2. [cr EXCEPT !.ttl = t] \in Bind
      BY <1>0, TTLAssumption DEF Bind
    <2>3. cr' \in Bind /\ crFresh' \in BOOLEAN /\ rec' \in Reconcile
      BY <1>2, <2>1, <2>2
    <2> QED BY <1>1, <1>8, <2>3 DEF EditTTL, TypeOK, caches, world
  <1>9. CASE Annotate
    BY <1>1, <1>9 DEF Annotate, TypeOK, caches
  <1>10. CASE DropSA
    BY <1>1, <1>10 DEF DropSA, NoSA, TypeOK, caches, world
  <1>11. CASE CollectSA
    BY <1>1, <1>11 DEF CollectSA, NoSA, TypeOK, caches, world
  <1>12. CASE Tick
    BY <1>1, <1>12 DEF Tick, TypeOK, caches
  <1> QED BY <1>3, <1>4, <1>5, <1>6, <1>7, <1>8, <1>9, <1>10, <1>11, <1>12
          DEF Environment

LEMMA TypeInit == Init => TypeOK
  BY NothingTyped, BudgetAssumption DEF Init, TypeOK, NoSA, Never

LEMMA TypeNext == TypeOK /\ [Next]_vars => TypeOK'
  <1>1. TypeOK /\ Next => TypeOK'
    BY BeginTyped, AccountTyped, SyncTyped, RevokeTyped, WritePhaseTyped,
       FinalizeTyped, InformersTyped, EnvironmentTyped
    DEF Next, Operator
  <1>2. TypeOK /\ UNCHANGED vars => TypeOK'
    BY DEF TypeOK, vars
  <1> QED BY <1>1, <1>2

\* Every variable keeps its type: in particular every status the operator
\* patches together is a legal status, whatever the baseline was.
THEOREM TypeCorrect == Spec => []TypeOK
  BY TypeInit, TypeNext, PTL DEF Spec

=============================================================================
