---------------------------- MODULE BindHandshake ----------------------------
(***************************************************************************)
(* The broker and the operator at work on one CR: every request of the     *)
(* broker writes the CR (Binder.Upsert) and polls it until the operator    *)
(* reports it bound (Binder.WaitBinded), before it has a token minted for  *)
(* the ServiceAccount that the operator keeps.                             *)
(*                                                                         *)
(* The operator is BindOperator as it stands; only its one-step view of    *)
(* the broker, Upsert, is replaced by the calls a request makes.           *)
(***************************************************************************)
EXTENDS BindOperator

CONSTANT Handler  \* request goroutines, of all replicas

VARIABLE req      \* the request each handler is serving

hvars == <<vars, req>>

NoRequest == [pc |-> "idle", got |-> NoBind, fresh |-> FALSE, first |-> FALSE]

Request ==
  [pc    : {"idle", "put", "wait"},
   got   : Bind,      \* the CR as it read it; uid 0 when it found none
   fresh : BOOLEAN,   \* the version it read is still the server's
   first : BOOLEAN]   \* it created the CR, and none has written it since

RequestsOK == TypeOK /\ req \in [Handler -> Request]

HandshakeInit == Init /\ req = [h \in Handler |-> NoRequest]

At(h, pc) == req[h].pc = pc

\* What the operator and the environment do leaves the requests where they are,
\* and a write of the CR outdates the versions they hold.
Beside ==
  req' = IF cr' = cr THEN req
         ELSE [h \in Handler |-> [req[h] EXCEPT !.fresh = FALSE,
                                                !.first = @ /\ cr'.uid = cr.uid]]

Ends(h) == req' = [req EXCEPT ![h] = NoRequest] /\ UNCHANGED vars

-----------------------------------------------------------------------------
(* issueTokens, up to the token.                                           *)

\* A login, or a refresh with the groups of an earlier one, begins: Upsert is a
\* CreateOrUpdate, which reads the CR from the API server ...
UpsertGet(h) ==
  /\ At(h, "idle")
  /\ Cardinality({g \in Handler : At(g, "put")}) < left["upsert"]
  /\ req' = [req EXCEPT ![h] = [NoRequest EXCEPT !.pc = "put", !.got = cr,
                                                  !.fresh = TRUE]]
  /\ UNCHANGED vars

\* What it writes: memberships, ttl and a renewal stamp, on a new CR or on the
\* copy it read. The status and the deletion mark are not the writer's: an
\* update leaves the server's.
Upserted(got, groups) ==
  LET base == IF got.uid = 0
              THEN [NoBind EXCEPT !.uid = last.cr + 1, !.created = now]
              ELSE [got EXCEPT !.deleting = cr.deleting, !.status = cr.status]
  IN [base EXCEPT !.groups = groups, !.ttl = BindTTL, !.renewed = now]

\* The write is made.
PutStores(h) ==
  /\ Spend("upsert")
  /\ \E g \in SUBSET Group : StoreOutside(Upserted(req[h].got, g))
  /\ last' = [last EXCEPT !.cr = IF req[h].got.uid = 0 THEN @ + 1 ELSE @]
  /\ req' = [g \in Handler |->
               IF g = h THEN [NoRequest EXCEPT !.pc = "wait",
                                               !.first = (req[h].got.uid = 0)]
                        ELSE [req[g] EXCEPT !.fresh = FALSE, !.first = FALSE]]
  /\ UNCHANGED <<sa, bindings, caches, roles, due, now>>

\* Mutant: the update carries no resource version, so any CR is written over.
UpsertPutUnversioned(h) ==
  /\ At(h, "put")
  /\ IF req[h].got.uid = 0 THEN cr.uid = 0 ELSE cr.uid = req[h].got.uid
  /\ PutStores(h)

\* ... and creates it, if there still is none of the name, or updates the copy it
\* read, if that still is the server's version.
UpsertPut(h) ==
  /\ At(h, "put")
  /\ IF req[h].got.uid = 0 THEN cr.uid = 0 ELSE req[h].fresh
  /\ PutStores(h)

\* Another write came first (AlreadyExists, NotFound, a conflict), or a call fails.
UpsertFails(h) == At(h, "put") /\ Ends(h)

\* Mutant: takes the phase before binded for good enough.
WaitBindedEarly(h) ==
  /\ At(h, "wait")
  /\ cr.uid # 0 /\ cr.status.phase \in {"binding", "binded"}
  /\ Ends(h)

\* WaitBinded polls whatever CR has the name: binded sends the request on to
\* Mint, which asks for a token of the ServiceAccount by name ...
WaitBinded(h) ==
  /\ At(h, "wait")
  /\ cr.uid # 0 /\ cr.status.phase = "binded"
  /\ Ends(h)

\* ... failed, and no CR at all, are errors; any other phase means another round
WaitFails(h) ==
  /\ At(h, "wait")
  /\ cr.uid = 0 \/ cr.status.phase = "failed"
  /\ Ends(h)

\* until the time is up or a call fails.
WaitGivesUp(h) == At(h, "wait") /\ Ends(h)

-----------------------------------------------------------------------------
(* The composition.                                                        *)

\* A wait, of seconds, is short against a tick, of hours.
NobodyWaits == \A h \in Handler : ~At(h, "wait")

Serve(h) ==
  \/ UpsertGet(h) \/ UpsertPut(h) \/ UpsertFails(h)
  \/ WaitBinded(h) \/ WaitFails(h) \/ WaitGivesUp(h)

Others ==
  \/ Operator \/ Informers \/ Resync \/ Restart \/ Apply \/ DeleteCR
  \/ EditTTL \/ Annotate \/ DropSA \/ CollectSA \/ (NobodyWaits /\ Tick)

HandshakeNext ==
  \/ Others /\ Beside
  \/ \E h \in Handler : Serve(h)

HandshakeSpec == HandshakeInit /\ [][HandshakeNext]_hvars

-----------------------------------------------------------------------------
(* Properties.                                                             *)

\* What the calls of concurrent requests do to the CR is what BindOperator says
\* of logins, one Upsert of the CR as it then is: a request that writes back the
\* copy it read undoes nothing that the operator or another request did to the CR
\* meanwhile, and nothing else a request does can be seen from the operator.
ImplementsOperator == Spec

\* As long as nobody has deleted a ServiceAccount behind the operator's back: a CR
\* that says binded, to whichever request polls it, has its own account, and the
\* status names it -- never the one of an earlier CR of that name.
BindedHasAccount ==
  left["sa"] = Budget["sa"] /\ cr.status.phase = "binded" =>
    sa.uid # 0 /\ sa.owner = cr.uid /\ cr.status.ref = sa.uid

\* The login that creates the CR is answered only when the bindings of its
\* memberships are in place, whatever failed or was restarted on the way.
FirstLoginInPlace ==
  [][\A h \in Handler : WaitBinded(h) /\ req[h].first /\ ~cr.deleting =>
       Granted(cr.uid) = Desired(cr)]_hvars
=============================================================================
