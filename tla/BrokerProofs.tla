---------------------------- MODULE BrokerProofs ----------------------------
(* Sessions never fork, are of the user who logged in, and share the window *)
(* of the bind, for any number of requests, logins and faults and any       *)
(* lifetimes.                                                               *)
EXTENDS Broker, TLAPS

-----------------------------------------------------------------------------
(* What the steps do to the requests.                                       *)

\* The same request, but for the version that it holds.
Alike(r, n) ==
  /\ n.pc = r.pc /\ n.via = r.via /\ n.login = r.login /\ n.who = r.who
  /\ n.snap = r.snap /\ n.since = r.since /\ n.key = r.key

Rest(h) == \A g \in Handler \ {h} : Alike(req[g], req'[g])

\* The request of h goes on to its next call; the IdP's answer identifies it.
Advance(h, from, to) ==
  /\ req' \in [Handler -> Serving] /\ Rest(h)
  /\ req[h].pc = from /\ req'[h].pc = to /\ req'[h].since = now
  /\ req'[h].via = req[h].via /\ req'[h].login = req[h].login /\ req'[h].key = req[h].key
  /\ IF from = "authenticate" THEN req'[h].who = req[h].login /\ req'[h].snap = now
     ELSE req'[h].who = req[h].who /\ req'[h].snap = req[h].snap

Ends(h) == req' \in [Handler -> Serving] /\ Rest(h) /\ req'[h] = Idle

AllAlike == req' \in [Handler -> Serving] /\ \A g \in Handler : Alike(req[g], req'[g])

LEMMA IdleType == Idle \in Serving
  BY BoundsAssumption DEF Idle, Serving, Time, Busy, Never

LEMMA IdleFields == Idle.pc = "idle" /\ Idle.login = 0 /\ Idle.since = 0
  BY DEF Idle

LEMMA OutdatedAlike ==
  ASSUME TypeOK
  PROVE  Outdated \in [Handler -> Serving] /\ \A g \in Handler : Alike(req[g], Outdated[g])
  <1> SUFFICES ASSUME NEW g \in Handler
               PROVE  Outdated[g] \in Serving /\ Alike(req[g], Outdated[g])
    BY DEF Outdated
  <1>1. req[g] \in Serving /\ Outdated[g] = [req[g] EXCEPT !.fresh = FALSE]
    BY DEF TypeOK, Outdated
  <1> QED BY <1>1 DEF Serving, Alike

LEMMA OneChanges ==
  ASSUME TypeOK, NEW h \in Handler, NEW n \in Serving, req' = [req EXCEPT ![h] = n]
  PROVE  req' \in [Handler -> Serving] /\ Rest(h) /\ req'[h] = n
  BY DEF TypeOK, Rest, Alike

LEMMA MovedType ==
  ASSUME TypeOK, NEW h \in Handler, NEW pc \in Busy
  PROVE  /\ Moved(h, pc) \in Serving
         /\ Moved(h, pc).pc = pc /\ Moved(h, pc).since = now
         /\ Moved(h, pc).login = req[h].login /\ Moved(h, pc).who = req[h].who
         /\ Moved(h, pc).snap = req[h].snap /\ Moved(h, pc).key = req[h].key
         /\ Moved(h, pc).via = req[h].via
  <1>1. req[h] \in Serving /\ now \in Time
    BY DEF TypeOK
  <1>2. Moved(h, pc) \in Serving
    BY <1>1 DEF Moved, Serving
  <1> QED BY <1>1, <1>2 DEF Moved, Serving

LEMMA AuthenticateAdvances ==
  ASSUME TypeOK, NEW h \in Handler, Authenticate(h)
  PROVE  Advance(h, "authenticate", "get")
  <1> DEFINE m == Moved(h, "get")
             n(l) == [m EXCEPT !.who = l, !.snap = now]
  <1>1. PICK l \in 1..logins : l = req[h].login /\ req' = [req EXCEPT ![h] = n(l)]
    BY DEF Authenticate
  <1>2. m \in Serving /\ m.pc = "get" /\ m.since = now /\ m.login = req[h].login
        /\ m.via = req[h].via /\ m.key = req[h].key
    BY MovedType DEF Busy
  <1>3. now \in Time /\ l \in Login
    BY BoundsAssumption DEF TypeOK, Login
  <1> HIDE DEF m
  <1>4. /\ n(l) \in Serving /\ n(l).pc = m.pc /\ n(l).via = m.via /\ n(l).login = m.login
        /\ n(l).who = l /\ n(l).snap = now /\ n(l).since = m.since /\ n(l).key = m.key
    BY <1>2, <1>3 DEF Serving
  <1> HIDE DEF n
  <1>5. req' \in [Handler -> Serving] /\ Rest(h) /\ req'[h] = n(l)
    BY <1>1, <1>4, OneChanges
  <1> QED BY <1>1, <1>2, <1>4, <1>5 DEF Advance, Authenticate, At

LEMMA GetAdvances ==
  ASSUME TypeOK, NEW h \in Handler, UpsertGet(h)
  PROVE  Advance(h, "get", "put")
  <1> DEFINE m == Moved(h, "put")
             n == [m EXCEPT !.fresh = TRUE]
  <1>1. /\ m \in Serving /\ m.pc = "put" /\ m.since = now /\ m.login = req[h].login
        /\ m.via = req[h].via /\ m.key = req[h].key /\ m.who = req[h].who
        /\ m.snap = req[h].snap
    BY MovedType DEF Busy
  <1>2. req' = [req EXCEPT ![h] = n] /\ req[h].pc = "get"
    BY DEF UpsertGet, At
  <1> HIDE DEF m
  <1>3. n \in Serving /\ Alike(m, n)
    BY <1>1 DEF Serving, Alike
  <1> HIDE DEF n
  <1>4. req' \in [Handler -> Serving] /\ Rest(h) /\ req'[h] = n
    BY <1>2, <1>3, OneChanges
  <1> QED BY <1>1, <1>2, <1>3, <1>4 DEF Advance, Alike

LEMMA PutAdvances ==
  ASSUME TypeOK, NEW h \in Handler, UpsertPut(h)
  PROVE  Advance(h, "put", "wait")
  <1> DEFINE m == Moved(h, "wait")
  <1>1. /\ m \in Serving /\ m.pc = "wait" /\ m.since = now /\ m.login = req[h].login
        /\ m.via = req[h].via /\ m.key = req[h].key /\ m.who = req[h].who
        /\ m.snap = req[h].snap
    BY MovedType DEF Busy
  <1>2. req' = [Outdated EXCEPT ![h] = m] /\ req[h].pc = "put"
    BY DEF UpsertPut, At
  <1> HIDE DEF m
  <1>3. /\ req' \in [Handler -> Serving] /\ req'[h] = m
        /\ \A g \in Handler \ {h} : req'[g] = Outdated[g]
    BY <1>1, <1>2, OutdatedAlike
  <1>4. Rest(h)
    BY <1>3, OutdatedAlike DEF Rest
  <1> QED BY <1>1, <1>2, <1>3, <1>4 DEF Advance

LEMMA WaitAdvances ==
  ASSUME TypeOK, NEW h \in Handler, WaitBinded(h)
  PROVE  Advance(h, "wait", "mint")
  <1>1. "mint" \in Busy /\ req[h].pc = "wait" /\ req' = [req EXCEPT ![h] = Moved(h, "mint")]
    BY DEF Busy, WaitBinded, At
  <1>2. req' \in [Handler -> Serving] /\ Rest(h) /\ req'[h] = Moved(h, "mint")
    BY <1>1, MovedType, OneChanges
  <1> QED BY <1>1, <1>2, MovedType DEF Advance

LEMMA MintAdvances ==
  ASSUME TypeOK, NEW h \in Handler, Mint(h)
  PROVE  Advance(h, "mint", "save")
  <1>1. "save" \in Busy /\ req[h].pc = "mint" /\ req' = [req EXCEPT ![h] = Moved(h, "save")]
    BY DEF Busy, Mint, At
  <1>2. req' \in [Handler -> Serving] /\ Rest(h) /\ req'[h] = Moved(h, "save")
    BY <1>1, MovedType, OneChanges
  <1> QED BY <1>1, <1>2, MovedType DEF Advance

LEMMA FinishEnds ==
  ASSUME TypeOK, NEW h \in Handler, Finish(h)
  PROVE  Ends(h)
  BY IdleType, OneChanges DEF Finish, Ends

\* A request arrives: a login of the login state l, or a refresh of the grant g.
Begins(h, pc, l) ==
  /\ req' \in [Handler -> Serving] /\ Rest(h)
  /\ req[h].pc = "idle" /\ req'[h].pc = pc /\ req'[h].since = now /\ req'[h].login = l

LEMMA CallbackBegins ==
  ASSUME TypeOK, NEW h \in Handler, NEW l \in Login, Callback(h, l)
  PROVE  Begins(h, "authenticate", l)
  <1> DEFINE m == Moved(h, "authenticate")
             n == [m EXCEPT !.via = "code", !.login = l]
  <1>1. m \in Serving /\ m.pc = "authenticate" /\ m.since = now
    BY MovedType DEF Busy
  <1>2. req' = [req EXCEPT ![h] = n] /\ req[h].pc = "idle"
    BY DEF Callback, Accepting, At
  <1> HIDE DEF m
  <1>3. n \in Serving /\ n.pc = m.pc /\ n.login = l /\ n.since = m.since
    BY <1>1 DEF Serving
  <1> HIDE DEF n
  <1>4. req' \in [Handler -> Serving] /\ Rest(h) /\ req'[h] = n
    BY <1>2, <1>3, OneChanges
  <1> QED BY <1>1, <1>2, <1>3, <1>4 DEF Begins

LEMMA RefreshBegins ==
  ASSUME TypeOK, NEW h \in Handler, NEW k \in Key, TakeRefresh(h, k), req' # req
  PROVE  /\ k \in DOMAIN refresh /\ Begins(h, "get", refresh[k].val.login)
         /\ req'[h].who = refresh[k].val.who /\ req'[h].snap = refresh[k].val.snap
  <1>1. k \in DOMAIN refresh /\ refresh[k].val \in Grant
    BY DEF TakeRefresh, Found, TypeOK
  <1> DEFINE m == Moved(h, "get")
             g == refresh[k].val
             n == [m EXCEPT !.via = "refresh", !.login = g.login, !.who = g.who, !.snap = g.snap]
  <1>2. m \in Serving /\ m.pc = "get" /\ m.since = now
    BY MovedType DEF Busy
  <1>3. req' = [req EXCEPT ![h] = n] /\ req[h].pc = "idle"
    BY DEF TakeRefresh, Accepting, At
  <1> HIDE DEF m, g
  <1>4. g \in Grant
    BY <1>1 DEF g
  <1>5. /\ n \in Serving /\ n.pc = m.pc /\ n.login = g.login /\ n.since = m.since
        /\ n.who = g.who /\ n.snap = g.snap
    BY <1>2, <1>4 DEF Serving, Grant
  <1> HIDE DEF n
  <1>6. req' \in [Handler -> Serving] /\ Rest(h) /\ req'[h] = n
    BY <1>3, <1>5, OneChanges
  <1> QED BY <1>1, <1>2, <1>3, <1>5, <1>6 DEF Begins, g

\* A login keeps the refresh token that it drew.
Keeps(h, k) ==
  /\ req' \in [Handler -> Serving] /\ Rest(h)
  /\ req'[h].pc = "code" /\ req'[h].key = k /\ req'[h].since = now
  /\ req'[h].login = req[h].login /\ req'[h].who = req[h].who /\ req'[h].snap = req[h].snap

LEMMA SaveRefreshFacts ==
  ASSUME TypeOK, NEW h \in Handler, SaveRefresh(h)
  PROVE  /\ req[h].pc = "save" /\ drawn' = drawn + 1 /\ drawn' \in Key
         /\ \/ Keeps(h, drawn') /\ given' = given
            \/ /\ Ends(h)
               /\ given' = given \/ given' = [given EXCEPT ![drawn'] = @ + 1]
  <1>0. drawn \in 0..MaxKey /\ drawn < MaxKey /\ drawn' = drawn + 1 /\ req[h].pc = "save"
    BY DEF SaveRefresh, At, TypeOK
  <1>1. drawn' = drawn + 1 /\ drawn' \in Key /\ req[h].pc = "save"
    BY <1>0, BoundsAssumption DEF Key
  <1>2. CASE Finish(h) /\ (given' = [given EXCEPT ![drawn'] = @ + 1] \/ UNCHANGED given)
    BY <1>1, <1>2, FinishEnds
  <1>3. CASE /\ req' = [req EXCEPT ![h] = [Moved(h, "code") EXCEPT !.key = drawn']]
             /\ UNCHANGED given
    <2> DEFINE m == Moved(h, "code")
    <2>0. PICK k \in Key : k = drawn'
      BY <1>1
    <2> DEFINE n == [m EXCEPT !.key = k]
    <2>1. /\ m \in Serving /\ m.pc = "code" /\ m.since = now /\ m.login = req[h].login
          /\ m.who = req[h].who /\ m.snap = req[h].snap
      BY MovedType DEF Busy
    <2>2. req' = [req EXCEPT ![h] = n]
      BY <1>3, <2>0
    <2> HIDE DEF m
    <2>3. /\ n \in Serving /\ n.pc = m.pc /\ n.login = m.login /\ n.since = m.since
          /\ n.who = m.who /\ n.snap = m.snap /\ n.key = k
      BY <2>0, <2>1 DEF Serving
    <2> HIDE DEF n
    <2>4. req' \in [Handler -> Serving] /\ Rest(h) /\ req'[h] = n
      BY <2>2, <2>3, OneChanges
    <2> QED BY <1>1, <1>3, <2>0, <2>1, <2>3, <2>4 DEF Keeps
  <1> QED BY <1>1, <1>2, <1>3 DEF SaveRefresh

-----------------------------------------------------------------------------
(* What the steps do to the store.                                          *)

Shrinks(m, n) == DOMAIN n \subseteq DOMAIN m /\ \A k \in DOMAIN n : n[k] = m[k]

AllShrink == Shrinks(auth, auth') /\ Shrinks(codes, codes') /\ Shrinks(refresh, refresh')

LEMMA WithoutFacts ==
  ASSUME NEW m, NEW keys
  PROVE  Shrinks(m, Without(m, keys)) /\ DOMAIN Without(m, keys) = DOMAIN m \ keys
  BY DEF Without, Shrinks

LEMMA SelfShrinks ==
  ASSUME NEW m
  PROVE  Shrinks(m, m)
  BY DEF Shrinks

LEMMA EmptyShrinks ==
  ASSUME NEW m
  PROVE  Shrinks(m, Empty)
  BY DEF Empty, Shrinks

LEMMA RestartShrinks ==
  ASSUME Restart
  PROVE  AllShrink
  <1>1. CASE UNCHANGED stores
    BY <1>1 DEF stores, AllShrink, Shrinks
  <1>2. CASE auth' = Empty /\ codes' = Empty /\ refresh' = Empty
    BY <1>2, EmptyShrinks DEF AllShrink
  <1> QED BY <1>1, <1>2 DEF Restart

LEMMA TickShrinks ==
  ASSUME Tick
  PROVE  AllShrink
  BY WithoutFacts DEF Tick, AllShrink

-----------------------------------------------------------------------------
(* Requests and grants are of logins that were started, and identified.     *)

Shape(r) ==
  /\ r.pc # "idle" => r.login \in 1..logins
  /\ r.pc = "idle" => r.login = 0
  /\ r.pc \notin {"idle", "authenticate"} => r.who = r.login /\ r.snap \in Time
  /\ r.pc = "code" => r.key \in 1..drawn

StoredInv ==
  /\ DOMAIN auth \subseteq 1..logins /\ \A l \in DOMAIN auth : auth[l].exp \in Nat
  /\ DOMAIN codes \subseteq 1..drawn /\ \A k \in DOMAIN codes : codes[k].exp \in Nat
  /\ DOMAIN refresh \subseteq 1..drawn
  /\ \A k \in DOMAIN refresh :
       /\ refresh[k].val \in Grant /\ refresh[k].exp \in Nat
       /\ refresh[k].val.login \in 1..logins /\ refresh[k].val.who = refresh[k].val.login

RequestsInv == req \in [Handler -> Serving] /\ \A h \in Handler : Shape(req[h])

CountsInv ==
  /\ cr \in Bind
  /\ given \in [Key -> Nat] /\ drawn \in 0..MaxKey /\ logins \in 0..MaxLogins
  /\ deleted \in {Never} \cup Time /\ faults \in 0..MaxFaults /\ now \in Time

ShapeInv == StoredInv /\ RequestsInv /\ CountsInv

LEMMA Ranges ==
  ASSUME CountsInv
  PROVE  drawn \in Nat /\ logins \in Nat /\ 1..drawn \subseteq Key /\ 1..logins \subseteq Login
  BY BoundsAssumption DEF CountsInv, Login, Key

LEMMA ShapeTypes == ASSUME ShapeInv PROVE TypeOK
  <1>1. /\ DOMAIN auth \subseteq Login /\ DOMAIN codes \subseteq Key
        /\ DOMAIN refresh \subseteq Key
    BY Ranges DEF ShapeInv, StoredInv
  <1> QED BY <1>1 DEF ShapeInv, StoredInv, RequestsInv, CountsInv, TypeOK

LEMMA ShapeInit == Init => ShapeInv
  <1> SUFFICES ASSUME Init PROVE ShapeInv
    OBVIOUS
  <1>1. CountsInv
    BY BoundsAssumption DEF Init, CountsInv, Bind, Absent, Never, Time
  <1>2. RequestsInv
    BY IdleType DEF Init, RequestsInv, Shape, Idle
  <1>3. StoredInv
    BY DEF Init, StoredInv, Empty
  <1> QED BY <1>1, <1>2, <1>3 DEF ShapeInv

\* Counters only grow.
Grows == logins' \in logins..MaxLogins /\ drawn' \in drawn..MaxKey

LEMMA SameGrows ==
  ASSUME ShapeInv, UNCHANGED <<logins, drawn>>
  PROVE  Grows
  BY DEF ShapeInv, CountsInv, Grows

LEMMA AlikeShape ==
  ASSUME ShapeInv, Grows, NEW g \in Handler, Alike(req[g], req'[g])
  PROVE  Shape(req[g])'
  BY DEF ShapeInv, RequestsInv, CountsInv, Grows, Shape, Alike

LEMMA OneShape ==
  ASSUME ShapeInv, Grows, NEW h \in Handler, req' \in [Handler -> Serving], Rest(h),
         Shape(req[h])'
  PROVE  RequestsInv'
  BY AlikeShape DEF RequestsInv, Rest

LEMMA AllAlikeShape ==
  ASSUME ShapeInv, Grows, AllAlike
  PROVE  RequestsInv'
  BY AlikeShape DEF RequestsInv, AllAlike

LEMMA EndsShape ==
  ASSUME ShapeInv, Grows, NEW h \in Handler, Ends(h)
  PROVE  RequestsInv'
  <1>1. req'[h].pc = "idle" /\ req'[h].login = 0
    BY IdleFields DEF Ends
  <1>2. Shape(req[h])'
    BY <1>1 DEF Shape
  <1> QED BY <1>2, OneShape DEF Ends

LEMMA AdvanceShape ==
  ASSUME ShapeInv, Grows, NEW h \in Handler, NEW from \in Busy,
         NEW to \in {"get", "put", "wait", "mint", "save"}, Advance(h, from, to)
  PROVE  RequestsInv'
  <1>1. Shape(req[h]) /\ now \in Time /\ logins \in Nat
    BY DEF ShapeInv, RequestsInv, CountsInv
  <1>2. Shape(req[h])'
    BY <1>1 DEF Shape, Advance, Grows, Busy
  <1> QED BY <1>2, OneShape DEF Advance

LEMMA ShrinkStored ==
  ASSUME ShapeInv, Grows, AllShrink
  PROVE  StoredInv'
  BY DEF ShapeInv, StoredInv, CountsInv, Grows, AllShrink, Shrinks

\* The request that h advances, by any of its calls but the last two.
LEMMA StepAdvances ==
  ASSUME TypeOK, NEW h \in Handler,
         \/ Authenticate(h) \/ UpsertGet(h) \/ UpsertPut(h) \/ WaitBinded(h) \/ Mint(h)
  PROVE  \E from \in Busy, to \in {"get", "put", "wait", "mint", "save"} :
           Advance(h, from, to)
  BY AuthenticateAdvances, GetAdvances, PutAdvances, WaitAdvances, MintAdvances DEF Busy

LEMMA StepEnds ==
  ASSUME TypeOK, NEW h \in Handler, UpsertConflict(h) \/ WaitFails(h) \/ CallFails(h)
  PROVE  Ends(h)
  BY FinishEnds DEF UpsertConflict, WaitFails, CallFails

LEMMA SameAlike ==
  ASSUME TypeOK, req' = req
  PROVE  AllAlike
  BY DEF TypeOK, AllAlike, Alike

LEMMA OperatorAlike ==
  ASSUME TypeOK, Operator \/ DeleteCR
  PROVE  AllAlike
  BY OutdatedAlike
     DEF AllAlike, Operator, OperatorBinds, OperatorFails, OperatorUnbinds, DeleteCR

LEMMA SameShrinks ==
  ASSUME UNCHANGED stores
  PROVE  AllShrink
  BY DEF stores, AllShrink, Shrinks

\* The CR is written by Upsert, the operator and an administrator.
LEMMA UpsertTypes ==
  ASSUME ShapeInv, NEW h \in Handler, UpsertPut(h)
  PROVE  cr' \in Bind
  <1>1. cr \in Bind /\ now \in Time /\ req[h] \in Serving
    BY DEF ShapeInv, CountsInv, RequestsInv
  <1> QED BY <1>1 DEF UpsertPut, Bind, Serving

LEMMA OperatorTypes ==
  ASSUME ShapeInv, Operator \/ DeleteCR
  PROVE  cr' \in Bind
  <1>1. cr \in Bind
    BY DEF ShapeInv, CountsInv
  <1>2. CASE Operator
    BY <1>1, <1>2 DEF Operator, OperatorBinds, OperatorFails, OperatorUnbinds, Bind
  <1>3. CASE DeleteCR
    BY <1>3, BoundsAssumption DEF DeleteCR, Absent, Bind, Time, Never
  <1> QED BY <1>2, <1>3

LEMMA SaveRefreshShape ==
  ASSUME ShapeInv, NEW h \in Handler, SaveRefresh(h)
  PROVE  ShapeInv'
  <1>1. TypeOK /\ req[h] \in Serving /\ Shape(req[h])
    BY ShapeTypes DEF ShapeInv, RequestsInv
  <1>2. /\ req[h].pc = "save" /\ drawn' = drawn + 1 /\ drawn' \in Key
        /\ \/ Keeps(h, drawn') /\ given' = given
           \/ Ends(h) /\ (given' = given \/ given' = [given EXCEPT ![drawn'] = @ + 1])
    BY <1>1, SaveRefreshFacts
  <1>3. UNCHANGED <<auth, codes, cr, logins, deleted, faults, now>>
    BY DEF SaveRefresh
  <1>4. Grows /\ CountsInv'
    <2>1. given' \in [Key -> Nat]
      BY <1>2 DEF ShapeInv, CountsInv
    <2>2. drawn' \in drawn..MaxKey /\ drawn' \in 0..MaxKey
      BY <1>2, BoundsAssumption DEF ShapeInv, CountsInv, Key
    <2> QED BY <1>3, <2>1, <2>2 DEF ShapeInv, CountsInv, Grows
  <1>5. RequestsInv'
    <2>1. CASE Ends(h)
      BY <1>4, <2>1, EndsShape
    <2>2. CASE Keeps(h, drawn')
      <3>1. Shape(req[h])'
        BY <1>1, <1>2, <1>3, <2>2 DEF Shape, Keeps, Key
      <3> QED BY <1>4, <2>2, <3>1, OneShape DEF Keeps
    <2> QED BY <1>2, <2>1, <2>2
  <1>6. StoredInv'
    <2> DEFINE g == [login |-> req[h].login, who |-> req[h].who, snap |-> req[h].snap]
    <2>1. refresh' = Saved(refresh, drawn', g, now + RefreshTTL)
      BY DEF SaveRefresh
    <2>2. g \in Grant /\ g.login \in 1..logins /\ g.who = g.login
      BY <1>1, <1>2, BoundsAssumption DEF Shape, Grant, ShapeInv, CountsInv, Login
    <2> HIDE DEF g
    <2>3. /\ DOMAIN refresh' = DOMAIN refresh \cup {drawn'}
          /\ refresh'[drawn'].val = g /\ refresh'[drawn'].exp = now + RefreshTTL
          /\ \A k \in DOMAIN refresh \ {drawn'} : refresh'[k] = refresh[k]
      BY <2>1 DEF Saved
    <2>4. now + RefreshTTL \in Nat
      BY TTLAssumption DEF ShapeInv, CountsInv, Time
    <2> QED BY <1>2, <1>3, <2>2, <2>3, <2>4 DEF ShapeInv, StoredInv, CountsInv, Key
  <1> QED BY <1>4, <1>5, <1>6 DEF ShapeInv

LEMMA SaveCodeShape ==
  ASSUME ShapeInv, NEW h \in Handler, SaveCode(h)
  PROVE  ShapeInv'
  <1>1. TypeOK /\ Shape(req[h])
    BY ShapeTypes DEF ShapeInv, RequestsInv
  <1>2. /\ UNCHANGED <<auth, refresh, cr, given, drawn, logins, deleted, faults, now>>
        /\ req[h].pc = "code" /\ Ends(h)
    BY <1>1, FinishEnds DEF SaveCode, At
  <1>3. Grows /\ CountsInv'
    BY <1>2, SameGrows DEF ShapeInv, CountsInv
  <1>4. /\ DOMAIN codes' = DOMAIN codes \cup {req[h].key}
        /\ codes'[req[h].key].exp = now + CodeTTL
        /\ \A k \in DOMAIN codes \ {req[h].key} : codes'[k] = codes[k]
    BY DEF SaveCode, Saved
  <1>5. now + CodeTTL \in Nat /\ req[h].key \in 1..drawn
    BY <1>1, <1>2, TTLAssumption DEF ShapeInv, CountsInv, Time, Shape
  <1>6. StoredInv'
    BY <1>2, <1>4, <1>5 DEF ShapeInv, StoredInv
  <1> QED BY <1>2, <1>3, <1>6, EndsShape DEF ShapeInv

LEMMA AuthorizeShape ==
  ASSUME ShapeInv, Authorize
  PROVE  ShapeInv'
  <1>1. UNCHANGED <<codes, refresh, req, cr, given, drawn, deleted, faults, now>>
    BY DEF Authorize
  <1>2. logins' = logins + 1 /\ Grows /\ CountsInv'
    BY <1>1, BoundsAssumption DEF Authorize, ShapeInv, CountsInv, Grows
  <1>3. /\ DOMAIN auth' = DOMAIN auth \cup {logins'} /\ auth'[logins'].exp = now + AuthTTL
        /\ \A l \in DOMAIN auth \ {logins'} : auth'[l] = auth[l]
    BY DEF Authorize, Saved
  <1>4. now + AuthTTL \in Nat
    BY TTLAssumption DEF ShapeInv, CountsInv, Time
  <1>5. StoredInv'
    <2>1. DOMAIN auth' \subseteq 1..logins' /\ \A l \in DOMAIN auth' : auth'[l].exp \in Nat
      BY <1>2, <1>3, <1>4 DEF ShapeInv, StoredInv, CountsInv
    <2> QED BY <1>1, <1>2, <2>1 DEF ShapeInv, StoredInv, CountsInv
  <1>6. RequestsInv'
    BY <1>1, <1>2, ShapeTypes, SameAlike, AllAlikeShape
  <1> QED BY <1>2, <1>5, <1>6 DEF ShapeInv

LEMMA CallbackShape ==
  ASSUME ShapeInv, NEW h \in Handler, NEW l \in Login, Callback(h, l)
  PROVE  ShapeInv'
  <1>1. /\ UNCHANGED <<codes, refresh, cr, given, drawn, logins, deleted, faults, now>>
        /\ auth' = Without(auth, {l}) /\ l \in DOMAIN auth
    BY DEF Callback, Found
  <1>2. Begins(h, "authenticate", l)
    BY ShapeTypes, CallbackBegins
  <1>3. Grows /\ CountsInv'
    BY <1>1, SameGrows DEF ShapeInv, CountsInv
  <1>4. AllShrink
    BY <1>1, WithoutFacts, SelfShrinks DEF AllShrink
  <1>5. Shape(req[h])'
    BY <1>1, <1>2 DEF Begins, Shape, ShapeInv, StoredInv
  <1>6. RequestsInv'
    BY <1>2, <1>3, <1>5, OneShape DEF Begins
  <1> QED BY <1>3, <1>4, <1>6, ShrinkStored DEF ShapeInv

LEMMA TakeRefreshShape ==
  ASSUME ShapeInv, NEW h \in Handler, NEW k \in Key, TakeRefresh(h, k)
  PROVE  ShapeInv'
  <1>1. /\ UNCHANGED <<auth, codes, cr, given, drawn, logins, deleted, faults, now>>
        /\ refresh' = Without(refresh, {k}) /\ k \in DOMAIN refresh
    BY DEF TakeRefresh, Found
  <1>2. Grows /\ CountsInv'
    BY <1>1, SameGrows DEF ShapeInv, CountsInv
  <1>3. AllShrink
    BY <1>1, WithoutFacts, SelfShrinks DEF AllShrink
  <1>4. CASE req' = req
    BY <1>2, <1>3, <1>4, ShapeTypes, SameAlike, AllAlikeShape, ShrinkStored DEF ShapeInv
  <1>5. CASE req' # req
    <2>1. /\ Begins(h, "get", refresh[k].val.login)
          /\ req'[h].who = refresh[k].val.who /\ req'[h].snap = refresh[k].val.snap
      BY <1>5, ShapeTypes, RefreshBegins
    <2>2. /\ refresh[k].val.login \in 1..logins /\ refresh[k].val.snap \in Time
          /\ refresh[k].val.who = refresh[k].val.login
      BY <1>1 DEF ShapeInv, StoredInv, Grant
    <2>3. Shape(req[h])'
      BY <1>1, <2>1, <2>2 DEF Begins, Shape
    <2> QED BY <1>2, <1>3, <2>1, <2>3, OneShape, ShrinkStored DEF Begins, ShapeInv
  <1> QED BY <1>4, <1>5

LEMMA RedeemCodeShape ==
  ASSUME ShapeInv, NEW k \in Key, RedeemCode(k)
  PROVE  ShapeInv'
  <1>1. /\ UNCHANGED <<auth, refresh, req, cr, drawn, logins, deleted, faults, now>>
        /\ codes' = Without(codes, {k})
    BY DEF RedeemCode
  <1>2. given' \in [Key -> Nat]
    BY DEF RedeemCode, ShapeInv, CountsInv
  <1>3. Grows /\ CountsInv'
    BY <1>1, <1>2, SameGrows DEF ShapeInv, CountsInv
  <1>4. AllShrink
    BY <1>1, WithoutFacts, SelfShrinks DEF AllShrink
  <1> QED BY <1>1, <1>3, <1>4, ShapeTypes, SameAlike, AllAlikeShape, ShrinkStored DEF ShapeInv

LEMMA RestartShape ==
  ASSUME ShapeInv, Restart
  PROVE  ShapeInv'
  <1>1. Grows /\ CountsInv'
    <2>1. UNCHANGED <<cr, given, drawn, logins, deleted, now>> /\ faults' \in 0..MaxFaults
      BY BoundsAssumption DEF Restart, ShapeInv, CountsInv
    <2> QED BY <2>1, SameGrows DEF ShapeInv, CountsInv
  <1>2. RequestsInv'
    <2>1. \A h \in Handler : req'[h] = Idle
      BY DEF Restart
    <2>2. \A h \in Handler : req'[h].pc = "idle" /\ req'[h].login = 0
      BY <2>1, IdleFields
    <2>3. req' \in [Handler -> Serving]
      BY IdleType DEF Restart
    <2> QED BY <2>2, <2>3 DEF RequestsInv, Shape
  <1> QED BY <1>1, <1>2, RestartShrinks, ShrinkStored DEF ShapeInv

LEMMA TickShape ==
  ASSUME ShapeInv, Tick
  PROVE  ShapeInv'
  <1>1. UNCHANGED <<req, cr, given, drawn, logins, deleted, faults>>
    BY DEF Tick
  <1>2. now' \in Time
    BY BoundsAssumption DEF Tick, ShapeInv, CountsInv, Time
  <1>3. Grows /\ CountsInv'
    BY <1>1, <1>2, SameGrows DEF ShapeInv, CountsInv
  <1> QED BY <1>1, <1>3, ShapeTypes, SameAlike, AllAlikeShape, TickShrinks, ShrinkStored
          DEF ShapeInv

LEMMA OperatorShape ==
  ASSUME ShapeInv, Operator \/ DeleteCR
  PROVE  ShapeInv'
  <1>1. UNCHANGED <<stores, given, drawn, logins, now>>
    BY DEF Operator, OperatorBinds, OperatorFails, OperatorUnbinds, DeleteCR
  <1>2. faults' \in 0..MaxFaults /\ deleted' \in {Never} \cup Time
    BY BoundsAssumption
       DEF Operator, OperatorBinds, OperatorFails, OperatorUnbinds, DeleteCR, ShapeInv, CountsInv
  <1>3. Grows /\ CountsInv'
    BY <1>1, <1>2, SameGrows, OperatorTypes DEF ShapeInv, CountsInv
  <1> QED BY <1>1, <1>3, ShapeTypes, OperatorAlike, AllAlikeShape, SameShrinks, ShrinkStored
          DEF ShapeInv

LEMMA AdvanceStepShape ==
  ASSUME ShapeInv, NEW h \in Handler,
         \/ Authenticate(h) \/ UpsertGet(h) \/ UpsertPut(h) \/ WaitBinded(h) \/ Mint(h)
  PROVE  ShapeInv'
  <1>1. UNCHANGED <<stores, given, drawn, logins, deleted, faults, now>>
    BY DEF Authenticate, UpsertGet, UpsertPut, WaitBinded, Mint
  <1>2. cr' \in Bind
    <2>1. CASE UpsertPut(h)
      BY <2>1, UpsertTypes
    <2>2. CASE cr' = cr
      BY <2>2 DEF ShapeInv, CountsInv
    <2> QED BY <2>1, <2>2 DEF Authenticate, UpsertGet, WaitBinded, Mint
  <1>3. Grows /\ CountsInv'
    BY <1>1, <1>2, SameGrows DEF ShapeInv, CountsInv
  <1> QED BY <1>1, <1>3, ShapeTypes, StepAdvances, AdvanceShape, SameShrinks, ShrinkStored
          DEF ShapeInv

LEMMA EndStepShape ==
  ASSUME ShapeInv, NEW h \in Handler, UpsertConflict(h) \/ WaitFails(h) \/ CallFails(h)
  PROVE  ShapeInv'
  <1>1. UNCHANGED <<stores, cr, given, drawn, logins, deleted, faults, now>>
    BY DEF UpsertConflict, WaitFails, CallFails
  <1>2. Grows /\ CountsInv'
    BY <1>1, SameGrows DEF ShapeInv, CountsInv
  <1> QED BY <1>1, <1>2, ShapeTypes, StepEnds, EndsShape, SameShrinks, ShrinkStored DEF ShapeInv

LEMMA ShapeNext == ShapeInv /\ [Next]_vars => ShapeInv'
  <1> SUFFICES ASSUME ShapeInv, [Next]_vars PROVE ShapeInv'
    OBVIOUS
  <1>1. CASE Authorize \/ Operator \/ DeleteCR \/ Restart \/ Tick
    BY <1>1, AuthorizeShape, OperatorShape, RestartShape, TickShape
  <1>2. ASSUME NEW h \in Handler, Step(h) \/ CallFails(h) PROVE ShapeInv'
    BY <1>2, AdvanceStepShape, EndStepShape, SaveRefreshShape, SaveCodeShape DEF Step
  <1>3. ASSUME NEW h \in Handler, Request(h) PROVE ShapeInv'
    BY <1>3, CallbackShape, TakeRefreshShape DEF Request
  <1>4. ASSUME NEW k \in Key, RedeemCode(k) PROVE ShapeInv'
    BY <1>4, RedeemCodeShape
  <1>5. CASE UNCHANGED vars
    BY <1>5 DEF vars, ShapeInv, StoredInv, RequestsInv, CountsInv, Shape
  <1> QED BY <1>1, <1>2, <1>3, <1>4, <1>5 DEF Next

LEMMA ShapeAlways == Spec => []ShapeInv
  BY ShapeInit, ShapeNext, PTL DEF Spec

\* Every variable of the broker keeps to its type (the requests, the stores and
\* the CR of Broker).
THEOREM BrokerTyped == Spec => []TypeOK
  <1>1. ShapeInv => TypeOK
    BY ShapeTypes
  <1> QED BY <1>1, ShapeAlways, PTL

\* Concurrent logins never mix: every refresh token and every request past the
\* identity provider is of the user who went through that very login (the nonce
\* that Authenticate compares, the identity that handleRefresh restores).
THEOREM SessionsKeepTheirUser == Spec => []OwnIdentity
  <1>1. ShapeInv => OwnIdentity
    BY DEF ShapeInv, StoredInv, RequestsInv, Shape, OwnIdentity
  <1> QED BY <1>1, ShapeAlways, PTL

-----------------------------------------------------------------------------
(* A session has one means to go on.  OneTokenPerSession is inductive once   *)
(* it is spelled out as the three kinds of means excluding one another.      *)

Open(r) == r.pc \notin {"idle", "code"}

SessionInv ==
  /\ \A h \in Handler, l \in DOMAIN auth : Open(req[h]) => req[h].login # l
  /\ \A k \in DOMAIN refresh, l \in DOMAIN auth : refresh[k].val.login # l
  /\ \A g, h \in Handler : Open(req[g]) /\ Open(req[h]) /\ req[g].login = req[h].login => g = h
  /\ \A h \in Handler, k \in DOMAIN refresh :
       Open(req[h]) => refresh[k].val.login # req[h].login
  /\ \A j, k \in DOMAIN refresh : refresh[j].val.login = refresh[k].val.login => j = k

\* The request of h, if it is open, was so already.
Kept(h) == Open(req'[h]) => Open(req[h]) /\ req'[h].login = req[h].login

LEMMA NothingNew ==
  ASSUME SessionInv, Shrinks(auth, auth'), Shrinks(refresh, refresh'),
         \A h \in Handler : Kept(h)
  PROVE  SessionInv'
  BY DEF SessionInv, Shrinks, Kept

LEMMA RestKept ==
  ASSUME NEW h \in Handler, Rest(h)
  PROVE  \A g \in Handler \ {h} : Kept(g)
  BY DEF Rest, Alike, Kept, Open

LEMMA AlikeKept ==
  ASSUME AllAlike
  PROVE  \A g \in Handler : Kept(g)
  BY DEF AllAlike, Alike, Kept, Open

LEMMA EndsKept ==
  ASSUME NEW h \in Handler, Ends(h)
  PROVE  \A g \in Handler : Kept(g)
  <1>1. ~Open(req'[h])
    BY IdleFields DEF Ends, Open
  <1> QED BY <1>1, RestKept DEF Ends, Kept

LEMMA AdvanceKept ==
  ASSUME NEW h \in Handler, NEW from \in Busy, NEW to \in {"get", "put", "wait", "mint", "save"},
         from # "code", Advance(h, from, to)
  PROVE  \A g \in Handler : Kept(g)
  <1>1. Kept(h)
    BY DEF Advance, Kept, Open, Busy
  <1> QED BY <1>1, RestKept DEF Advance

LEMMA SessionAdvance ==
  ASSUME ShapeInv, SessionInv, NEW h \in Handler,
         \/ Authenticate(h) \/ UpsertGet(h) \/ UpsertPut(h) \/ WaitBinded(h) \/ Mint(h)
  PROVE  SessionInv'
  <1>1. UNCHANGED stores
    BY DEF Authenticate, UpsertGet, UpsertPut, WaitBinded, Mint
  <1>2. PICK from \in Busy, to \in {"get", "put", "wait", "mint", "save"} : Advance(h, from, to)
    BY ShapeTypes, StepAdvances
  <1>3. from # "code"
    BY <1>2 DEF Advance, Authenticate, UpsertGet, UpsertPut, WaitBinded, Mint, At
  <1> QED BY <1>1, <1>2, <1>3, AdvanceKept, SameShrinks, NothingNew DEF AllShrink

LEMMA SessionEnds ==
  ASSUME ShapeInv, SessionInv, NEW h \in Handler,
         UpsertConflict(h) \/ WaitFails(h) \/ CallFails(h) \/ SaveCode(h)
  PROVE  SessionInv'
  <1>1. UNCHANGED <<auth, refresh>>
    BY DEF UpsertConflict, WaitFails, CallFails, SaveCode, stores
  <1>2. Ends(h)
    BY ShapeTypes, FinishEnds DEF UpsertConflict, WaitFails, CallFails, SaveCode
  <1> QED BY <1>1, <1>2, EndsKept, SelfShrinks, NothingNew

LEMMA SessionEnvironment ==
  ASSUME ShapeInv, SessionInv, Operator \/ DeleteCR \/ Restart \/ Tick
  PROVE  SessionInv'
  <1>1. CASE Operator \/ DeleteCR
    <2>1. UNCHANGED stores
      BY <1>1 DEF Operator, OperatorBinds, OperatorFails, OperatorUnbinds, DeleteCR
    <2> QED BY <1>1, <2>1, ShapeTypes, OperatorAlike, AlikeKept, SameShrinks, NothingNew
            DEF AllShrink
  <1>2. CASE Restart
    <2>1. \A h \in Handler : req'[h] = Idle
      BY <1>2 DEF Restart
    <2>2. \A h \in Handler : Kept(h)
      BY <2>1, IdleFields DEF Kept, Open
    <2> QED BY <1>2, <2>2, RestartShrinks, NothingNew DEF AllShrink
  <1>3. CASE Tick
    <2>1. AllAlike
      BY <1>3, ShapeTypes, SameAlike DEF Tick
    <2> QED BY <1>3, <2>1, AlikeKept, TickShrinks, NothingNew DEF AllShrink
  <1> QED BY <1>1, <1>2, <1>3

LEMMA SessionRedeem ==
  ASSUME ShapeInv, SessionInv, NEW k \in Key, RedeemCode(k)
  PROVE  SessionInv'
  <1>1. UNCHANGED <<auth, refresh, req>>
    BY DEF RedeemCode
  <1> QED BY <1>1, ShapeTypes, SameAlike, AlikeKept, SelfShrinks, NothingNew

LEMMA SessionAuthorize ==
  ASSUME ShapeInv, SessionInv, Authorize
  PROVE  SessionInv'
  <1>1. /\ UNCHANGED <<refresh, req>>
        /\ DOMAIN auth' = DOMAIN auth \cup {logins + 1}
    BY DEF Authorize, Saved
  <1>2. /\ \A h \in Handler : req[h].login # logins + 1
        /\ \A k \in DOMAIN refresh : refresh[k].val.login # logins + 1
    BY DEF ShapeInv, StoredInv, RequestsInv, CountsInv, Shape
  <1> QED BY <1>1, <1>2 DEF SessionInv

\* The login state becomes the request.
LEMMA SessionCallback ==
  ASSUME ShapeInv, SessionInv, NEW h \in Handler, NEW l \in Login, Callback(h, l)
  PROVE  SessionInv'
  <1>1. /\ refresh' = refresh /\ l \in DOMAIN auth
        /\ DOMAIN auth' = DOMAIN auth \ {l}
    BY WithoutFacts DEF Callback, Found
  <1>2. req'[h].login = l /\ \A g \in Handler \ {h} : Kept(g)
    BY ShapeTypes, CallbackBegins, RestKept DEF Begins
  <1> QED BY <1>1, <1>2 DEF SessionInv, Kept

\* The refresh token becomes the request.
LEMMA SessionTakeRefresh ==
  ASSUME ShapeInv, SessionInv, NEW h \in Handler, NEW k \in Key, TakeRefresh(h, k)
  PROVE  SessionInv'
  <1>1. /\ auth' = auth /\ k \in DOMAIN refresh
        /\ DOMAIN refresh' = DOMAIN refresh \ {k} /\ Shrinks(refresh, refresh')
    BY WithoutFacts DEF TakeRefresh, Found
  <1>2. CASE req' = req
    BY <1>1, <1>2, ShapeTypes, SameAlike, AlikeKept, SelfShrinks, NothingNew
  <1>3. CASE req' # req
    <2>1. req'[h].login = refresh[k].val.login /\ \A g \in Handler \ {h} : Kept(g)
      BY <1>3, ShapeTypes, RefreshBegins, RestKept DEF Begins
    <2> QED BY <1>1, <2>1 DEF SessionInv, Kept, Shrinks
  <1> QED BY <1>2, <1>3

\* The request becomes a refresh token.
LEMMA SessionSaveRefresh ==
  ASSUME ShapeInv, SessionInv, NEW h \in Handler, SaveRefresh(h)
  PROVE  SessionInv'
  <1>1. PICK n \in Key : n = drawn' /\ n = drawn + 1
    BY ShapeTypes, SaveRefreshFacts
  <1>2. /\ auth' = auth /\ Open(req[h])
        /\ DOMAIN refresh' = DOMAIN refresh \cup {n}
        /\ refresh'[n].val.login = req[h].login
        /\ \A k \in DOMAIN refresh \ {n} : refresh'[k] = refresh[k]
    BY <1>1 DEF SaveRefresh, Saved, At, Open
  <1>3. n \notin DOMAIN refresh
    BY <1>1 DEF ShapeInv, StoredInv, CountsInv
  <1>4. Rest(h) /\ ~Open(req'[h])
    BY ShapeTypes, SaveRefreshFacts, IdleFields DEF Keeps, Ends, Open
  <1>5. \A g \in Handler \ {h} : Kept(g)
    BY <1>4, RestKept
  <1> QED BY <1>2, <1>3, <1>4, <1>5 DEF SessionInv, Kept

LEMMA SessionNext == ShapeInv /\ SessionInv /\ [Next]_vars => SessionInv'
  <1> SUFFICES ASSUME ShapeInv, SessionInv, [Next]_vars PROVE SessionInv'
    OBVIOUS
  <1>1. CASE Authorize \/ Operator \/ DeleteCR \/ Restart \/ Tick
    BY <1>1, SessionAuthorize, SessionEnvironment
  <1>2. ASSUME NEW h \in Handler, Step(h) \/ CallFails(h) PROVE SessionInv'
    BY <1>2, SessionAdvance, SessionEnds, SessionSaveRefresh DEF Step
  <1>3. ASSUME NEW h \in Handler, Request(h) PROVE SessionInv'
    BY <1>3, SessionCallback, SessionTakeRefresh DEF Request
  <1>4. ASSUME NEW k \in Key, RedeemCode(k) PROVE SessionInv'
    BY <1>4, SessionRedeem
  <1>5. CASE UNCHANGED vars
    BY <1>5 DEF vars, SessionInv
  <1> QED BY <1>1, <1>2, <1>3, <1>4, <1>5 DEF Next

LEMMA SessionMeans == ASSUME ShapeInv, SessionInv PROVE OneTokenPerSession
  <1> SUFFICES ASSUME NEW l \in Login, NEW x \in Means(l), NEW y \in Means(l) PROVE x = y
    BY DEF OneTokenPerSession
  <1> DEFINE Log(z) == l \in DOMAIN auth /\ z = <<"login", l>>
             Req(z) == \E h \in Handler : Open(req[h]) /\ req[h].login = l /\ z = <<"request", h>>
             Ref(z) == \E k \in DOMAIN refresh : refresh[k].val.login = l /\ z = <<"refresh", k>>
  <1>1. \A h \in Handler : req[h].login = l /\ req[h].pc # "code" => Open(req[h])
    BY DEF ShapeInv, RequestsInv, Shape, Open, Login
  <1>2. ASSUME NEW z \in Means(l) PROVE Log(z) \/ Req(z) \/ Ref(z)
    BY <1>1, <1>2 DEF Means
  <1>3. CASE Log(x)
    BY <1>2, <1>3 DEF SessionInv
  <1>4. CASE Req(x)
    BY <1>2, <1>4 DEF SessionInv
  <1>5. CASE Ref(x)
    BY <1>2, <1>5 DEF SessionInv
  <1> QED BY <1>2, <1>3, <1>4, <1>5

\* A session never forks: whatever is replayed, fails half way or is lost, at most
\* one of its login state, a running request and a refresh token can carry it on
\* (the one-shot takes of Callback and handleRefresh, the rotation of issueTokens).
THEOREM SessionsNeverFork == Spec => []OneTokenPerSession
  <1>1. Init => SessionInv
    BY IdleFields DEF Init, SessionInv, Open, Empty
  <1>2. ShapeInv /\ SessionInv => OneTokenPerSession
    BY SessionMeans
  <1> QED BY <1>1, <1>2, SessionNext, ShapeAlways, PTL DEF Spec

-----------------------------------------------------------------------------
(* A refresh token is given out once: until then it is held by one request   *)
(* or by one code, and no client has it.                                     *)

Holds(h, k) == req[h].pc = "code" /\ req[h].key = k

GivenInv ==
  /\ \A k \in Key : given[k] <= 1 /\ (k > drawn => given[k] = 0)
  /\ \A k \in DOMAIN codes : given[k] = 0
  /\ \A h \in Handler, k \in Key : Holds(h, k) => given[k] = 0 /\ k \notin DOMAIN codes
  /\ \A g, h \in Handler, k \in Key : Holds(g, k) /\ Holds(h, k) => g = h

HeldOn(h) == \A k \in Key : Holds(h, k)' => Holds(h, k)

LEMMA NothingGiven ==
  ASSUME GivenInv, ShapeInv, UNCHANGED <<given, drawn>>, Shrinks(codes, codes'),
         \A h \in Handler : HeldOn(h)
  PROVE  GivenInv'
  BY DEF GivenInv, HeldOn, Shrinks

LEMMA AlikeHeld ==
  ASSUME NEW h \in Handler, Alike(req[h], req'[h])
  PROVE  HeldOn(h)
  BY DEF Alike, HeldOn, Holds

LEMMA RestHeld ==
  ASSUME NEW h \in Handler, Rest(h), req'[h].pc # "code"
  PROVE  \A g \in Handler : HeldOn(g)
  <1>1. HeldOn(h)
    BY DEF HeldOn, Holds
  <1> QED BY <1>1, AlikeHeld DEF Rest

LEMMA GivenStep ==
  ASSUME ShapeInv, GivenInv, NEW h \in Handler,
         \/ Authenticate(h) \/ UpsertGet(h) \/ UpsertPut(h) \/ WaitBinded(h) \/ Mint(h)
         \/ UpsertConflict(h) \/ WaitFails(h) \/ CallFails(h)
  PROVE  GivenInv'
  <1>1. UNCHANGED <<stores, given, drawn>>
    BY DEF Authenticate, UpsertGet, UpsertPut, WaitBinded, Mint, UpsertConflict, WaitFails,
           CallFails
  <1>2. Rest(h) /\ req'[h].pc # "code"
    <2>1. CASE UpsertConflict(h) \/ WaitFails(h) \/ CallFails(h)
      BY <2>1, ShapeTypes, StepEnds, IdleFields DEF Ends
    <2>2. CASE \/ Authenticate(h) \/ UpsertGet(h) \/ UpsertPut(h) \/ WaitBinded(h) \/ Mint(h)
      BY <2>2, ShapeTypes, StepAdvances DEF Advance
    <2> QED BY <2>1, <2>2
  <1> QED BY <1>1, <1>2, RestHeld, SameShrinks, NothingGiven DEF AllShrink

LEMMA GivenRequest ==
  ASSUME ShapeInv, GivenInv, NEW h \in Handler, Request(h)
  PROVE  GivenInv'
  <1>1. UNCHANGED <<codes, given, drawn>>
    BY DEF Request, Callback, TakeRefresh
  <1>2. CASE req' = req
    BY <1>1, <1>2, ShapeTypes, SameAlike, AlikeHeld, SelfShrinks, NothingGiven DEF AllAlike
  <1>3. CASE req' # req
    <2>1. \E pc \in {"authenticate", "get"}, l \in Nat : Begins(h, pc, l)
      <3>1. ASSUME NEW l \in Login, Callback(h, l) PROVE Begins(h, "authenticate", l) /\ l \in Nat
        BY <3>1, ShapeTypes, CallbackBegins DEF Login
      <3>2. ASSUME NEW k \in Key, TakeRefresh(h, k)
            PROVE  Begins(h, "get", refresh[k].val.login) /\ refresh[k].val.login \in Nat
        BY <1>3, <3>2, ShapeTypes, RefreshBegins DEF ShapeInv, StoredInv
      <3> QED BY <3>1, <3>2 DEF Request
    <2> QED BY <1>1, <2>1, RestHeld, SelfShrinks, NothingGiven DEF Begins
  <1> QED BY <1>2, <1>3

LEMMA GivenEnvironment ==
  ASSUME ShapeInv, GivenInv, Authorize \/ Operator \/ DeleteCR \/ Restart \/ Tick
  PROVE  GivenInv'
  <1>1. CASE Operator \/ DeleteCR
    <2>1. UNCHANGED <<stores, given, drawn>>
      BY <1>1 DEF Operator, OperatorBinds, OperatorFails, OperatorUnbinds, DeleteCR
    <2> QED BY <1>1, <2>1, ShapeTypes, OperatorAlike, AlikeHeld, SameShrinks, NothingGiven
            DEF AllShrink, AllAlike
  <1>2. CASE Restart
    <2>1. \A h \in Handler : req'[h] = Idle
      BY <1>2 DEF Restart
    <2>2. \A h \in Handler : HeldOn(h)
      BY <2>1, IdleFields DEF HeldOn, Holds
    <2>3. UNCHANGED <<given, drawn>>
      BY <1>2 DEF Restart
    <2> QED BY <1>2, <2>2, <2>3, RestartShrinks, NothingGiven DEF AllShrink
  <1>3. CASE Tick
    <2>1. AllAlike /\ UNCHANGED <<given, drawn>>
      BY <1>3, ShapeTypes, SameAlike DEF Tick
    <2> QED BY <1>3, <2>1, AlikeHeld, TickShrinks, NothingGiven DEF AllShrink, AllAlike
  <1>4. CASE Authorize
    <2>1. AllAlike /\ UNCHANGED <<codes, given, drawn>>
      BY <1>4, ShapeTypes, SameAlike DEF Authorize
    <2> QED BY <2>1, AlikeHeld, SelfShrinks, NothingGiven DEF AllAlike
  <1> QED BY <1>1, <1>2, <1>3, <1>4

\* The request hands the token to its code.
LEMMA GivenSaveCode ==
  ASSUME ShapeInv, GivenInv, NEW h \in Handler, SaveCode(h)
  PROVE  GivenInv'
  <1>1. PICK n \in Key : Holds(h, n)
    BY BoundsAssumption DEF SaveCode, At, Holds, ShapeInv, RequestsInv, Shape, CountsInv, Key
  <1>2. UNCHANGED <<given, drawn>> /\ DOMAIN codes' = DOMAIN codes \cup {n}
    BY <1>1 DEF SaveCode, Saved, Holds
  <1>3. Ends(h)
    BY ShapeTypes, FinishEnds DEF SaveCode
  <1>4. \A k \in Key : ~Holds(h, k)'
    BY <1>3, IdleFields DEF Ends, Holds
  <1>5. \A g \in Handler \ {h} : HeldOn(g)
    BY <1>3, AlikeHeld DEF Ends, Rest
  <1> QED BY <1>1, <1>2, <1>4, <1>5 DEF GivenInv, HeldOn

\* The code is taken, whether or not its token arrives.
LEMMA GivenRedeem ==
  ASSUME ShapeInv, GivenInv, NEW n \in Key, RedeemCode(n)
  PROVE  GivenInv'
  <1>1. /\ UNCHANGED <<req, drawn>> /\ DOMAIN codes' = DOMAIN codes \ {n} /\ n \in DOMAIN codes
        /\ given' = given \/ given' = [given EXCEPT ![n] = @ + 1]
    BY WithoutFacts DEF RedeemCode, Found
  <1>2. n <= drawn /\ given \in [Key -> Nat] /\ DOMAIN codes \subseteq Key
    BY <1>1, BoundsAssumption DEF ShapeInv, StoredInv, CountsInv, Key
  <1>3. \A h \in Handler : HeldOn(h)
    BY <1>1, ShapeTypes, SameAlike, AlikeHeld DEF AllAlike
  <1>4. given'[n] <= 1 /\ \A k \in Key \ {n} : given'[k] = given[k]
    BY <1>1, <1>2 DEF GivenInv
  <1>5. \A k \in Key : given'[k] <= 1 /\ (k > drawn' => given'[k] = 0)
    BY <1>1, <1>2, <1>4 DEF GivenInv, ShapeInv, CountsInv, Key
  <1> QED BY <1>1, <1>2, <1>3, <1>4, <1>5 DEF GivenInv, HeldOn

\* A token is drawn: the answer to a refresh gives it out, a login holds it.
LEMMA GivenSaveRefresh ==
  ASSUME ShapeInv, GivenInv, NEW h \in Handler, SaveRefresh(h)
  PROVE  GivenInv'
  <1>1. PICK n \in Key : n = drawn' /\ n = drawn + 1
    BY ShapeTypes, SaveRefreshFacts
  <1>2. /\ codes' = codes
        /\ \/ Keeps(h, n) /\ given' = given
           \/ Ends(h) /\ (given' = given \/ given' = [given EXCEPT ![n] = @ + 1])
    BY <1>1, ShapeTypes, SaveRefreshFacts DEF SaveRefresh
  <1>3. /\ drawn \in Nat /\ given \in [Key -> Nat] /\ n \notin DOMAIN codes
        /\ DOMAIN codes \subseteq Key
    <2>1. drawn \in Nat /\ DOMAIN codes \subseteq 1..drawn /\ DOMAIN codes \subseteq Key
      BY Ranges DEF ShapeInv, StoredInv
    <2>2. n \notin 1..drawn
      BY <1>1, <2>1
    <2> QED BY <2>1, <2>2 DEF ShapeInv, CountsInv
  <1>4. \A g \in Handler : ~Holds(g, n)
    BY <1>1, <1>3 DEF Holds, ShapeInv, RequestsInv, Shape
  <1>5. given[n] = 0
    BY <1>1, <1>3 DEF GivenInv
  <1>6. /\ \A k \in Key \ {n} : given'[k] = given[k]
        /\ given'[n] <= 1
    BY <1>2, <1>3, <1>5
  <1>7. \A k \in Key : given'[k] <= 1 /\ (k > drawn' => given'[k] = 0)
    BY <1>1, <1>3, <1>6 DEF GivenInv, Key
  <1>8. \A g \in Handler \ {h} : HeldOn(g)
    BY <1>2, AlikeHeld DEF Keeps, Ends, Rest
  <1>9. CASE Keeps(h, n) /\ given' = given
    <2>1. \A k \in Key : Holds(h, k)' => k = n
      BY <1>9 DEF Keeps, Holds
    <2> QED BY <1>2, <1>3, <1>4, <1>5, <1>7, <1>8, <1>9, <2>1 DEF GivenInv, HeldOn
  <1>10. CASE Ends(h)
    <2>1. \A k \in Key : ~Holds(h, k)'
      BY <1>10, IdleFields DEF Ends, Holds
    <2> QED BY <1>2, <1>3, <1>4, <1>6, <1>7, <1>8, <2>1 DEF GivenInv, HeldOn
  <1> QED BY <1>2, <1>9, <1>10

LEMMA GivenNext == ShapeInv /\ GivenInv /\ [Next]_vars => GivenInv'
  <1> SUFFICES ASSUME ShapeInv, GivenInv, [Next]_vars PROVE GivenInv'
    OBVIOUS
  <1>1. CASE Authorize \/ Operator \/ DeleteCR \/ Restart \/ Tick
    BY <1>1, GivenEnvironment
  <1>2. ASSUME NEW h \in Handler, Step(h) \/ CallFails(h) PROVE GivenInv'
    BY <1>2, GivenStep, GivenSaveCode, GivenSaveRefresh DEF Step
  <1>3. ASSUME NEW h \in Handler, Request(h) PROVE GivenInv'
    BY <1>3, GivenRequest
  <1>4. ASSUME NEW k \in Key, RedeemCode(k) PROVE GivenInv'
    BY <1>4, GivenRedeem
  <1>5. CASE UNCHANGED vars
    BY <1>5 DEF vars, GivenInv, Holds
  <1> QED BY <1>1, <1>2, <1>3, <1>4, <1>5 DEF Next

\* However often codes and refreshes are repeated, and whatever fails, no two
\* responses carry the same refresh token (issueTokens and handleAuthCode).
THEOREM RefreshTokensGivenOnce == Spec => []GivenOnce
  <1>1. Init => GivenInv
    BY IdleFields DEF Init, GivenInv, Holds, Empty
  <1>2. GivenInv => GivenOnce
    BY DEF GivenInv, GivenOnce
  <1> QED BY <1>1, <1>2, GivenNext, ShapeAlways, PTL DEF Spec

-----------------------------------------------------------------------------
(* A session and the bind share one window.  How long ago the CR was renewed *)
(* is known at every call that follows the Upsert, from the patience of the  *)
(* calls; and a token that outlived a deleted CR is older than the next one. *)

Timely(r) ==
  /\ r.since <= now
  /\ r.pc # "idle" => now <= r.since + Patience(r.pc)
  /\ cr.phase # "absent" =>
       /\ r.pc = "wait" => r.since <= cr.renewed
       /\ r.pc = "mint" => r.since <= cr.renewed + WaitTimeout
       /\ r.pc = "save" => r.since <= cr.renewed + WaitTimeout + MaxDelay

Lasts(exp) ==
  /\ exp <= now + RefreshTTL
  /\ cr.phase # "absent" => exp <= cr.renewed + RefreshTTL + WaitTimeout + 2 * MaxDelay

WindowInv ==
  /\ cr.renewed <= now
  /\ \A h \in Handler : Timely(req[h])
  /\ \A k \in DOMAIN refresh : Lasts(refresh[k].exp)

LEMMA Numbers ==
  ASSUME ShapeInv
  PROVE  /\ now \in Nat /\ cr.renewed \in Nat
         /\ \A h \in Handler : req[h].since \in Nat
         /\ \A k \in DOMAIN refresh : refresh[k].exp \in Nat
         /\ WaitTimeout \in Nat /\ MaxDelay \in Nat /\ RefreshTTL \in Nat /\ BindTTL \in Nat
  <1>1. WaitTimeout \in Nat /\ MaxDelay \in Nat /\ RefreshTTL \in Nat /\ BindTTL \in Nat
    BY BoundsAssumption, TTLAssumption
  <1>2. now \in Nat /\ cr.renewed \in Nat
    BY BoundsAssumption DEF ShapeInv, CountsInv, Time, Bind
  <1>3. ASSUME NEW h \in Handler PROVE req[h].since \in Nat
    <2>1. req[h] \in Serving
      BY DEF ShapeInv, RequestsInv
    <2>2. req[h].since \in Time
      BY <2>1 DEF Serving
    <2> QED BY <2>2, BoundsAssumption DEF Time
  <1>4. \A k \in DOMAIN refresh : refresh[k].exp \in Nat
    BY DEF ShapeInv, StoredInv
  <1> QED BY <1>1, <1>2, <1>3, <1>4

\* No time passes, and the CR stays as it was, is gone or is renewed.
Renews ==
  /\ now' = now /\ cr'.renewed \in Nat /\ cr'.renewed <= now
  /\ cr'.phase # "absent" =>
       cr'.renewed = now \/ (cr.phase # "absent" /\ cr'.renewed = cr.renewed)

LEMMA SameRenews ==
  ASSUME ShapeInv, WindowInv, UNCHANGED <<cr, now>>
  PROVE  Renews
  BY Numbers DEF Renews, WindowInv

LEMMA AlikeTimely ==
  ASSUME ShapeInv, WindowInv, Renews, NEW g \in Handler, Alike(req[g], req'[g])
  PROVE  Timely(req[g])'
  <1>1. Timely(req[g])
    BY DEF WindowInv
  <1> QED BY <1>1, Numbers DEF Renews, Timely, Alike, Patience

LEMMA OldLasts ==
  ASSUME ShapeInv, WindowInv, Renews, NEW k \in DOMAIN refresh
  PROVE  Lasts(refresh[k].exp) /\ \A e : e = refresh[k].exp => Lasts(e)'
  <1>1. Lasts(refresh[k].exp)
    BY DEF WindowInv
  <1> QED BY <1>1, Numbers DEF Renews, Lasts

LEMMA ShrinkLasts ==
  ASSUME ShapeInv, WindowInv, Renews, Shrinks(refresh, refresh')
  PROVE  \A k \in DOMAIN refresh' : Lasts(refresh[k].exp)'
  BY OldLasts DEF Shrinks, Lasts

LEMMA IdleTimely ==
  ASSUME ShapeInv, NEW h \in Handler, req'[h] = Idle, now' \in Nat
  PROVE  Timely(req[h])'
  <1>1. req'[h].pc = "idle" /\ req'[h].since = 0
    BY IdleFields
  <1> QED BY <1>1 DEF Timely

LEMMA WindowHolds ==
  ASSUME ShapeInv, WindowInv, Renews, Shrinks(refresh, refresh'),
         \A h \in Handler : Timely(req[h])'
  PROVE  WindowInv'
  BY ShrinkLasts DEF WindowInv, Renews

LEMMA WindowOne ==
  ASSUME ShapeInv, WindowInv, Renews, Shrinks(refresh, refresh'),
         NEW h \in Handler, Rest(h), Timely(req[h])'
  PROVE  WindowInv'
  BY WindowHolds, AlikeTimely DEF Rest

LEMMA WindowAlike ==
  ASSUME ShapeInv, WindowInv, Renews, Shrinks(refresh, refresh'), AllAlike
  PROVE  WindowInv'
  BY WindowHolds, AlikeTimely DEF AllAlike

LEMMA WindowEnds ==
  ASSUME ShapeInv, WindowInv, NEW h \in Handler,
         UpsertConflict(h) \/ WaitFails(h) \/ CallFails(h) \/ SaveCode(h)
  PROVE  WindowInv'
  <1>1. UNCHANGED <<refresh, cr, now>>
    BY DEF UpsertConflict, WaitFails, CallFails, SaveCode, stores
  <1>2. Ends(h)
    BY ShapeTypes, FinishEnds DEF UpsertConflict, WaitFails, CallFails, SaveCode
  <1>3. Timely(req[h])'
    BY <1>1, <1>2, IdleTimely, Numbers DEF Ends
  <1> QED BY <1>1, <1>2, <1>3, SameRenews, SelfShrinks, WindowOne DEF Ends

\* A call that just began is timely wherever the renewal does not matter.
LEMMA NewTimely ==
  ASSUME ShapeInv, NEW h \in Handler, now' = now, req'[h].since = now,
         req'[h].pc \notin {"wait", "mint", "save"}
  PROVE  Timely(req[h])'
  BY Numbers DEF Timely, Patience

LEMMA WindowRequest ==
  ASSUME ShapeInv, WindowInv, NEW h \in Handler, Request(h)
  PROVE  WindowInv'
  <1>1. UNCHANGED <<cr, now>> /\ Shrinks(refresh, refresh')
    <2>1. ASSUME NEW l \in Login, Callback(h, l)
          PROVE  UNCHANGED <<cr, now>> /\ Shrinks(refresh, refresh')
      BY <2>1, SelfShrinks DEF Callback
    <2>2. ASSUME NEW k \in Key, TakeRefresh(h, k)
          PROVE  UNCHANGED <<cr, now>> /\ Shrinks(refresh, refresh')
      BY <2>2, WithoutFacts DEF TakeRefresh
    <2> QED BY <2>1, <2>2 DEF Request
  <1>2. CASE req' = req
    BY <1>1, <1>2, ShapeTypes, SameAlike, SameRenews, WindowAlike
  <1>3. CASE req' # req
    <2>1. Rest(h) /\ req'[h].since = now /\ req'[h].pc \in {"authenticate", "get"}
      <3>1. ASSUME NEW l \in Login, Callback(h, l) PROVE Begins(h, "authenticate", l)
        BY <3>1, ShapeTypes, CallbackBegins
      <3>2. ASSUME NEW k \in Key, TakeRefresh(h, k)
            PROVE  Begins(h, "get", refresh[k].val.login)
        BY <1>3, <3>2, ShapeTypes, RefreshBegins
      <3> QED BY <3>1, <3>2 DEF Request, Begins
    <2> QED BY <1>1, <2>1, NewTimely, SameRenews, WindowOne
  <1> QED BY <1>2, <1>3

LEMMA WindowEnvironment ==
  ASSUME ShapeInv, WindowInv, Authorize \/ Operator \/ DeleteCR \/ Restart
  PROVE  WindowInv'
  <1>1. CASE Authorize
    <2>1. UNCHANGED <<refresh, req, cr, now>>
      BY <1>1 DEF Authorize
    <2> QED BY <2>1, ShapeTypes, SameAlike, SameRenews, SelfShrinks, WindowAlike
  <1>2. CASE Operator \/ DeleteCR
    <2>1. UNCHANGED <<stores, now>>
      BY <1>2 DEF Operator, OperatorBinds, OperatorFails, OperatorUnbinds, DeleteCR
    <2>2. Renews
      <3>1. cr \in Bind /\ cr' \in Bind
        BY <1>2, OperatorTypes DEF ShapeInv, CountsInv
      <3>2. CASE Operator
        <4>1. cr.phase # "absent" /\ cr'.renewed = cr.renewed
          BY <3>1, <3>2 DEF Operator, OperatorBinds, OperatorFails, OperatorUnbinds, Bind
        <4> QED BY <2>1, <4>1, Numbers DEF Renews, WindowInv
      <3>3. CASE DeleteCR
        <4>1. cr'.phase = "absent" /\ cr'.renewed = 0
          BY <3>3 DEF DeleteCR, Absent
        <4> QED BY <2>1, <4>1, Numbers DEF Renews
      <3> QED BY <1>2, <3>2, <3>3
    <2> QED BY <1>2, <2>1, <2>2, ShapeTypes, OperatorAlike, SameShrinks, WindowAlike
            DEF AllShrink
  <1>3. CASE Restart
    <2>1. UNCHANGED <<cr, now>> /\ \A h \in Handler : req'[h] = Idle
      BY <1>3 DEF Restart
    <2>2. \A h \in Handler : Timely(req[h])'
      BY <2>1, IdleTimely, Numbers
    <2> QED BY <1>3, <2>1, <2>2, RestartShrinks, SameRenews, WindowHolds DEF AllShrink
  <1> QED BY <1>1, <1>2, <1>3

LEMMA WindowTick ==
  ASSUME ShapeInv, WindowInv, Tick
  PROVE  WindowInv'
  <1>1. UNCHANGED <<req, cr>> /\ now' = now + 1 /\ Shrinks(refresh, refresh')
    BY TickShrinks DEF Tick, AllShrink
  <1>2. ASSUME NEW h \in Handler PROVE Timely(req[h])'
    <2>1. Timely(req[h]) /\ (req[h].pc # "idle" => now < req[h].since + Patience(req[h].pc))
      BY DEF WindowInv, Tick, At
    <2> QED BY <1>1, <2>1, Numbers DEF Timely, Patience
  <1>3. ASSUME NEW k \in DOMAIN refresh PROVE \A e : e = refresh[k].exp => Lasts(e)'
    <2>1. Lasts(refresh[k].exp)
      BY DEF WindowInv
    <2> QED BY <1>1, <2>1, Numbers DEF Lasts
  <1>4. \A k \in DOMAIN refresh' : Lasts(refresh[k].exp)'
    BY <1>1, <1>3 DEF Shrinks, Lasts
  <1> QED BY <1>1, <1>2, <1>4, Numbers DEF WindowInv

\* The calls of the issue, from the renewal on.
LEMMA WindowAdvance ==
  ASSUME ShapeInv, WindowInv, NEW h \in Handler,
         \/ Authenticate(h) \/ UpsertGet(h) \/ UpsertPut(h) \/ WaitBinded(h) \/ Mint(h)
  PROVE  WindowInv'
  <1>1. now' = now /\ Shrinks(refresh, refresh')
    BY SelfShrinks DEF Authenticate, UpsertGet, UpsertPut, WaitBinded, Mint, stores
  <1>2. Timely(req[h])
    BY DEF WindowInv
  <1>3. CASE Authenticate(h) \/ UpsertGet(h)
    <2>1. \E from \in Busy, to \in {"get", "put"} : Advance(h, from, to)
      BY <1>3, ShapeTypes, AuthenticateAdvances, GetAdvances DEF Busy
    <2>2. Rest(h) /\ req'[h].since = now /\ req'[h].pc \in {"get", "put"}
      BY <2>1 DEF Advance
    <2>3. UNCHANGED <<cr, now>>
      BY <1>3 DEF Authenticate, UpsertGet
    <2> QED BY <1>1, <2>2, <2>3, NewTimely, SameRenews, WindowOne
  <1>4. CASE UpsertPut(h)
    <2>1. Rest(h) /\ req'[h].since = now /\ req'[h].pc = "wait"
      BY <1>4, ShapeTypes, PutAdvances DEF Advance
    <2>2. cr'.renewed = now
      BY <1>4 DEF UpsertPut, ShapeInv, CountsInv, Bind
    <2>3. Renews
      BY <1>1, <2>2, Numbers DEF Renews
    <2>4. now <= now + WaitTimeout /\ now <= now
      BY Numbers
    <2>5. Timely(req[h])'
      BY <1>1, <2>1, <2>2, <2>4 DEF Timely, Patience
    <2> QED BY <1>1, <2>1, <2>3, <2>5, WindowOne
  <1>5. CASE WaitBinded(h)
    <2>0. Advance(h, "wait", "mint") /\ UNCHANGED <<cr, now>> /\ cr.phase # "absent"
      BY <1>5, ShapeTypes, WaitAdvances DEF WaitBinded
    <2>1. /\ Rest(h) /\ req[h].pc = "wait" /\ req'[h].since = now /\ req'[h].pc = "mint"
          /\ UNCHANGED <<cr, now>> /\ cr.phase # "absent"
      BY <2>0 DEF Advance
    <2>2. now <= cr.renewed + WaitTimeout
      <3>1. req[h].since <= cr.renewed /\ now <= req[h].since + WaitTimeout
        BY <1>2, <2>1 DEF Timely, Patience
      <3> QED BY <3>1, Numbers
    <2>3. now <= now + MaxDelay
      BY Numbers
    <2>4. Timely(req[h])'
      BY <2>1, <2>2, <2>3, Numbers DEF Timely, Patience
    <2> QED BY <1>1, <2>1, <2>4, SameRenews, WindowOne
  <1>6. CASE Mint(h)
    <2>0. Advance(h, "mint", "save") /\ UNCHANGED <<cr, now>>
      BY <1>6, ShapeTypes, MintAdvances DEF Mint
    <2>1. /\ Rest(h) /\ req[h].pc = "mint" /\ req'[h].since = now /\ req'[h].pc = "save"
          /\ UNCHANGED <<cr, now>>
      BY <2>0 DEF Advance
    <2>2. cr.phase # "absent" => now <= cr.renewed + WaitTimeout + MaxDelay
      <3>1. /\ cr.phase # "absent" => req[h].since <= cr.renewed + WaitTimeout
            /\ now <= req[h].since + MaxDelay
        BY <1>2, <2>1 DEF Timely, Patience
      <3> QED BY <3>1, Numbers
    <2>3. now <= now + MaxDelay
      BY Numbers
    <2>4. Timely(req[h])'
      BY <2>1, <2>2, <2>3, Numbers DEF Timely, Patience
    <2> QED BY <1>1, <2>1, <2>4, SameRenews, WindowOne
  <1> QED BY <1>3, <1>4, <1>5, <1>6

LEMMA WindowSaveRefresh ==
  ASSUME ShapeInv, WindowInv, NEW h \in Handler, SaveRefresh(h)
  PROVE  WindowInv'
  <1>1. UNCHANGED <<cr, now>> /\ Renews
    BY SameRenews DEF SaveRefresh
  <1>2. PICK n \in Key : n = drawn'
    BY ShapeTypes, SaveRefreshFacts
  <1>3. /\ DOMAIN refresh' = DOMAIN refresh \cup {n} /\ refresh'[n].exp = now + RefreshTTL
        /\ \A k \in DOMAIN refresh \ {n} : refresh'[k] = refresh[k]
    BY <1>2 DEF SaveRefresh, Saved
  <1>4. \A g \in Handler : Timely(req[g])'
    <2>1. Rest(h) /\ Timely(req[h])'
      <3>1. CASE Ends(h)
        BY <1>1, <3>1, IdleTimely, Numbers DEF Ends
      <3>2. CASE Keeps(h, n)
        BY <1>1, <3>2, NewTimely DEF Keeps
      <3> QED BY <1>2, <3>1, <3>2, ShapeTypes, SaveRefreshFacts DEF Ends, Keeps
    <2> QED BY <1>1, <2>1, AlikeTimely DEF Rest
  <1>5. \A e : e = now + RefreshTTL => Lasts(e)'
    <2>1. Timely(req[h]) /\ req[h].pc = "save"
      BY DEF WindowInv, SaveRefresh, At
    <2> QED BY <1>1, <2>1, Numbers DEF Timely, Patience, Lasts
  <1>6. \A k \in DOMAIN refresh' : Lasts(refresh[k].exp)'
    BY <1>1, <1>3, <1>5, OldLasts DEF Lasts
  <1> QED BY <1>1, <1>4, <1>6 DEF WindowInv, Renews

LEMMA WindowNext == ShapeInv /\ WindowInv /\ [Next]_vars => WindowInv'
  <1> SUFFICES ASSUME ShapeInv, WindowInv, [Next]_vars PROVE WindowInv'
    OBVIOUS
  <1>1. CASE Authorize \/ Operator \/ DeleteCR \/ Restart \/ Tick
    BY <1>1, WindowEnvironment, WindowTick
  <1>2. ASSUME NEW h \in Handler, Step(h) \/ CallFails(h) PROVE WindowInv'
    BY <1>2, WindowAdvance, WindowEnds, WindowSaveRefresh DEF Step
  <1>3. ASSUME NEW h \in Handler, Request(h) PROVE WindowInv'
    BY <1>3, WindowRequest
  <1>4. ASSUME NEW k \in Key, RedeemCode(k) PROVE WindowInv'
    <2>1. UNCHANGED <<refresh, req, cr, now>>
      BY <1>4 DEF RedeemCode
    <2> QED BY <2>1, ShapeTypes, SameAlike, SameRenews, SelfShrinks, WindowAlike
  <1>5. CASE UNCHANGED vars
    BY <1>5 DEF vars, WindowInv, Timely, Lasts
  <1> QED BY <1>1, <1>2, <1>3, <1>4, <1>5 DEF Next

\* While the CR exists, no refresh token outlives the bind by more than issuing it
\* took after the renewal (issueTokens renews the CR before it saves the token).
THEOREM SessionsEndWithTheBind == Spec => []SharedWindow
  <1>1. Init => WindowInv
    <2>1. ASSUME Init PROVE cr.renewed <= now /\ now = 0 /\ DOMAIN refresh = {}
      BY <2>1 DEF Init, Absent, Empty
    <2>2. ASSUME Init, NEW h \in Handler PROVE Timely(req[h])
      <3>1. req[h].pc = "idle" /\ req[h].since = 0
        BY <2>2, IdleFields DEF Init
      <3> QED BY <2>1, <2>2, <3>1 DEF Timely
    <2> QED BY <2>1, <2>2 DEF WindowInv
  <1>2. ASSUME ShapeInv, WindowInv PROVE SharedWindow
    <2> SUFFICES ASSUME cr.phase # "absent", RefreshTTL <= BindTTL, NEW k \in DOMAIN refresh
                 PROVE  refresh[k].exp <= cr.renewed + BindTTL + WaitTimeout + 2 * MaxDelay
      BY DEF SharedWindow
    <2>1. Lasts(refresh[k].exp)
      BY <1>2 DEF WindowInv
    <2> QED BY <1>2, <2>1, Numbers DEF Lasts
  <1>3. ShapeInv /\ WindowInv => SharedWindow
    BY <1>2
  <1> QED BY <1>1, <1>3, WindowNext, ShapeAlways, PTL DEF Spec
=============================================================================
