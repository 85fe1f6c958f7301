------------------------- MODULE TokenProxyProofs -------------------------
(***************************************************************************)
(* The proxy's cache is safe for every token lifetime, as long as the      *)
(* delay of an answer fits into the fifth of the lifetime that the cache   *)
(* gives away.                                                             *)
(***************************************************************************)
EXTENDS TokenProxy, TLAPS

\* A token was issued while its ServiceAccount lived.
Genuine(t) ==
  /\ t.uid \in 1..uids /\ t.issued <= now
  /\ gone[t.uid] # Never => t.issued <= gone[t.uid]

\* A uid belongs to one account, and is not reused once it is gone.
AccountsInv ==
  /\ \A u \in 1..MaxUid : u > uids => gone[u] = Never
  /\ \A a \in Account :
       live[a] # 0 => live[a] \in 1..uids /\ gone[live[a]] = Never
  /\ \A a, b \in Account : live[a] = live[b] /\ live[a] # 0 => a = b

\* An entry expires no later than MaxLatency + cacheTTL after its token's issue.
CacheInv ==
  \A a \in DOMAIN cache :
    /\ cache[a].token.sa = a /\ Genuine(cache[a].token)
    /\ cache[a].exp <= cache[a].token.issued + MaxLatency + CacheTTL

\* An answer that is on its way is not late.
AnswerInv ==
  \A h \in Handler : req[h].pc = "answered" =>
    /\ req[h].token.sa = req[h].sa /\ Genuine(req[h].token)
    /\ now <= req[h].token.issued + MaxLatency

OutInv ==
  out.kind = "swapped" =>
    /\ out.token.sa = out.sa /\ Genuine(out.token)
    /\ out.at < Expires(out.token)
    /\ out.at <= out.token.issued + MaxLatency + CacheTTL

ProxyInv == TypeOK /\ AccountsInv /\ CacheInv /\ AnswerInv /\ OutInv

\* The cache gives away at least a second, and no more than the lifetime.
LEMMA TimesTyped ==
  /\ CacheTTL \in Nat /\ CacheTTL >= 1 /\ Lifetime \in Nat
  /\ MaxLatency \in Nat /\ MaxLatency + CacheTTL <= Lifetime
  <1>1. ASSUME NEW n \in Nat \ {0, 1} PROVE (n * 8) \div 10 \in Nat /\ (n * 8) \div 10 >= 1
    OBVIOUS
  <1> QED BY <1>1, BoundsAssumption, LatencyAssumption DEF CacheTTL, Lifetime

\* A handler is idle, or asks for a token, or has one coming.
LEMMA HandlerStates ==
  ASSUME TypeOK, NEW h \in Handler
  PROVE  /\ req[h].pc = "mint" => req[h].sa \in Account
         /\ req[h].pc = "answered" => req[h].sa \in Account /\ req[h].token \in Token
  BY DEF TypeOK, Busy, Idle

LEMMA SwappedTyped == ASSUME TypeOK, out.kind = "swapped"
                      PROVE  out.token \in Token /\ out.sa \in Account /\ out.at \in Nat
  BY DEF TypeOK, Out

-----------------------------------------------------------------------------
(* Type correctness.                                                       *)

LEMMA TypeNext == TypeOK /\ [Next]_vars => TypeOK'
  <1> SUFFICES ASSUME TypeOK, [Next]_vars PROVE TypeOK'
    OBVIOUS
  <1>0. CacheTTL \in Nat
    BY TimesTyped
  <1>1. ASSUME NEW h \in Handler, PassThrough(h) PROVE TypeOK'
    BY <1>1 DEF PassThrough, TypeOK, Out
  <1>2. ASSUME NEW h \in Handler, NEW sa \in Account, Hit(h, sa) PROVE TypeOK'
    <2>1. cache[sa].token \in Token
      BY <1>2 DEF Hit, Cached, TypeOK, CacheEntry
    <2> QED BY <1>2, <2>1 DEF Hit, Forward, TypeOK, Out
  <1>3. ASSUME NEW h \in Handler, NEW sa \in Account, Miss(h, sa) PROVE TypeOK'
    <2>1. [pc |-> "mint", sa |-> sa] \in Busy
      BY DEF Busy
    <2> QED BY <1>3, <2>1 DEF Miss, Become, TypeOK
  <1>4. ASSUME NEW h \in Handler, Issue(h) PROVE TypeOK'
    <2>1. req[h].sa \in Account
      BY <1>4, HandlerStates DEF Issue
    <2> DEFINE b == [pc |-> "answered", sa |-> req[h].sa,
                     token |-> [sa |-> req[h].sa, uid |-> live[req[h].sa], issued |-> now]]
    <2>2. b \in Busy
      BY <2>1 DEF Busy, Token, TypeOK
    <2>3. req' = [req EXCEPT ![h] = b]
      BY <1>4 DEF Issue, Become
    <2> HIDE DEF b
    <2> QED BY <1>4, <2>2, <2>3 DEF Issue, TypeOK
  <1>5. ASSUME NEW h \in Handler, MintFails(h) PROVE TypeOK'
    BY <1>5 DEF MintFails, Become, TypeOK, Out
  <1>6. ASSUME NEW h \in Handler, Mint(h) PROVE TypeOK'
    <2>1. req[h].sa \in Account /\ req[h].token \in Token
      BY <1>6, HandlerStates DEF Mint
    <2>2. Entry(req[h].token) \in CacheEntry
      BY <1>0, <2>1 DEF Entry, CacheEntry, TypeOK
    <2>3. DOMAIN cache' \subseteq Account /\ cache' \in [DOMAIN cache' -> CacheEntry]
      BY <1>6, <2>1, <2>2 DEF Mint, TypeOK
    <2>4. out' \in Out /\ req' \in [Handler -> Busy \cup {Idle}]
      BY <1>6, <2>1 DEF Mint, Forward, Become, Out, TypeOK
    <2> QED BY <1>6, <2>3, <2>4 DEF Mint, TypeOK
  <1>7. ASSUME NEW sa \in Account, CreateSA(sa) PROVE TypeOK'
    BY <1>7, BoundsAssumption DEF CreateSA, TypeOK
  <1>8. ASSUME NEW sa \in Account, DeleteSA(sa) PROVE TypeOK'
    BY <1>8, BoundsAssumption DEF DeleteSA, TypeOK
  <1>9. CASE Restart
    BY <1>9 DEF Restart, TypeOK
  <1>10. CASE Tick
    BY <1>10 DEF Tick, TypeOK
  <1>11. CASE UNCHANGED vars
    BY <1>11 DEF vars, TypeOK
  <1> QED BY <1>1, <1>2, <1>3, <1>4, <1>5, <1>6, <1>7, <1>8, <1>9, <1>10, <1>11 DEF Next

-----------------------------------------------------------------------------
(* The inductive invariant.                                                *)

\* Nothing makes a genuine token a forged one: uids are not reused, and an
\* account is deleted after the tokens it was issued.
LEMMA StaysGenuine ==
  ASSUME ProxyInv, Next, NEW t \in Token, Genuine(t)
  PROVE  Genuine(t)'
  <1>0. TypeOK /\ TypeOK'
    BY TypeNext DEF ProxyInv
  <1>1. CASE UNCHANGED <<uids, gone, now>>
    BY <1>1 DEF Genuine
  <1>2. ASSUME NEW sa \in Account, CreateSA(sa) PROVE Genuine(t)'
    BY <1>0, <1>2 DEF CreateSA, Genuine, TypeOK
  <1>3. ASSUME NEW sa \in Account, DeleteSA(sa) PROVE Genuine(t)'
    BY <1>0, <1>3 DEF DeleteSA, Genuine, TypeOK, Token
  <1>4. CASE Tick
    BY <1>0, <1>4 DEF Tick, Genuine, TypeOK, Token
  <1> QED BY <1>1, <1>2, <1>3, <1>4
          DEF Next, PassThrough, Hit, Miss, Issue, MintFails, Mint, Restart

LEMMA AccountsNext == ProxyInv /\ Next => AccountsInv'
  <1> SUFFICES ASSUME ProxyInv, Next PROVE AccountsInv'
    OBVIOUS
  <1>0. TypeOK /\ AccountsInv
    BY DEF ProxyInv
  <1>1. CASE UNCHANGED <<uids, gone, live>>
    BY <1>0, <1>1 DEF AccountsInv
  <1>2. ASSUME NEW sa \in Account, CreateSA(sa) PROVE AccountsInv'
    <2>1. /\ uids' = uids + 1 /\ uids + 1 \in 1..MaxUid /\ UNCHANGED gone
          /\ live' = [live EXCEPT ![sa] = uids + 1]
      BY <1>0, <1>2, BoundsAssumption DEF CreateSA, TypeOK
    <2>2. gone[uids + 1] = Never
      BY <1>0, <2>1 DEF AccountsInv, TypeOK
    <2>3. \A a \in Account : live[a] # 0 => live[a] \in 1..uids
      BY <1>0 DEF AccountsInv
    <2> QED BY <1>0, <2>1, <2>2, <2>3 DEF AccountsInv, TypeOK
  <1>3. ASSUME NEW sa \in Account, DeleteSA(sa) PROVE AccountsInv'
    BY <1>0, <1>3 DEF DeleteSA, AccountsInv, TypeOK
  <1> QED BY <1>1, <1>2, <1>3
          DEF Next, PassThrough, Hit, Miss, Issue, MintFails, Mint, Restart, Tick

LEMMA CacheNext == ProxyInv /\ Next => CacheInv'
  <1> SUFFICES ASSUME ProxyInv, Next, NEW a \in DOMAIN cache'
               PROVE  (/\ cache[a].token.sa = a /\ Genuine(cache[a].token)
                       /\ cache[a].exp <= cache[a].token.issued + MaxLatency + CacheTTL)'
    BY DEF CacheInv
  <1>0. TypeOK /\ CacheInv /\ AnswerInv
    BY DEF ProxyInv
  <1>1. CASE a \in DOMAIN cache /\ cache'[a] = cache[a]
    <2>1. PICK t \in Token : t = cache[a].token
      BY <1>0, <1>1 DEF TypeOK, CacheEntry
    <2>2. Genuine(t)'
      BY <1>0, <1>1, <2>1, StaysGenuine DEF CacheInv
    <2> QED BY <1>0, <1>1, <2>1, <2>2 DEF CacheInv, Genuine
  <1>2. ASSUME NEW h \in Handler, Mint(h), a = req[h].sa
        PROVE  (/\ cache[a].token.sa = a /\ Genuine(cache[a].token)
                /\ cache[a].exp <= cache[a].token.issued + MaxLatency + CacheTTL)'
    <2>1. PICK t \in Token : t = req[h].token
      BY <1>0, <1>2, HandlerStates DEF Mint
    <2>2. Genuine(t) /\ t.sa = a /\ now <= t.issued + MaxLatency
      BY <1>0, <1>2, <2>1 DEF AnswerInv, Mint
    <2>3. cache'[a] = [token |-> t, exp |-> now + CacheTTL]
      BY <1>2, <2>1 DEF Mint, Entry
    <2>4. Genuine(t)'
      BY <2>2, StaysGenuine
    <2>5. now + CacheTTL <= t.issued + MaxLatency + CacheTTL
      BY <1>0, <2>2, TimesTyped DEF Token, TypeOK
    <2> QED BY <2>2, <2>3, <2>4, <2>5 DEF Genuine
  <1>3. CASE UNCHANGED cache
    BY <1>1, <1>3
  <1>4. CASE Restart
    BY <1>4 DEF Restart
  <1>5. ASSUME NEW h \in Handler, Mint(h), a # req[h].sa
        PROVE  a \in DOMAIN cache /\ cache'[a] = cache[a]
    BY <1>5 DEF Mint
  <1> QED BY <1>1, <1>2, <1>3, <1>4, <1>5
          DEF Next, PassThrough, Hit, Miss, Issue, MintFails, CreateSA, DeleteSA, Tick

LEMMA AnswerNext == ProxyInv /\ Next => AnswerInv'
  <1> SUFFICES ASSUME ProxyInv, Next, NEW h \in Handler, req'[h].pc = "answered"
               PROVE  (/\ req[h].token.sa = req[h].sa /\ Genuine(req[h].token)
                       /\ now <= req[h].token.issued + MaxLatency)'
    BY DEF AnswerInv
  <1>0. TypeOK /\ AccountsInv /\ AnswerInv
    BY DEF ProxyInv
  <1>1. CASE req'[h] = req[h]
    <2>1. PICK t \in Token : t = req[h].token
      BY <1>0, <1>1, HandlerStates
    <2>2. Genuine(t) /\ t.sa = req[h].sa /\ now <= t.issued + MaxLatency
      BY <1>0, <1>1, <2>1 DEF AnswerInv
    <2>3. Genuine(t)'
      BY <2>2, StaysGenuine
    <2>4. now' <= t.issued + MaxLatency
      <3>1. CASE Tick
        <4>1. now < t.issued + MaxLatency /\ now' = now + 1
          BY <1>1, <2>1, <3>1 DEF Tick
        <4> QED BY <1>0, <4>1, TimesTyped DEF TypeOK, Token
      <3>2. CASE UNCHANGED now
        BY <2>2, <3>2
      <3> QED BY <3>1, <3>2 DEF Next, PassThrough, Hit, Miss, Issue, MintFails, Mint,
                              Restart, CreateSA, DeleteSA
    <2> QED BY <1>1, <2>1, <2>2, <2>3, <2>4 DEF Genuine
  <1>2. CASE Issue(h)
    <2>1. PICK sa \in Account : sa = req[h].sa /\ live[sa] # 0
      BY <1>0, <1>2, HandlerStates DEF Issue
    <2>2. PICK t : t = [sa |-> sa, uid |-> live[sa], issued |-> now]
      OBVIOUS
    <2>3. req'[h] = [pc |-> "answered", sa |-> sa, token |-> t]
      BY <1>0, <1>2, <2>1, <2>2 DEF Issue, Become, TypeOK
    <2>4. UNCHANGED <<now, uids, gone>>
      BY <1>2 DEF Issue
    <2>5. t.uid \in 1..uids /\ gone[t.uid] = Never /\ now <= t.issued + MaxLatency
      BY <1>0, <2>1, <2>2, TimesTyped DEF AccountsInv, TypeOK
    <2>6. Genuine(t)'
      BY <1>0, <2>2, <2>4, <2>5 DEF Genuine, TypeOK
    <2> QED BY <2>2, <2>3, <2>4, <2>5, <2>6 DEF Genuine
  <1>3. req'[h] # Idle /\ \A sa : req'[h] # [pc |-> "mint", sa |-> sa]
    <2>1. Idle.pc = "idle" /\ \A sa : [pc |-> "mint", sa |-> sa].pc = "mint"
      BY DEF Idle
    <2> QED BY <2>1
  <1>4. req'[h] = req[h] \/ Issue(h)
    <2>1. req \in [Handler -> Busy \cup {Idle}]
      BY <1>0 DEF TypeOK
    <2>2. CASE Restart \/ UNCHANGED req
      BY <1>3, <2>2 DEF Restart
    <2>3. ASSUME NEW g \in Handler, Issue(g) PROVE g = h => Issue(h)
      BY <2>3
    <2>4. ASSUME NEW g \in Handler, NEW b, Become(g, b)
          PROVE  req'[h] = IF g = h THEN b ELSE req[h]
      BY <2>1, <2>4 DEF Become
    <2>5. ASSUME NEW g \in Handler, Issue(g) \/ MintFails(g) \/ Mint(g) \/ \E sa \in Account : Miss(g, sa)
          PROVE  g # h => req'[h] = req[h]
      BY <2>4, <2>5 DEF Issue, MintFails, Mint, Miss
    <2>6. CASE MintFails(h) \/ Mint(h)
      BY <1>3, <2>4, <2>6 DEF MintFails, Mint
    <2>7. CASE \E sa \in Account : Miss(h, sa)
      BY <1>3, <2>4, <2>7 DEF Miss
    <2> QED BY <2>2, <2>3, <2>5, <2>6, <2>7
            DEF Next, PassThrough, Hit, CreateSA, DeleteSA, Tick
  <1> QED BY <1>1, <1>2, <1>4

LEMMA OutNext == ProxyInv /\ Next => OutInv'
  <1> SUFFICES ASSUME ProxyInv, Next, out'.kind = "swapped"
               PROVE  (/\ out.token.sa = out.sa /\ Genuine(out.token)
                       /\ out.at < Expires(out.token)
                       /\ out.at <= out.token.issued + MaxLatency + CacheTTL)'
    BY DEF OutInv
  <1>0. TypeOK /\ CacheInv /\ AnswerInv /\ OutInv /\ now \in Nat
    BY DEF ProxyInv, TypeOK
  <1>1. CASE UNCHANGED out
    <2>1. PICK t \in Token : t = out.token
      BY <1>0, <1>1, SwappedTyped
    <2>2. Genuine(t)'
      BY <1>0, <1>1, <2>1, StaysGenuine DEF OutInv
    <2> QED BY <1>0, <1>1, <2>1, <2>2 DEF OutInv, Genuine, Expires
  <1>2. ASSUME NEW sa, NEW t \in Token, Genuine(t), t.sa = sa,
               out' = [kind |-> "swapped", at |-> now, sa |-> sa, token |-> t],
               \/ now < t.issued + MaxLatency + CacheTTL
               \/ now <= t.issued + MaxLatency
        PROVE  (/\ out.token.sa = out.sa /\ Genuine(out.token)
                /\ out.at < Expires(out.token)
                /\ out.at <= out.token.issued + MaxLatency + CacheTTL)'
    <2>1. Genuine(t)'
      BY <1>2, StaysGenuine
    <2>2. now < t.issued + Lifetime /\ now <= t.issued + MaxLatency + CacheTTL
      BY <1>0, <1>2, TimesTyped DEF Token
    <2> QED BY <1>2, <2>1, <2>2 DEF Genuine, Expires
  <1>3. ASSUME NEW h \in Handler, NEW sa \in Account, Hit(h, sa)
        PROVE  \E t \in Token :
                 /\ Genuine(t) /\ t.sa = sa /\ now < t.issued + MaxLatency + CacheTTL
                 /\ out' = [kind |-> "swapped", at |-> now, sa |-> sa, token |-> t]
    <2>1. sa \in DOMAIN cache /\ now < cache[sa].exp
      BY <1>3 DEF Hit, Cached
    <2>2. PICK t \in Token : t = cache[sa].token
      BY <1>0, <2>1 DEF TypeOK, CacheEntry
    <2>3. Genuine(t) /\ t.sa = sa /\ cache[sa].exp <= t.issued + MaxLatency + CacheTTL
      BY <1>0, <2>1, <2>2 DEF CacheInv
    <2>4. cache[sa].exp \in Nat /\ t.issued \in Nat
      BY <1>0, <2>1, <2>2 DEF TypeOK, CacheEntry, Token
    <2>5. now < t.issued + MaxLatency + CacheTTL
      BY <1>0, <2>1, <2>3, <2>4, TimesTyped
    <2> QED BY <1>3, <2>2, <2>3, <2>5 DEF Hit, Forward
  <1>4. ASSUME NEW h \in Handler, Mint(h)
        PROVE  \E sa \in Account, t \in Token :
                 /\ Genuine(t) /\ t.sa = sa /\ now <= t.issued + MaxLatency
                 /\ out' = [kind |-> "swapped", at |-> now, sa |-> sa, token |-> t]
    BY <1>0, <1>4, HandlerStates DEF Mint, Forward, AnswerInv
  <1>5. CASE \E h \in Handler : Mint(h)
    BY <1>2, <1>4, <1>5
  <1>6. CASE \E h \in Handler, sa \in Account : Hit(h, sa)
    BY <1>2, <1>3, <1>6
  <1>7. \/ UNCHANGED out
        \/ \E h \in Handler : Mint(h)
        \/ \E h \in Handler, sa \in Account : Hit(h, sa)
    <2>1. ASSUME NEW h \in Handler, PassThrough(h) \/ MintFails(h) PROVE FALSE
      BY <2>1 DEF PassThrough, MintFails
    <2> QED BY <2>1 DEF Next, Miss, Issue, Restart, CreateSA, DeleteSA, Tick
  <1> QED BY <1>1, <1>5, <1>6, <1>7

LEMMA ProxyInvariant == Spec => []ProxyInv
  <1>1. Init => ProxyInv
    <2> SUFFICES ASSUME Init PROVE ProxyInv
      OBVIOUS
    <2>1. TypeOK
      BY BoundsAssumption DEF Init, TypeOK, Out
    <2>2. AccountsInv /\ CacheInv /\ AnswerInv /\ OutInv
      BY DEF Init, AccountsInv, CacheInv, AnswerInv, OutInv, Idle
    <2> QED BY <2>1, <2>2 DEF ProxyInv
  <1>2. ProxyInv /\ [Next]_vars => ProxyInv'
    <2>1. ProxyInv /\ Next => ProxyInv'
      BY TypeNext, AccountsNext, CacheNext, AnswerNext, OutNext DEF ProxyInv
    <2>2. ProxyInv /\ UNCHANGED vars => ProxyInv'
      BY DEF ProxyInv, TypeOK, AccountsInv, CacheInv, AnswerInv, OutInv, Genuine, vars
    <2> QED BY <2>1, <2>2
  <1> QED BY <1>1, <1>2, PTL DEF Spec

\* The handlers, the cache and the answers of the proxy keep to their types.
THEOREM ProxyTyped == Spec => []TypeOK
  <1>1. ProxyInv => TypeOK
    BY DEF ProxyInv
  <1> QED BY <1>1, ProxyInvariant, PTL

\* The proxy never forwards an expired token, or another account's, for any
\* TOKEN_EXPIRATION_SECONDS, if the delay of an answer and the 80% that
\* cacheTTL takes fit into the lifetime the API server grants.
THEOREM LiveTokens == Spec => []ForwardsLiveToken
  <1>1. ProxyInv => ForwardsLiveToken
    BY DEF ProxyInv, OutInv, ForwardsLiveToken
  <1> QED BY <1>1, ProxyInvariant, PTL

\* The proxy uses the tokens of a deleted ServiceAccount for at most cacheTTL
\* plus the delay of an answer after the deletion.
THEOREM StaleTokensEnd == Spec => []StaleTokenBounded
  <1>1. ProxyInv => StaleTokenBounded
    <2> SUFFICES ASSUME ProxyInv, out.kind = "swapped", gone[out.token.uid] # Never
                 PROVE  out.at <= gone[out.token.uid] + MaxLatency + CacheTTL
      BY DEF StaleTokenBounded
    <2>1. /\ out.token.issued <= gone[out.token.uid] /\ out.token.uid \in 1..uids
          /\ out.at <= out.token.issued + MaxLatency + CacheTTL
      BY DEF ProxyInv, OutInv, Genuine
    <2>2. gone[out.token.uid] \in Nat /\ out.token.issued \in Nat /\ out.at \in Nat
      BY <2>1, SwappedTyped, BoundsAssumption DEF ProxyInv, TypeOK, Token
    <2> QED BY <2>1, <2>2, TimesTyped
  <1> QED BY <1>1, ProxyInvariant, PTL

=============================================================================
