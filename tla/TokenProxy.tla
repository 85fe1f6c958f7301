----------------------------- MODULE TokenProxy -----------------------------
(***************************************************************************)
(* The kube-apiserver proxy: it swaps a verified broker id_token for a     *)
(* ServiceAccount token, which it mints by a TokenRequest and reuses from  *)
(* a cache until cacheTTL has passed since the answer arrived.             *)
(*                                                                         *)
(* Handlers are goroutines.  The cache is locked for the lookup and again  *)
(* for the store, not for the TokenRequest in between.  The entry expires  *)
(* a fixed time after the answer arrives: the expiration that the API      *)
(* server reports with the token is not looked at.                         *)
(***************************************************************************)
EXTENDS Integers

CONSTANTS
  Handler,         \* requests that may be served at the same time
  Account,         \* ServiceAccount names that verified users map to
  ExpirationSecs,  \* TOKEN_EXPIRATION_SECONDS
  ServerMax,       \* longest token lifetime the API server grants
  MaxLatency,      \* longest time from the issue of a token to its arrival
  MaxTime, MaxUid  \* bounds on the clock and on ServiceAccounts ever created

Never == -1

Lifetime == IF ServerMax < ExpirationSecs THEN ServerMax ELSE ExpirationSecs

\* time.Duration(float64(expSecs)*0.8), truncated to seconds.
CacheTTL == (ExpirationSecs * 8) \div 10

\* (The API server refuses a TokenRequest for less than ten minutes.)
ASSUME BoundsAssumption ==
  /\ ExpirationSecs \in Nat \ {0, 1} /\ ServerMax \in Nat /\ MaxLatency \in Nat
  /\ MaxTime \in Nat /\ MaxUid \in Nat

\* What the fifth that the cache gives away has to pay for.
ASSUME LatencyAssumption == MaxLatency + CacheTTL <= Lifetime

VARIABLES
  now,    \* the clock
  uids,   \* ServiceAccounts created so far
  live,   \* uid of each account's ServiceAccount, 0 when there is none
  gone,   \* when the ServiceAccount with that uid was deleted
  cache,  \* tokenCache.m
  req,    \* the handlers
  out     \* the latest answer, or request passed to the API server

vars == <<now, uids, live, gone, cache, req, out>>

\* A token dies with its ServiceAccount, or Lifetime after its issue.
Token == [sa : Account, uid : Nat, issued : Nat]

Expires(t) == t.issued + Lifetime

CacheEntry == [token : Token, exp : Nat]

Idle == [pc |-> "idle"]

Busy == [pc : {"mint"}, sa : Account] \cup [pc : {"answered"}, sa : Account, token : Token]

Out == [kind : {"passed", "failed"}, at : Nat]
         \cup [kind : {"swapped"}, at : Nat, sa : Account, token : Token]

TypeOK ==
  /\ now \in Nat /\ uids \in 0..MaxUid
  /\ live \in [Account -> 0..MaxUid]
  /\ gone \in [1..MaxUid -> Nat \cup {Never}]
  /\ DOMAIN cache \subseteq Account /\ cache \in [DOMAIN cache -> CacheEntry]
  /\ req \in [Handler -> Busy \cup {Idle}]
  /\ out \in Out

Init ==
  /\ now = 0 /\ uids = 0
  /\ live = [a \in Account |-> 0]
  /\ gone = [u \in 1..MaxUid |-> Never]
  /\ cache = [a \in {} |-> 0]
  /\ req = [h \in Handler |-> Idle]
  /\ out = [kind |-> "passed", at |-> 0]

-----------------------------------------------------------------------------
(* ServeHTTP, swap and tokenCache.token.                                   *)

Become(h, state) == req' = [req EXCEPT ![h] = state]

\* rp.ServeHTTP with the ServiceAccount token in place of the bearer.
Forward(sa, token) == out' = [kind |-> "swapped", at |-> now, sa |-> sa, token |-> token]

\* No bearer, one that is not the broker's, or one without a username: the
\* request goes to the API server as it came.
PassThrough(h) ==
  /\ req[h] = Idle
  /\ out' = [kind |-> "passed", at |-> now]
  /\ UNCHANGED <<now, uids, live, gone, cache, req>>

\* The lookup, under the lock.
Cached(sa) == sa \in DOMAIN cache /\ now < cache[sa].exp

\* Mutant: every use renews the entry.
HitSliding(h, sa) ==
  /\ req[h] = Idle
  /\ Cached(sa)
  /\ Forward(sa, cache[sa].token)
  /\ cache' = [cache EXCEPT ![sa].exp = now + CacheTTL]
  /\ UNCHANGED <<now, uids, live, gone, req>>

Hit(h, sa) ==
  /\ req[h] = Idle
  /\ Cached(sa)
  /\ Forward(sa, cache[sa].token)
  /\ UNCHANGED <<now, uids, live, gone, cache, req>>

Miss(h, sa) ==
  /\ req[h] = Idle
  /\ ~Cached(sa)
  /\ Become(h, [pc |-> "mint", sa |-> sa])
  /\ UNCHANGED <<now, uids, live, gone, cache, out>>

\* The API server issues the token; the answer is on its way.
Issue(h) ==
  /\ req[h].pc = "mint"
  /\ LET sa == req[h].sa
     IN /\ live[sa] # 0
        /\ Become(h, [pc |-> "answered", sa |-> sa,
                      token |-> [sa |-> sa, uid |-> live[sa], issued |-> now]])
  /\ UNCHANGED <<now, uids, live, gone, cache, out>>

\* There is no such ServiceAccount, or the call fails: 502.
MintFails(h) ==
  /\ req[h] # Idle
  /\ out' = [kind |-> "failed", at |-> now]
  /\ Become(h, Idle)
  /\ UNCHANGED <<now, uids, live, gone, cache>>

\* Mutants: no margin for the answer's delay; a sign error.
EntryWithoutMargin(token) == [token |-> token, exp |-> now + ExpirationSecs]

EntryInThePast(token) == [token |-> token, exp |-> now - CacheTTL]

Entry(token) == [token |-> token, exp |-> now + CacheTTL]

\* The store, under the lock, whatever another handler stored meanwhile.
Mint(h) ==
  /\ req[h].pc = "answered"
  /\ LET sa == req[h].sa
     IN /\ cache' = [a \in DOMAIN cache \cup {sa} |->
                        IF a = sa THEN Entry(req[h].token) ELSE cache[a]]
        /\ Forward(sa, req[h].token)
  /\ Become(h, Idle)
  /\ UNCHANGED <<now, uids, live, gone>>

\* The proxy's process restarts.
Restart ==
  /\ cache' = [a \in {} |-> 0]
  /\ req' = [h \in Handler |-> Idle]
  /\ UNCHANGED <<now, uids, live, gone, out>>

-----------------------------------------------------------------------------
(* The operator's ServiceAccounts, and time.                               *)

CreateSA(sa) ==
  /\ live[sa] = 0 /\ uids < MaxUid
  /\ uids' = uids + 1
  /\ live' = [live EXCEPT ![sa] = uids + 1]
  /\ UNCHANGED <<now, gone, cache, req, out>>

DeleteSA(sa) ==
  /\ live[sa] # 0
  /\ live' = [live EXCEPT ![sa] = 0]
  /\ gone' = [gone EXCEPT ![live[sa]] = now]
  /\ UNCHANGED <<now, uids, cache, req, out>>

\* No answer takes longer than MaxLatency.
Tick ==
  /\ now < MaxTime
  /\ \A h \in Handler :
       req[h].pc = "answered" => now < req[h].token.issued + MaxLatency
  /\ now' = now + 1
  /\ UNCHANGED <<uids, live, gone, cache, req, out>>

Next ==
  \/ \E h \in Handler :
       \/ PassThrough(h) \/ Issue(h) \/ MintFails(h) \/ Mint(h)
       \/ \E sa \in Account : Hit(h, sa) \/ Miss(h, sa)
  \/ \E sa \in Account : CreateSA(sa) \/ DeleteSA(sa)
  \/ Restart \/ Tick

Spec == Init /\ [][Next]_vars

-----------------------------------------------------------------------------
(* Properties.                                                             *)

\* A request is only ever forwarded with an unexpired token of its own user's
\* ServiceAccount, although the cache goes by the time the answer arrived and
\* a late answer may replace the token of a faster one.
ForwardsLiveToken ==
  out.kind = "swapped" => out.token.sa = out.sa /\ out.at < Expires(out.token)

\* After a ServiceAccount is deleted the proxy goes on using its tokens for no
\* longer than cacheTTL and one answer's delay: then a user whose account was
\* created anew is served again.
StaleTokenBounded ==
  out.kind = "swapped" /\ gone[out.token.uid] # Never =>
    out.at <= gone[out.token.uid] + MaxLatency + CacheTTL

=============================================================================
