---------------------------- MODULE SessionStore ----------------------------
(***************************************************************************)
(* The broker's session store, in memory or on Redis.  The three kinds of  *)
(* entries (login states, codes, refresh tokens) live in three maps, or    *)
(* under three prefixes, that are handled alike: a key stands for a kind   *)
(* and a random token.                                                     *)
(***************************************************************************)
EXTENDS StoreOps

CONSTANTS
  Key,
  TTLs,       \* the lifetimes that entries are saved with
  MaxFaults,  \* bound on the answers and the processes that are lost
  MaxTime     \* bound on the clock

ASSUME StoreAssumption ==
  TTLs \subseteq Nat \ {0} /\ MaxFaults \in Nat /\ MaxTime \in Nat

NoTick == -1

VARIABLES
  backend, \* "memory" or "redis", as configured
  kv,      \* the entries
  saved,   \* keys ever saved: random, so that none is saved twice
  answer,  \* of the latest take
  tick,    \* the time the sweeper's ticker has sent and the sweeper not read
  now, faults

vars == <<backend, kv, saved, answer, tick, now, faults>>

TypeOK ==
  /\ backend \in {"memory", "redis"}
  /\ DOMAIN kv \subseteq saved /\ saved \subseteq Key
  /\ \A k \in DOMAIN kv : kv[k].exp \in Nat
  /\ answer \in {<<>>} \cup (Key \X BOOLEAN)
  /\ tick \in Nat \cup {NoTick} /\ now \in Nat /\ faults \in 0..MaxFaults

Init ==
  /\ backend \in {"memory", "redis"}
  /\ kv = Empty /\ saved = {} /\ answer = <<>>
  /\ tick = NoTick /\ now = 0 /\ faults = 0

\* Mutant: a sign error in the expiration.
SaveBackwards(k, ttl) ==
  /\ k \notin saved
  /\ kv' = Saved(kv, k, k, now - ttl)
  /\ saved' = saved \cup {k}
  /\ UNCHANGED <<backend, answer, tick, now, faults>>

Save(k, ttl) ==
  /\ k \notin saved
  /\ kv' = Saved(kv, k, k, now + ttl)
  /\ saved' = saved \cup {k}
  /\ UNCHANGED <<backend, answer, tick, now, faults>>

\* Mutant: the value is read and left in the map.
TakeMemoryKeeping(k) ==
  /\ backend = "memory"
  /\ answer' = <<k, Found(kv, k, now)>>
  /\ UNCHANGED <<backend, kv, saved, tick, now, faults>>

\* TakeAuthRequest, TakeCode, TakeRefresh in memory: the entry goes, expired or
\* not.
TakeMemory(k) ==
  /\ backend = "memory"
  /\ kv' = Without(kv, {k})
  /\ answer' = <<k, Found(kv, k, now)>>
  /\ UNCHANGED <<backend, saved, tick, now, faults>>

\* take on Redis: GETDEL does not return a key whose time has come.
TakeRedis(k) ==
  /\ backend = "redis"
  /\ kv' = Without(kv, {k})
  /\ answer' = <<k, Found(kv, k, now + 1)>>
  /\ UNCHANGED <<backend, saved, tick, now, faults>>

\* GETDEL is executed and its answer lost: the client's retry finds nothing.
TakeLost(k) ==
  /\ backend = "redis" /\ faults < MaxFaults
  /\ kv' = Without(kv, {k})
  /\ answer' = <<k, FALSE>>
  /\ faults' = faults + 1
  /\ UNCHANGED <<backend, saved, tick, now>>

\* The ticker sends the time, and drops it while the sweeper is behind.
SendTick ==
  /\ backend = "memory" /\ tick = NoTick
  /\ tick' = now
  /\ UNCHANGED <<backend, kv, saved, answer, now, faults>>

\* The sweeper gets the lock, possibly long after its ticker sent the time.
Sweep ==
  /\ tick # NoTick
  /\ kv' = Without(kv, Stale(kv, tick))
  /\ tick' = NoTick
  /\ UNCHANGED <<backend, saved, answer, now, faults>>

\* The broker's process restarts; the entries on Redis stay.
Restart ==
  /\ faults < MaxFaults
  /\ kv' = IF backend = "memory" THEN Empty ELSE kv
  /\ tick' = NoTick
  /\ faults' = faults + 1
  /\ UNCHANGED <<backend, saved, answer, now>>

Tick == now < MaxTime /\ now' = now + 1 /\ UNCHANGED <<backend, kv, saved, answer, tick, faults>>

Next ==
  \/ \E k \in Key :
       \/ TakeMemory(k) \/ TakeRedis(k) \/ TakeLost(k)
       \/ \E ttl \in TTLs : Save(k, ttl)
  \/ SendTick \/ Sweep \/ Restart \/ Tick

Spec == Init /\ [][Next]_vars

-----------------------------------------------------------------------------
(* Properties.                                                             *)

\* The store implements the one-shot store: whatever takes, sweeps, expiries
\* and restarts are interleaved, no value is taken twice or late, and none is
\* lost before its time when no process and no answer is.
Abstract == INSTANCE OneShot WITH
  state    <- [k \in Key |-> IF k \in DOMAIN kv THEN "held"
                             ELSE IF k \in saved THEN "spent" ELSE "unused"],
  deadline <- [k \in Key |-> IF k \in DOMAIN kv THEN kv[k].exp ELSE 0],
  losses   <- faults

ImplementsOneShot == Abstract!Spec
=============================================================================
