------------------------- MODULE SessionStoreProofs -------------------------
(* The session store implements the one-shot store, for any keys and        *)
(* lifetimes and any number of faults.                                      *)
EXTENDS SessionStore, TLAPS

\* The sweeper's time is never ahead of the clock: with it, what a sweep
\* removes has expired.
SweepInv == TypeOK /\ tick <= now

LEMMA SweepInit == Init => SweepInv
  BY StoreAssumption DEF Init, SweepInv, TypeOK, Empty, NoTick

\* What Without does to the domain and to the other entries.
LEMMA WithoutFacts ==
  ASSUME NEW m, NEW keys
  PROVE  /\ DOMAIN Without(m, keys) = DOMAIN m \ keys
         /\ \A k \in DOMAIN m \ keys : Without(m, keys)[k] = m[k]
  BY DEF Without

LEMMA FoundBoolean ==
  ASSUME NEW m, NEW key, NEW t
  PROVE  Found(m, key, t) \in BOOLEAN
  BY DEF Found

LEMMA SweepNext == SweepInv /\ [Next]_vars => SweepInv'
<1> SUFFICES ASSUME SweepInv, [Next]_vars PROVE SweepInv'
  OBVIOUS
<1> USE StoreAssumption DEF SweepInv, TypeOK, NoTick
<1>1. ASSUME NEW k \in Key, NEW ttl \in TTLs, Save(k, ttl) PROVE SweepInv'
  <2>1. kv' = Saved(kv, k, k, now + ttl)
    BY <1>1 DEF Save
  <2>2. /\ DOMAIN kv' = DOMAIN kv \cup {k}
        /\ kv'[k].exp = now + ttl
        /\ \A j \in DOMAIN kv \ {k} : kv'[j] = kv[j]
    BY <2>1 DEF Saved
  <2> QED BY <1>1, <2>2 DEF Save
<1>2. ASSUME NEW k \in Key, TakeMemory(k) \/ TakeRedis(k) \/ TakeLost(k) PROVE SweepInv'
  <2>1. kv' = Without(kv, {k})
    BY <1>2 DEF TakeMemory, TakeRedis, TakeLost
  <2>2. /\ DOMAIN kv' = DOMAIN kv \ {k}
        /\ \A j \in DOMAIN kv \ {k} : kv'[j] = kv[j]
    BY <2>1, WithoutFacts
  <2>3. \E b \in BOOLEAN : answer' = <<k, b>>
    <3>1. CASE TakeMemory(k) BY Zenon, <3>1, FoundBoolean DEF TakeMemory
    <3>2. CASE TakeRedis(k) BY Zenon, <3>2, FoundBoolean DEF TakeRedis
    <3>3. CASE TakeLost(k) BY Zenon, <3>3 DEF TakeLost
    <3> QED BY <1>2, <3>1, <3>2, <3>3
  <2>4. answer' \in {<<>>} \cup (Key \X BOOLEAN)
    BY <2>3
  <2>5. /\ UNCHANGED <<backend, saved, tick, now>>
        /\ faults' = faults \/ (faults < MaxFaults /\ faults' = faults + 1)
    BY <1>2 DEF TakeMemory, TakeRedis, TakeLost
  <2> QED BY <2>2, <2>4, <2>5
<1>3. CASE SendTick BY <1>3 DEF SendTick
<1>4. CASE Sweep
  <2> /\ DOMAIN kv' = DOMAIN kv \ Stale(kv, tick)
      /\ \A j \in DOMAIN kv \ Stale(kv, tick) : kv'[j] = kv[j]
    BY <1>4, WithoutFacts DEF Sweep
  <2> QED BY <1>4 DEF Sweep
<1>5. CASE Restart BY <1>5 DEF Restart, Empty
<1>6. CASE Tick BY <1>6 DEF Tick
<1>7. CASE UNCHANGED vars BY <1>7 DEF vars
<1> QED BY <1>1, <1>2, <1>3, <1>4, <1>5, <1>6, <1>7 DEF Next

-----------------------------------------------------------------------------
(* Every step of the store is a step of the one-shot store, or none.        *)

\* Removing entries spends their keys.
LEMMA Removal ==
  ASSUME SweepInv, NEW keys, keys \subseteq DOMAIN kv,
         DOMAIN kv' = DOMAIN kv \ keys,
         \A j \in DOMAIN kv \ keys : kv'[j] = kv[j],
         saved' = saved
  PROVE  Abstract!Spend(keys)
  BY DEF SweepInv, TypeOK, Abstract!Spend

\* A take that finds its entry at a time that is not past.
LEMMA TakeHits ==
  ASSUME SweepInv, NEW k \in Key, kv' = Without(kv, {k}), saved' = saved,
         k \in DOMAIN kv, now <= kv[k].exp, answer' = <<k, TRUE>>,
         faults' = faults, now' = now
  PROVE  Abstract!Take(k)
<1>1. DOMAIN kv' = DOMAIN kv \ {k} /\ \A j \in DOMAIN kv \ {k} : kv'[j] = kv[j]
  BY WithoutFacts
<1>2. Abstract!Spend({k})
  BY <1>1, Removal
<1> QED BY <1>2 DEF Abstract!Take

\* A take that finds nothing, or an entry whose time has come, or that a fault
\* costs the answer.
LEMMA TakeMisses ==
  ASSUME SweepInv, NEW k \in Key, kv' = Without(kv, {k}), saved' = saved,
         k \in DOMAIN kv => now >= kv[k].exp \/ faults' = faults + 1,
         answer' = <<k, FALSE>>, faults' = faults \/ faults' = faults + 1, now' = now
  PROVE  Abstract!Refuse(k)
<1>1. DOMAIN kv' = DOMAIN kv \ {k} /\ \A j \in DOMAIN kv \ {k} : kv'[j] = kv[j]
  BY WithoutFacts
<1>2. CASE k \in DOMAIN kv
  <2>1. Abstract!Spend({k})
    BY <1>1, <1>2, Removal
  <2> QED BY <1>2, <2>1 DEF Abstract!Refuse, Abstract!Fault, Abstract!Spend
<1>3. CASE k \notin DOMAIN kv
  <2>1. Abstract!Spend({})
    BY <1>1, <1>3, Removal
  <2> QED BY <1>3, <2>1 DEF Abstract!Refuse, Abstract!Fault, Abstract!Spend
<1> QED BY <1>2, <1>3

LEMMA Simulation == SweepInv /\ [Next]_vars => [Abstract!Next]_(Abstract!vars)
<1> SUFFICES ASSUME SweepInv, [Next]_vars PROVE [Abstract!Next]_(Abstract!vars)
  OBVIOUS
<1>1. ASSUME NEW k \in Key, NEW ttl \in TTLs, Save(k, ttl) PROVE Abstract!Save(k)
  <2>1. kv' = Saved(kv, k, k, now + ttl)
    BY <1>1 DEF Save
  <2>2. /\ DOMAIN kv' = DOMAIN kv \cup {k}
        /\ kv'[k].exp = now + ttl
        /\ \A j \in DOMAIN kv \ {k} : kv'[j] = kv[j]
    BY <2>1 DEF Saved
  <2>3. now + ttl \in Nat /\ now + ttl >= now
    BY StoreAssumption DEF SweepInv, TypeOK
  <2> QED BY <1>1, <2>2, <2>3 DEF Save, Abstract!Save, SweepInv, TypeOK
<1>2. ASSUME NEW k \in Key, TakeMemory(k) PROVE Abstract!Next
  <2>1. CASE Found(kv, k, now)
    <3>1. answer' = <<k, TRUE>> BY <1>2, <2>1 DEF TakeMemory
    <3> QED BY <1>2, <2>1, <3>1, TakeHits DEF TakeMemory, Found, Abstract!Next
  <2>2. CASE ~Found(kv, k, now)
    <3>1. answer' = <<k, FALSE>> BY <1>2, <2>2, FoundBoolean DEF TakeMemory
    <3>2. k \in DOMAIN kv => now >= kv[k].exp BY <2>2 DEF Found, SweepInv, TypeOK
    <3> QED BY <1>2, <3>1, <3>2, TakeMisses DEF TakeMemory, Abstract!Next
  <2> QED BY <2>1, <2>2
<1>3. ASSUME NEW k \in Key, TakeRedis(k) PROVE Abstract!Next
  <2>1. CASE Found(kv, k, now + 1)
    <3>1. answer' = <<k, TRUE>> BY <1>3, <2>1 DEF TakeRedis
    <3>2. k \in DOMAIN kv /\ now <= kv[k].exp BY <2>1 DEF Found, SweepInv, TypeOK
    <3> QED BY <1>3, <3>1, <3>2, TakeHits DEF TakeRedis, Abstract!Next
  <2>2. CASE ~Found(kv, k, now + 1)
    <3>1. answer' = <<k, FALSE>> BY <1>3, <2>2, FoundBoolean DEF TakeRedis
    <3>2. k \in DOMAIN kv => now >= kv[k].exp BY <2>2 DEF Found, SweepInv, TypeOK
    <3> QED BY <1>3, <3>1, <3>2, TakeMisses DEF TakeRedis, Abstract!Next
  <2> QED BY <2>1, <2>2
<1>4. ASSUME NEW k \in Key, TakeLost(k) PROVE Abstract!Next
  BY <1>4, TakeMisses DEF TakeLost, Abstract!Next
<1>5. CASE Sweep
  <2>1. PICK keys : keys = Stale(kv, tick)
    OBVIOUS
  <2>2. kv' = Without(kv, keys) /\ UNCHANGED <<saved, answer, now, faults>>
    BY <1>5, <2>1 DEF Sweep
  <2>3. keys \subseteq DOMAIN kv
    BY <2>1 DEF Stale
  <2>4. DOMAIN kv' = DOMAIN kv \ keys /\ \A j \in DOMAIN kv \ keys : kv'[j] = kv[j]
    BY <2>2, WithoutFacts
  <2>5. Abstract!Spend(keys)
    BY <2>2, <2>3, <2>4, Removal
  <2>6. \A k \in keys : k \in Key /\ k \in DOMAIN kv /\ now >= kv[k].exp
    BY <1>5, <2>1 DEF Sweep, Stale, SweepInv, TypeOK, NoTick
  <2> QED BY <2>2, <2>5, <2>6 DEF Abstract!Next, Abstract!Forget
<1>6. CASE Restart
  <2>1. PICK keys \in SUBSET DOMAIN kv : /\ DOMAIN kv' = DOMAIN kv \ keys
                                         /\ \A j \in DOMAIN kv \ keys : kv'[j] = kv[j]
    <3>1. CASE backend = "memory" BY <1>6, <3>1 DEF Restart, Empty
    <3>2. CASE backend # "memory" BY <1>6, <3>2 DEF Restart
    <3> QED BY <3>1, <3>2
  <2>2. Abstract!Spend(keys)
    BY <1>6, <2>1, Removal DEF Restart
  <2>3. \A k \in keys : k \in Key /\ k \in DOMAIN kv
    BY DEF SweepInv, TypeOK
  <2> QED BY <1>6, <2>2, <2>3 DEF Restart, Abstract!Next, Abstract!Forget, Abstract!Fault
<1>7. CASE SendTick BY <1>7 DEF SendTick, Abstract!vars
<1>8. CASE Tick BY <1>8 DEF Tick, Abstract!Next, Abstract!Tick
<1>9. CASE UNCHANGED vars BY <1>9 DEF vars, Abstract!vars
<1> QED BY <1>1, <1>2, <1>3, <1>4, <1>5, <1>6, <1>7, <1>8, <1>9 DEF Next, Abstract!Next

\* Whatever takes, sweeps, expiries and restarts do to the store, in memory or
\* on Redis, a value is taken at most once and not late, and lost early only by
\* a fault: the store implements OneShot.
THEOREM OneShotStore == Spec => ImplementsOneShot
<1>1. Init => Abstract!Init
  BY DEF Init, Empty, Abstract!Init
<1>2. Spec => []SweepInv
  BY SweepInit, SweepNext, PTL DEF Spec
<1> QED BY <1>1, <1>2, Simulation, PTL DEF Spec, ImplementsOneShot, Abstract!Spec

\* The map, the sweeper's time and the faults of the store keep to their types.
THEOREM StoreTyped == Spec => []TypeOK
<1>1. SweepInv => TypeOK
  BY DEF SweepInv
<1> QED BY <1>1, SweepInit, SweepNext, PTL DEF Spec
=============================================================================
