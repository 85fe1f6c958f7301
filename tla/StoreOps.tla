------------------------------ MODULE StoreOps ------------------------------
(* A map of the session store: one-shot entries that carry an expiration.  *)
EXTENDS Integers

Empty == [k \in {} |-> 0]

\* m[key] = entry{val, exp}
Saved(m, key, val, exp) ==
  [k \in DOMAIN m \cup {key} |-> IF k = key THEN [val |-> val, exp |-> exp] ELSE m[k]]

\* The map without a set of keys.
Without(m, keys) == [k \in DOMAIN m \ keys |-> m[k]]

\* A take at time t finds the entry: it is there and t is not after exp.
Found(m, key, t) == key \in DOMAIN m /\ t <= m[key].exp

\* The entries that a sweep at time t removes.
Stale(m, t) == {k \in DOMAIN m : t > m[k].exp}
=============================================================================
