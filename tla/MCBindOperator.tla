--------------------------- MODULE MCBindOperator ---------------------------
(* Small instances of BindOperator: what the environment of each run may   *)
(* do, and how often.                                                      *)
EXTENDS BindOperator

Only(some) == [kind \in EnvKind |-> IF kind \in DOMAIN some THEN some[kind] ELSE 0]

NoTTLs == {}
AnyTTLs == {NeverTTL, 1}

\* Expiry and renewal, with every kind of edit, a failing call and a restart.
RevocationBudget == Only([upsert |-> 1, apply |-> 1, ttl |-> 1, role |-> 1, sa |-> 1,
                          fault |-> 1, resync |-> 1, crash |-> 1, tick |-> 1])

LivenessBudget == Only([upsert |-> 1, delete |-> 1, fault |-> 2, tick |-> 1])

LeakBudget == Only([upsert |-> 1, delete |-> 1])

StraddleBudget == Only([upsert |-> 1, tick |-> 1])

\* A CR that expires and is renewed.
RenewalBudget == Only([upsert |-> 2, tick |-> 1])

RecreateBudget == Only([upsert |-> 2, delete |-> 1])

\* A behaviour has one of the failing call, the restart and the resync, and one of
\* the applied CR and the dropped account.
Disturbances ==
  /\ left["fault"] + left["crash"] + left["resync"] > 1
  /\ left["apply"] + left["sa"] > 0
=============================================================================
