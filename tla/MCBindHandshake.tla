--------------------------- MODULE MCBindHandshake ---------------------------
(* A small instance of BindHandshake.                                      *)
EXTENDS BindHandshake, TLC

Only(some) == [kind \in EnvKind |-> IF kind \in DOMAIN some THEN some[kind] ELSE 0]

NoTTLs == {}

Handlers == Permutations(Handler)

\* Requests on one or two incarnations of the CR, a failing call and an expiry.
HandshakeBudget == Only([upsert |-> 2, delete |-> 1, fault |-> 1, tick |-> 1])

\* A behaviour has the failing call or the expiry.
FaultOrTick == left["fault"] + left["tick"] > 0
=============================================================================
