------------------------------ MODULE OneShot ------------------------------
(***************************************************************************)
(* What the broker relies on: a saved value can be taken once, and not     *)
(* after its deadline.  Until then it is not lost, unless a fault is to    *)
(* blame.                                                                  *)
(***************************************************************************)
EXTENDS Integers

CONSTANT Key  \* keys of any kind: login states, codes, refresh tokens

VARIABLES
  state,     \* "unused", "held" or "spent", for each key
  deadline,  \* of the held ones
  answer,    \* of the latest take: the key, and whether it got the value
  losses,    \* restarts and lost answers
  now

vars == <<state, deadline, answer, losses, now>>

Init ==
  /\ state = [k \in Key |-> "unused"]
  /\ deadline = [k \in Key |-> 0]
  /\ answer = <<>>
  /\ losses = 0 /\ now = 0

\* A step that a fault is to blame for.
Fault == losses' = losses + 1

Spend(keys) ==
  /\ state' = [k \in Key |-> IF k \in keys THEN "spent" ELSE state[k]]
  /\ deadline' = [k \in Key |-> IF k \in keys THEN 0 ELSE deadline[k]]

Save(k) ==
  /\ state[k] = "unused"
  /\ state' = [state EXCEPT ![k] = "held"]
  /\ deadline'[k] \in Nat /\ deadline'[k] >= now
  /\ deadline' = [deadline EXCEPT ![k] = deadline'[k]]
  /\ UNCHANGED <<answer, losses, now>>

Take(k) ==
  /\ state[k] = "held" /\ now <= deadline[k]
  /\ Spend({k})
  /\ answer' = <<k, TRUE>>
  /\ UNCHANGED <<losses, now>>

\* Refused: never saved, taken before, or at its deadline.
Refuse(k) ==
  /\ state[k] = "held" => now >= deadline[k] \/ Fault
  /\ Spend({k} \cap {j \in Key : state[j] = "held"})
  /\ answer' = <<k, FALSE>>
  /\ UNCHANGED losses \/ Fault
  /\ UNCHANGED now

Forget ==
  /\ \E keys \in SUBSET Key :
       /\ \A k \in keys : state[k] = "held" /\ (now >= deadline[k] \/ Fault)
       /\ Spend(keys)
  /\ UNCHANGED losses \/ Fault
  /\ UNCHANGED <<answer, now>>

Tick == now' = now + 1 /\ UNCHANGED <<state, deadline, answer, losses>>

Next == Forget \/ Tick \/ \E k \in Key : Save(k) \/ Take(k) \/ Refuse(k)

Spec == Init /\ [][Next]_vars
=============================================================================
