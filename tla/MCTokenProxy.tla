---------------------------- MODULE MCTokenProxy ----------------------------
(* A small instance of TokenProxy. *)
EXTENDS TokenProxy, TLC

Handlers == Permutations(Handler)
=============================================================================
