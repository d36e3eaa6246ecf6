------------------------------ MODULE MCOrders ------------------------------
(***************************************************************************)
(* Instances of Orders for TLC.                                            *)
(***************************************************************************)
EXTENDS Orders, TLC

(* Replicas, requests, ids and couriers differ only by name.               *)
Symmetry ==
  Permutations(Instance) \union Permutations(Request)
    \union Permutations(OrderId) \union Permutations(Courier)
=============================================================================
