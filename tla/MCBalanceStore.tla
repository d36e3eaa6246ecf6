--------------------------- MODULE MCBalanceStore ---------------------------
(***************************************************************************)
(* Instances of BalanceStore for TLC.                                      *)
(***************************************************************************)
EXTENDS BalanceStore, TLC

(* Sessions, and users, differ only by name.                               *)
Symmetry == Permutations(Session) \union Permutations(User)
=============================================================================
