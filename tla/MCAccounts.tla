----------------------------- MODULE MCAccounts -----------------------------
(***************************************************************************)
(* Instances of Accounts for TLC.                                          *)
(***************************************************************************)
EXTENDS Accounts, TLC

(* Requests, passwords and names differ only by name.                      *)
Symmetry ==
  Permutations(Request) \union Permutations(Name) \union Permutations(Password)
=============================================================================
