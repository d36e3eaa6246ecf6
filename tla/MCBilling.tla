----------------------------- MODULE MCBilling -----------------------------
(***************************************************************************)
(* Instances of Billing for TLC.                                           *)
(***************************************************************************)
EXTENDS Billing, TLC

(* Requests, invoice ids and users differ only by name.                    *)
Symmetry ==
  Permutations(Request) \union Permutations(InvoiceId) \union Permutations(User)
=============================================================================
