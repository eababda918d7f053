----------------------------- MODULE MCBilling -----------------------------
(* Instances of Billing for TLC; see the .cfg files named after the runs. *)
EXTENDS Billing, TLC

CONSTANTS r1, r2

Symmetry == Permutations(Requests)
=============================================================================
