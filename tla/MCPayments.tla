----------------------------- MODULE MCPayments -----------------------------
(* Instances of Payments for TLC. *)
EXTENDS Payments, TLC

CONSTANTS h1, h2, n1, n2

ByName == [o \in Orders |->
    CASE o \in {"s1", "s2", "s3"} -> "stripe"
      [] o \in {"c1", "c2"} -> "creem"
      [] OTHER -> "epay"]

HandlersAlike == Permutations({h1, h2} \cap Handlers)
=============================================================================
