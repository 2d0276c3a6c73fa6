------------------------------ MODULE MCPayments ------------------------------
(* Instances of Payments: the exchange deposit, at two prices. *)
EXTENDS Payments, TLC

MCDueAt == [k \in Kind |-> 1]
MCCharge == [k \in Kind |-> [v \in Price |-> IF k = 1 THEN v ELSE 1]]
Symmetry == Permutations(Caller)
===============================================================================
