------------------------------ MODULE MCWallet ------------------------------
(* Three requests of one wallet, amounts up to 2, balances up to 4: two      *)
(* requests can be open with unequal reservations while a third is refused,  *)
(* a cost can exceed its reservation, and a debit can fall in between.       *)
EXTENDS Wallet, TLC

Symmetry == Permutations(Requests)

=============================================================================
