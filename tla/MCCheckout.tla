----------------------------- MODULE MCCheckout -----------------------------
(* Small instances of Checkout for TLC. *)
EXTENDS Checkout, TLC
CONSTANTS gold, silver

(* Whatever can be bought is about one service. *)
OneService == [i \in Item |-> "service"]

Symmetry ==
  Permutations(User) \cup Permutations(Amount) \cup Permutations(Order) \cup Permutations(Worker)
=============================================================================
