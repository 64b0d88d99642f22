--------------------------- MODULE MCCheckoutPage ---------------------------
(* Instances of CheckoutPage for TLC: plans and services are model values. *)
EXTENDS CheckoutPage
CONSTANTS gold, silver, sub
=============================================================================
