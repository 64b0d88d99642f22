----------------------------- MODULE MCRenewals -----------------------------
EXTENDS Renewals, TLC

CONSTANT s1

Renew(v, m) == [type |-> "renew", service |-> s1, volume |-> v, mode |-> m]
AddOn(v) == [type |-> "addon_volume", service |-> s1, volume |-> v, mode |-> "reset"]

(* A renewal that carries over what was left, or resets, and an add-on.    *)
CarryOvers == {Renew(3, "both"), AddOn(1)}
Resets == {Renew(3, "reset"), AddOn(1)}
=============================================================================
