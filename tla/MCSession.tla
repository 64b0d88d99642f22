----------------------------- MODULE MCSession -----------------------------
(* Instances of Session for TLC. *)
EXTENDS Session, TLC

CONSTANTS t1, t2, r1, r2

(* The first tab may have two calls under way, the second only starts, signs in and signs out. *)
CallsOfTabs == t1 :> {Me, r1, r2} @@ t2 :> {Me}

(* One tab alone. *)
CallsOfTab == t1 :> {Me, r1}
=============================================================================
