----------------------------- MODULE OrderLife -----------------------------
(***************************************************************************)
(* What may become of an order and of its payment, as somebody sees it who *)
(* holds no lock: the customer's page, which is shown the two statuses.    *)
(* Checkout is shown to change them in these ways only, and CheckoutPage   *)
(* takes these ways as its environment.                                    *)
(*                                                                         *)
(* An order whose payment staff have deleted once may be brought back as   *)
(* anything, so nothing is promised of it any more (touched).              *)
(***************************************************************************)

CONSTANT Order

VARIABLES
  status,   \* Order.status, "absent" before the row exists
  pay,      \* Payment.status, "none" without a payment
  late,     \* orders whose deadline has passed
  touched   \* orders whose payment was deleted at some time

lifeVars == <<status, pay, late, touched>>

Statuses == {"absent", "pending_payment", "paid", "completed", "rejected", "failed", "expired",
             "cancelled"}
PayStatuses == {"none", "pending", "approved", "rejected"}
Open == {"pending_payment", "expired"}
Payable == {"pending_payment", "expired", "rejected", "failed"}
Settled == {"paid", "completed", "failed"}

Init ==
  /\ status = [o \in Order |-> "absent"]
  /\ pay = [o \in Order |-> "none"]
  /\ late = {} /\ touched = {}

(* Statuses s and p become t and q, l when the deadline has passed: the    *)
(* order expires or a newer one replaces it; a receipt comes (checked      *)
(* against an older state of the order, so it may come at any time) or a   *)
(* near miss is reviewed; money or staff pay for it; staff approve what is *)
(* paid already; staff reject; a task completes or fails it.               *)
Becomes(s, p, l, t, q) ==
  \/ s = "pending_payment" /\ (p = "none" \/ (l /\ p # "pending")) /\ t = "expired" /\ q = p
  \/ t = s /\ q = "pending"
  \/ s \in Payable /\ t = "paid" /\ q = "approved"
  \/ s \notin Payable /\ p \in {"pending", "rejected"} /\ t = s /\ q = "approved"
  \/ /\ s \notin {"paid", "completed"} /\ p \in {"pending", "rejected"}
     /\ t = (IF s \in Open THEN "rejected" ELSE s) /\ q = "rejected"
  \/ s \in Settled /\ t \in {"completed", "failed"} /\ q = p

Moves(o) ==
  \/ status'[o] = status[o] /\ pay'[o] = pay[o]
  \/ status[o] = "absent" /\ status'[o] = "pending_payment" /\ pay'[o] = "none"
  \/ /\ status[o] # "absent" /\ o \notin touched'
     /\ Becomes(status[o], pay[o], o \in late, status'[o], pay'[o])
  \/ status[o] # "absent" /\ status'[o] # "absent" /\ o \in touched'

Next ==
  /\ status' \in [Order -> Statuses] /\ pay' \in [Order -> PayStatuses]
  /\ late \subseteq late' /\ late' \subseteq Order
  /\ touched \subseteq touched' /\ touched' \subseteq {o \in Order : status[o] # "absent"}
  /\ \A o \in Order : Moves(o)

Spec == Init /\ [][Next]_lifeVars

(* While staff have not deleted its payment, an order with an approved     *)
(* payment is on its way to the customer or was, and no order is cancelled. *)
Sound(s, p) ==
  /\ s # "cancelled"
  /\ p = "approved" => s \in Settled
  /\ s = "absent" => p = "none"
AllSound == \A o \in Order : o \notin touched => Sound(status[o], pay[o])
=============================================================================
