------------------------------ MODULE Checkout ------------------------------
(***************************************************************************)
(* Orders, their unique amounts and their payments, from the moment a      *)
(* customer asks for an invoice until the fulfilment task closes the order.*)
(*                                                                         *)
(* One row of `order` and its (at most one) row of `payment` are described *)
(* by functions on Order.  Every database transaction that locks its rows  *)
(* is one action; what a request reads WITHOUT a lock and uses later is    *)
(* remembered (uploads: receipts on their way in, running: fulfilment      *)
(* tasks) so that other transactions may commit in between.                *)
(*                                                                         *)
(* Time is abstract: a reservation's deadline passes at some moment        *)
(* (late).  Which of the open orders a deposit is matched to is left open: *)
(* here any of them may be paid by one.                                    *)
(***************************************************************************)

CONSTANTS
  Order,      \* identities of order rows that may ever be created
  User,       \* customers
  Amount,     \* unique amounts (base price + surcharge), one pool
  Item,       \* what can be bought: plan, type, service / account name, GB
  Renewal,    \* the items that renew an existing service
  About,      \* the service an item is about: the one it renews or makes
  Code,       \* discount codes
  NoCode,     \* no discount code used
  NoInvoice,  \* an order row that does not exist yet
  NoAmount,   \* a NULL amount_unique_lock
  NoOrder,    \* an idle worker
  Worker      \* Celery worker slots running fulfill_order

ASSUME CheckoutAssumption ==
  /\ Renewal \subseteq Item
  /\ About = [i \in Item |-> About[i]]
  /\ NoCode \notin Code
  /\ NoInvoice \notin [buyer : User, item : Item, code : Code \cup {NoCode}]
  /\ NoAmount \notin Amount
  /\ NoOrder \notin Order

VARIABLES
  status,     \* Order.status; "absent" before the row exists
  amount,     \* Order.amount_unique
  lock,       \* Order.amount_unique_lock, UNIQUE in the database
  late,       \* unique_expire_at has passed
  bought,     \* who ordered what, with which discount code
  pay,        \* Payment.status; "none" when the order has no payment row
  voided,     \* Payment.voided_at is set
  prev,       \* Payment.void_prev_order_status; "absent" when empty
  touched,    \* history: orders whose payment was voided at some time
  uploads,    \* orders read as payable by a receipt upload in progress
  sent,       \* orders with a fulfill_order message not acknowledged yet
  running,    \* the order each worker read before it delivers it
  delivered,  \* workers whose order is delivered but not completed yet
  serviced,   \* orders with a service: a renewal's, or the one made for it
  waiting     \* orders whose scheduled renewal is not applied yet

orderVars == <<status, amount, lock, late, bought>>
payVars   == <<pay, voided, prev, touched>>
taskVars  == <<sent, running, delivered, serviced, waiting>>
vars      == <<orderVars, payVars, uploads, taskVars>>

OrderStatus == {"pending_payment", "paid", "completed", "rejected",
                "failed", "expired", "cancelled"}
ActiveUniqueStatuses == {"pending_payment", "paid"}
(* Mutants of the definitions below, each a plausible slip in that code,   *)
(* are named after them with the slip as suffix.                           *)
Fulfillable_notRejected == {"pending_payment", "expired", "failed"}
Fulfillable_cancelled == {"pending_payment", "expired", "rejected", "failed", "cancelled"}

(* services._FULFILLABLE *)
Fulfillable == {"pending_payment", "expired", "rejected", "failed"}
PaymentStatus == {"pending", "approved", "rejected"}
Invoice == [buyer : User, item : Item, code : Code \cup {NoCode}]

TypeOK ==
  /\ status  \in [Order -> OrderStatus \cup {"absent"}]
  /\ amount  \in [Order -> Amount \cup {NoAmount}]
  /\ lock    \in [Order -> Amount \cup {NoAmount}]
  /\ late    \in [Order -> BOOLEAN]
  /\ bought  \in [Order -> Invoice \cup {NoInvoice}]
  /\ pay     \in [Order -> PaymentStatus \cup {"none"}]
  /\ voided  \in [Order -> BOOLEAN]
  /\ prev    \in [Order -> OrderStatus \cup {"absent"}]
  /\ touched \subseteq Order
  /\ uploads \subseteq Order
  /\ sent    \subseteq Order
  /\ running \in [Worker -> Order \cup {NoOrder}]
  /\ delivered \subseteq Worker
  /\ serviced  \subseteq Order
  /\ waiting   \subseteq Order

Init ==
  /\ status = [o \in Order |-> "absent"]
  /\ amount = [o \in Order |-> NoAmount]
  /\ lock = [o \in Order |-> NoAmount]
  /\ late = [o \in Order |-> FALSE]
  /\ bought = [o \in Order |-> NoInvoice]
  /\ pay = [o \in Order |-> "none"]
  /\ voided = [o \in Order |-> FALSE]
  /\ prev = [o \in Order |-> "absent"]
  /\ touched = {}
  /\ uploads = {}
  /\ sent = {}
  /\ running = [w \in Worker |-> NoOrder]
  /\ delivered = {}
  /\ serviced = {}
  /\ waiting = {}
-----------------------------------------------------------------------------
(* Order.sync_unique_lock *)
LockFor(o, s) == IF s \in ActiveUniqueStatuses THEN amount[o] ELSE NoAmount

(* The UNIQUE index accepts a as the lock of o. *)
AmountFree(o, a) == \A p \in Order \ {o} : lock[p] # a

MoveTo_keepsLock(o, s) ==
  /\ status' = [status EXCEPT ![o] = s]
  /\ UNCHANGED lock

(* Order o moves to status s, its lock kept in step with the status. *)
MoveTo(o, s) ==
  /\ status' = [status EXCEPT ![o] = s]
  /\ lock' = [lock EXCEPT ![o] = LockFor(o, s)]

MarkPaid_noRetry(o) ==
  /\ status' = [status EXCEPT ![o] = "paid"]
  /\ lock' = [lock EXCEPT ![o] = amount[o]]
  /\ sent' = sent \cup {o}

(* mark_paid_and_fulfill: a late approval whose amount was re-taken pays   *)
(* the order without a lock; the fulfilment message is sent on commit.     *)
MarkPaid(o) ==
  /\ status' = [status EXCEPT ![o] = "paid"]
  /\ lock' = [lock EXCEPT ![o] =
                IF AmountFree(o, amount[o]) THEN amount[o] ELSE NoAmount]
  /\ sent' = sent \cup {o}

Stale_underReview == {o \in Order : status[o] = "pending_payment" /\ late[o]}

(* Timed-out reservations without a receipt under review. *)
Stale == {o \in Order : status[o] = "pending_payment" /\ late[o] /\ pay[o] # "pending"}

Released_lockOnly(S) ==
  /\ lock' = [o \in Order |-> IF o \in S THEN NoAmount ELSE lock[o]]
  /\ UNCHANGED status

(* Set of orders released at once (each becomes expired). *)
Released(S) ==
  /\ status' = [o \in Order |-> IF o \in S THEN "expired" ELSE status[o]]
  /\ lock' = [o \in Order |-> IF o \in S THEN NoAmount ELSE lock[o]]

(* The orders the customer has placed so far, whatever became of them.     *)
OrdersOf(u) == {o \in Order : status[o] # "absent" /\ bought[o].buyer = u}

(* The pending order for exactly this purchase that buying again returns. *)
Reusable(v) ==
  {o \in OrdersOf(v.buyer) : /\ bought[o].item = v.item
                             /\ status[o] = "pending_payment" /\ ~late[o]
                             /\ pay[o] \notin {"rejected", "approved"}}

(* Unpaid invoices a new one with the same discount code replaces. *)
SameCode(v) ==
  {o \in OrdersOf(v.buyer) : /\ v.code # NoCode /\ bought[o].code = v.code
                             /\ status[o] = "pending_payment" /\ pay[o] = "none"}

(* Orders for the service order o is about, with whatever plan. *)
SameService(o) ==
  {p \in OrdersOf(bought[o].buyer) : About[bought[p].item] = About[bought[o].item]}

(* A renewal of the service waits, is paid, or its receipt is under review. *)
WaitingRenewal(v) ==
  \E o \in OrdersOf(v.buyer) :
    /\ About[bought[o].item] = About[v.item]
    /\ \/ o \in waiting
       \/ status[o] = "paid"
       \/ status[o] = "pending_payment" /\ pay[o] = "pending" /\ ~voided[o]

(* The service v renews was deleted: its orders have lost it. *)
Deleted(v) ==
  \E o \in OrdersOf(v.buyer) : About[bought[o].item] = About[v.item] /\ o \notin serviced

(* Amounts the customer's earlier orders had: never handed out again. *)
OwnAmounts(u) == {amount[o] : o \in OrdersOf(u)}
-----------------------------------------------------------------------------
(* create_order, when it places a new order.  Stale reservations expire    *)
(* first; a pending order of the same purchase but another code is         *)
(* dropped if nobody paid or uploaded anything; the new row takes an       *)
(* amount no lock holds.  (When it returns the customer's existing order,  *)
(* only the expiry changes anything: ExpireStaleReservations.)             *)
CreateOrder(o, v, a) ==
  /\ status[o] = "absent"
  /\ v.item \in Renewal => ~WaitingRenewal(v) /\ ~Deleted(v)
  /\ a \notin OwnAmounts(v.buyer)
  /\ \E D \in SUBSET Reusable(v) :
       /\ IF Reusable(v) = {} THEN D = {}
          ELSE \E p \in Reusable(v) : D = {p} /\ bought[p].code # v.code /\ pay[p] = "none"
       /\ LET gone == Stale \cup D
              released == gone \cup SameCode(v)
          IN /\ \A p \in Order \ gone : lock[p] # a
             /\ status' = [p \in Order |-> IF p = o THEN "pending_payment"
                                           ELSE IF p \in released THEN "expired" ELSE status[p]]
             /\ lock' = [p \in Order |-> IF p = o THEN a
                                         ELSE IF p \in released THEN NoAmount ELSE lock[p]]
  /\ amount' = [amount EXCEPT ![o] = a]
  /\ bought' = [bought EXCEPT ![o] = v]
  /\ serviced' = IF v.item \in Renewal THEN serviced \cup {o} ELSE serviced
  /\ UNCHANGED <<late, payVars, uploads, sent, running, delivered, waiting>>

(* The reservation's deadline; tracked only while it can still matter.     *)
DeadlinePasses(o) ==
  /\ ~late[o]
  /\ status[o] = "pending_payment" \/ prev[o] = "pending_payment"
  /\ late' = [late EXCEPT ![o] = TRUE]
  /\ UNCHANGED <<status, amount, lock, bought, payVars, uploads, taskVars>>

ExpireStaleReservations ==
  /\ Stale # {}
  /\ Released(Stale)
  /\ UNCHANGED <<amount, late, bought, payVars, uploads, taskVars>>

(* The site or the bot reads an order that may still get a receipt (the    *)
(* bot then downloads the photo from Telegram), and submit_receipt checks  *)
(* what was read: its status, and its deadline against the clock.          *)
ReadOrderForReceipt(o) ==
  /\ status[o] = "pending_payment"
  /\ ~late[o]
  /\ o \notin uploads
  /\ uploads' = uploads \cup {o}
  /\ UNCHANGED <<orderVars, payVars, taskVars>>

(* submit_receipt, the checks behind it: the photo is stored and the       *)
(* payment row, which alone is locked, is overwritten whatever its status  *)
(* is, whatever became of the order and of its deadline meanwhile.         *)
SubmitReceipt(o) ==
  /\ o \in uploads
  /\ uploads' = uploads \ {o}
  /\ pay' = [pay EXCEPT ![o] = "pending"]
  /\ UNCHANGED <<orderVars, voided, prev, touched, taskVars>>

(* The upload fails: deadline passed on the way, bad image, concurrent     *)
(* insert.                                                                 *)
AbandonReceipt(o) ==
  /\ o \in uploads
  /\ uploads' = uploads \ {o}
  /\ UNCHANGED <<orderVars, payVars, taskVars>>

(* flag_mismatch: a near-miss deposit opens a review on an open order.     *)
FlagMismatch(o) ==
  /\ status[o] \in {"pending_payment", "expired"}
  /\ pay[o] = "none"
  /\ pay' = [pay EXCEPT ![o] = "pending"]
  /\ UNCHANGED <<orderVars, voided, prev, touched, uploads, taskVars>>

(* _auto_confirm: a bank SMS of exactly this amount, or a slightly rounded *)
(* one with evidence, pays an order that was open when it arrived.         *)
SmsConfirm(o) ==
  /\ status[o] \in {"pending_payment", "expired"}
  /\ pay' = [pay EXCEPT ![o] = "approved"]
  /\ MarkPaid(o)
  /\ UNCHANGED <<amount, late, bought, voided, prev, touched, uploads, running, delivered, serviced,
                 waiting>>

(* match_blu_transaction: a Blu deposit pays the pending order that holds  *)
(* its amount, unless that order already has a live approved payment.      *)
BluConfirm(o) ==
  /\ status[o] = "pending_payment"
  /\ lock[o] # NoAmount
  /\ ~(pay[o] = "approved" /\ ~voided[o])
  /\ pay' = [pay EXCEPT ![o] = "approved"]
  /\ MarkPaid(o)
  /\ UNCHANGED <<amount, late, bought, voided, prev, touched, uploads, running, delivered, serviced,
                 waiting>>

(* blu_link.link: staff attach a deposit to an order not paid yet.         *)
AttachDeposit(o) ==
  /\ status[o] \in Fulfillable
  /\ ~(pay[o] = "approved" /\ ~voided[o])
  /\ pay' = [pay EXCEPT ![o] = "approved"]
  /\ MarkPaid(o)
  /\ UNCHANGED <<amount, late, bought, voided, prev, touched, uploads, running, delivered, serviced,
                 waiting>>

(* approve_payment: an order already paid or completed is left alone.      *)
ApprovePayment(o) ==
  /\ ~voided[o]
  /\ pay[o] \in {"pending", "rejected"}
  /\ pay' = [pay EXCEPT ![o] = "approved"]
  /\ \/ status[o] \in Fulfillable /\ MarkPaid(o)
     \/ status[o] \notin Fulfillable /\ UNCHANGED <<status, lock, sent>>
  /\ UNCHANGED <<amount, late, bought, voided, prev, touched, uploads, running, delivered, serviced,
                 waiting>>

RejectPayment_paid(o) ==
  /\ ~voided[o]
  /\ pay[o] \in {"pending", "rejected"}
  /\ pay' = [pay EXCEPT ![o] = "rejected"]
  /\ \/ status[o] \in {"pending_payment", "expired"} /\ MoveTo(o, "rejected")
     \/ status[o] \notin {"pending_payment", "expired"} /\ UNCHANGED <<status, lock>>
  /\ UNCHANGED <<amount, late, bought, voided, prev, touched, uploads, taskVars>>

(* reject_payment: refuses approved payments and orders already paid.      *)
RejectPayment(o) ==
  /\ ~voided[o]
  /\ pay[o] \in {"pending", "rejected"}
  /\ status[o] \notin {"paid", "completed"}
  /\ pay' = [pay EXCEPT ![o] = "rejected"]
  /\ \/ status[o] \in {"pending_payment", "expired"} /\ MoveTo(o, "rejected")
     \/ status[o] \notin {"pending_payment", "expired"} /\ UNCHANGED <<status, lock>>
  /\ UNCHANGED <<amount, late, bought, voided, prev, touched, uploads, taskVars>>

(* void_payment: "disable" and "delete" need a service and cancel the      *)
(* order; "keep" cancels it only while the payment is under review.  What  *)
(* cancels the order drops its scheduled renewal; deleting the service     *)
(* drops every renewal of it and detaches its orders.                      *)
VoidPayment(o, action) ==
  LET cancels == (action # "keep" \/ pay[o] = "pending") /\ status[o] # "cancelled"
      lost == IF action = "delete" THEN SameService(o) ELSE {}
  IN
  /\ pay[o] # "none" /\ ~voided[o]
  /\ action # "keep" => o \in serviced
  /\ voided' = [voided EXCEPT ![o] = TRUE]
  /\ touched' = touched \cup {o}
  /\ serviced' = serviced \ lost
  /\ \/ /\ cancels
        /\ prev' = [prev EXCEPT ![o] = status[o]]
        /\ MoveTo(o, "cancelled")
        /\ waiting' = waiting \ (lost \cup {o})
     \/ /\ ~cancels
        /\ waiting' = waiting \ lost
        /\ UNCHANGED <<prev, status, lock>>
  /\ UNCHANGED <<amount, late, bought, pay, uploads, sent, running, delivered>>

RestoredStatus_amountTaken(o) ==
  IF prev[o] = "pending_payment" /\ late[o] THEN "expired" ELSE prev[o]

(* restore_payment: the order's status comes back; a lapsed reservation,   *)
(* or one whose amount was taken meanwhile, becomes expired.               *)
RestoredStatus(o) ==
  IF prev[o] = "pending_payment" /\ late[o] THEN "expired"
  ELSE IF prev[o] \in ActiveUniqueStatuses /\ ~AmountFree(o, amount[o]) THEN "expired"
  ELSE prev[o]

RestorePayment(o) ==
  /\ voided[o]
  /\ \/ prev[o] # "absent" /\ status[o] = "cancelled" /\ MoveTo(o, RestoredStatus(o))
     \/ ~(prev[o] # "absent" /\ status[o] = "cancelled") /\ UNCHANGED <<status, lock>>
  /\ voided' = [voided EXCEPT ![o] = FALSE]
  /\ prev' = [prev EXCEPT ![o] = "absent"]
  /\ UNCHANGED <<amount, late, bought, pay, touched, uploads, taskVars>>
-----------------------------------------------------------------------------
(* retry_unfulfilled_orders (beat), and a lost message delivered again.    *)
RetryUnfulfilled(o) ==
  /\ status[o] = "paid"
  /\ o \notin sent
  /\ sent' = sent \cup {o}
  /\ UNCHANGED <<orderVars, payVars, uploads, running, delivered, serviced, waiting>>

(* fulfill_order reads the order, without a lock; a new service's row is   *)
(* made before the panel is called.  With acks_late the message stays.     *)
StartFulfil(w, o) ==
  /\ running[w] = NoOrder
  /\ o \in sent
  /\ status[o] \notin {"completed", "cancelled"}
  /\ running' = [running EXCEPT ![w] = o]
  /\ serviced' = IF bought[o].item \in Renewal THEN serviced ELSE serviced \cup {o}
  /\ UNCHANGED <<orderVars, payVars, uploads, sent, delivered, waiting>>

(* The task finds the order delivered or cancelled and only acknowledges.  *)
SkipFulfil(o) ==
  /\ o \in sent
  /\ status[o] \in {"completed", "cancelled"}
  /\ sent' = sent \ {o}
  /\ UNCHANGED <<orderVars, payVars, uploads, running, delivered, serviced, waiting>>

(* Another paid renewal of the service waits already. *)
RenewalTaken(o) == \E p \in SameService(o) : p # o /\ p \in waiting

Deliver_replaces(w) ==
  LET o == running[w] IN
  /\ o # NoOrder /\ w \notin delivered
  /\ waiting' = IF bought[o].item \in Renewal THEN (waiting \ SameService(o)) \cup {o} ELSE waiting
  /\ delivered' = delivered \cup {w}
  /\ UNCHANGED <<orderVars, payVars, uploads, sent, running, serviced>>

(* The panel makes the account, or schedule_renewal queues the renewal of  *)
(* a service that still exists.                                            *)
Deliver(w) ==
  LET o == running[w] IN
  /\ o # NoOrder /\ w \notin delivered
  /\ \/ bought[o].item \notin Renewal /\ UNCHANGED waiting
     \/ /\ bought[o].item \in Renewal /\ o \in serviced
        /\ ~RenewalTaken(o)
        /\ waiting' = waiting \cup {o}
  /\ delivered' = delivered \cup {w}
  /\ UNCHANGED <<orderVars, payVars, uploads, sent, running, serviced>>

(* Delivered: the order is completed, whatever its status is by now.       *)
CompleteFulfil(w) ==
  /\ w \in delivered
  /\ MoveTo(running[w], "completed")
  /\ sent' = sent \ {running[w]}
  /\ running' = [running EXCEPT ![w] = NoOrder]
  /\ delivered' = delivered \ {w}
  /\ UNCHANGED <<amount, late, bought, payVars, uploads, serviced, waiting>>

(* _renewal_conflict: the waiting renewal is kept, this order fails.       *)
ConflictFulfil(w) ==
  LET o == running[w] IN
  /\ o # NoOrder /\ w \notin delivered
  /\ bought[o].item \in Renewal /\ RenewalTaken(o)
  /\ MoveTo(o, "failed")
  /\ sent' = sent \ {o}
  /\ running' = [running EXCEPT ![w] = NoOrder]
  /\ UNCHANGED <<amount, late, bought, payVars, uploads, delivered, serviced, waiting>>

(* The panel is down (the message is retried), refuses the account or its  *)
(* name (our service row is dropped), or the worker dies: the status stays. *)
AbortFulfil(w) ==
  LET o == running[w] IN
  /\ o # NoOrder
  /\ running' = [running EXCEPT ![w] = NoOrder]
  /\ delivered' = delivered \ {w}
  /\ sent' \in {sent, sent \ {o}}
  /\ serviced' \in IF w \in delivered \/ bought[o].item \in Renewal THEN {serviced}
                   ELSE {serviced, serviced \ {o}}
  /\ UNCHANGED <<orderVars, payVars, uploads, waiting>>

(* apply_scheduled_renewal: the service reached the end of its cycle.      *)
ApplyRenewal(o) ==
  /\ o \in waiting
  /\ waiting' = waiting \ {o}
  /\ UNCHANGED <<orderVars, payVars, uploads, sent, running, delivered, serviced>>
-----------------------------------------------------------------------------
Next ==
  \/ \E o \in Order, v \in Invoice, a \in Amount : CreateOrder(o, v, a)
  \/ ExpireStaleReservations
  \/ \E o \in Order :
       \/ DeadlinePasses(o)
       \/ ReadOrderForReceipt(o) \/ SubmitReceipt(o) \/ AbandonReceipt(o)
       \/ FlagMismatch(o) \/ SmsConfirm(o) \/ BluConfirm(o) \/ AttachDeposit(o)
       \/ ApprovePayment(o) \/ RejectPayment(o)
       \/ \E action \in {"keep", "disable", "delete"} : VoidPayment(o, action)
       \/ RestorePayment(o)
       \/ RetryUnfulfilled(o) \/ SkipFulfil(o) \/ ApplyRenewal(o)
       \/ \E w \in Worker : StartFulfil(w, o)
  \/ \E w \in Worker : Deliver(w) \/ CompleteFulfil(w) \/ ConflictFulfil(w) \/ AbortFulfil(w)

Spec == Init /\ [][Next]_vars

(* Time passes, and Celery beat keeps running                              *)
(* expire_stale_reservations_task; customers, staff, banks and the panel   *)
(* owe us nothing.                                                         *)
FairSpec ==
  /\ Spec
  /\ \A o \in Order : WF_vars(DeadlinePasses(o))
  /\ WF_vars(ExpireStaleReservations)
-----------------------------------------------------------------------------
(* A reservation the customer can still pay holds its own amount, and only *)
(* a pending or paid order holds one: whatever releases, pays, cancels or  *)
(* restores an order keeps the lock in step with the status.               *)
LockDiscipline ==
  \A o \in Order :
    /\ status[o] = "pending_payment" => lock[o] = amount[o] /\ amount[o] \in Amount
    /\ lock[o] # NoAmount => status[o] \in ActiveUniqueStatuses /\ lock[o] = amount[o]

(* The database's UNIQUE index never has to refuse a save that is not      *)
(* guarded against it.                                                     *)
LockUnique == \A o, p \in Order : o # p /\ lock[o] # NoAmount => lock[o] # lock[p]

(* Two open invoices never ask for the same amount, so that a deposit of   *)
(* that amount points at one order: the reason for unique amounts.         *)
OpenAmountsDistinct ==
  \A o, p \in Order :
    o # p /\ status[o] = "pending_payment" /\ status[p] = "pending_payment"
      => amount[o] # amount[p]

(* An approved payment's order is never left waiting for the money again   *)
(* (nor closed as rejected), whatever order approvals, deposits, voids,    *)
(* restores and receipts come in.                                          *)
ApprovedNeverAwaitsPayment ==
  \A o \in Order : pay[o] = "approved" =>
    status[o] \notin {"absent", "pending_payment", "rejected"}

(* A paid order keeps a payment staff cannot have rejected, and an order   *)
(* was never delivered that nobody paid, also when receipts arrive late    *)
(* and payments are deleted and restored.                                  *)
PaidHasPayment ==
  \A o \in Order : /\ status[o] = "paid" => pay[o] \in {"approved", "pending"}
                   /\ status[o] = "completed" => pay[o] # "none"

(* A receipt under review keeps its reservation: neither the beat task nor *)
(* a new invoice takes the order away from the staff who look at it.       *)
ReservationSurvivesReview ==
  [][\A o \in Order : status[o] = "pending_payment" /\ status'[o] = "expired"
                        => pay[o] # "pending"]_vars

(* A cancelled order comes back only when its void is undone, or when a    *)
(* worker was already delivering it.                                       *)
CancelledComesBackOnlyByRestore ==
  [][\A o \in Order : status[o] = "cancelled" /\ status'[o] # "cancelled"
       => \/ voided[o] /\ ~voided'[o]
          \/ \E w \in Worker : running[w] = o]_vars

(* No amount is reserved for ever by an invoice nobody pays: every open    *)
(* reservation ends, or staff have a receipt to decide about.              *)
ReservationEnds ==
  \A o \in Order : status[o] = "pending_payment"
                     ~> status[o] # "pending_payment" \/ pay[o] = "pending"

(* A paid renewal that waits for the end of the current cycle is dropped   *)
(* by nothing but its application or a void, never by another order.       *)
PaidRenewalKept ==
  [][waiting \subseteq waiting' \/ voided' # voided
       \/ UNCHANGED <<orderVars, payVars, uploads, sent, running, delivered, serviced>>]_vars
(* What makes the invariants above inductive.  A row is created once and   *)
(* only then has an amount, receipts and a payment; a message or a task of *)
(* fulfill_order exists only for an order that has a payment; and the      *)
(* status that restoring a cancelled order brings back fits its payment.   *)
RowInv ==
  \A o \in Order : /\ status[o] # "absent" <=> amount[o] \in Amount
                   /\ pay[o] # "none" \/ o \in uploads => status[o] # "absent"

TaskInv ==
  /\ \A o \in sent : pay[o] # "none"
  /\ \A w \in Worker : /\ running[w] # NoOrder => pay[running[w]] # "none"
                       /\ w \in delivered => running[w] # NoOrder

VoidInv ==
  \A o \in Order :
    /\ ~voided[o] => prev[o] = "absent"
    /\ voided[o] => pay[o] # "none"
    /\ voided[o] /\ status[o] = "cancelled" =>
         /\ prev[o] \in {"pending_payment", "rejected"} => pay[o] # "approved"
         /\ prev[o] = "paid" => pay[o] \in {"approved", "pending"}

IInv ==
  /\ TypeOK
  /\ LockDiscipline /\ LockUnique
  /\ ApprovedNeverAwaitsPayment /\ PaidHasPayment
  /\ RowInv /\ TaskInv /\ VoidInv

(* The unique amounts are a pool as AmountPool describes it: an order      *)
(* reserves one amount in its life and takes it back only while it is free. *)
Pool == INSTANCE AmountPool WITH own <- amount, held <- lock
PoolSpec == Pool!Spec

(* Seen without locks, an order and its payment change as OrderLife says.  *)
Life == INSTANCE OrderLife WITH late <- {o \in Order : late[o]}
LifeSpec == Life!Spec
-----------------------------------------------------------------------------
(* What the repository says of the code and the code does not do.          *)

(* submit_receipt refuses a closed order: "no more receipts on a closed    *)
(* order".  It looks at the order as the bot read it before two network    *)
(* calls, so an order paid meanwhile has its approved payment overwritten. *)
NoReceiptOnClosedOrder ==
  [][\A o \in uploads \ uploads' :
       pay'[o] # pay[o] => status[o] = "pending_payment"]_vars

(* fulfill_order never delivers an order whose payment was deleted with    *)
(* "cancel the order".  A task that read the order before does.            *)
CancelledNeverDelivered ==
  [][\A o \in Order : status[o] = "cancelled" => status'[o] # "completed"]_vars

(* _renewal_conflict tells staff that the order "was NOT queued (status:   *)
(* failed)".  Of two tasks of one renewal the late one may find another    *)
(* renewal waiting after this one was delivered, completed and applied.    *)
FailedWasNotQueued ==
  [][\A o \in Order : status[o] = "completed" => status'[o] # "failed"]_vars
=============================================================================
