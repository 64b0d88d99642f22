--------------------------- MODULE CheckoutProofs ---------------------------
(***************************************************************************)
(* Proofs about Checkout, for any number of orders, customers, amounts,    *)
(* items, discount codes and workers.                                      *)
(***************************************************************************)
EXTENDS Checkout, TLAPS

LockInv == LockDiscipline /\ LockUnique

(* The three ways an action touches locks: it moves an order to a status,  *)
(* pays it, or releases a set of reservations.                             *)
LEMMA MoveToLocks ==
  ASSUME TypeOK, LockInv, NEW o \in Order, NEW s \in OrderStatus, MoveTo(o, s), amount' = amount,
         s \in ActiveUniqueStatuses => amount[o] \in Amount /\ AmountFree(o, amount[o])
  PROVE  /\ LockInv'
         /\ status' \in [Order -> OrderStatus \cup {"absent"}]
         /\ lock' \in [Order -> Amount \cup {NoAmount}]
BY CheckoutAssumption, SMTT(30) DEF TypeOK, LockInv, LockDiscipline, LockUnique, MoveTo, LockFor,
     ActiveUniqueStatuses, AmountFree, OrderStatus

LEMMA MarkPaidLocks ==
  ASSUME TypeOK, LockInv, NEW o \in Order, MarkPaid(o), amount' = amount, amount[o] \in Amount
  PROVE  /\ LockInv'
         /\ status' \in [Order -> OrderStatus \cup {"absent"}]
         /\ lock' \in [Order -> Amount \cup {NoAmount}]
         /\ sent' \subseteq Order
BY CheckoutAssumption, SMTT(30) DEF TypeOK, LockInv, LockDiscipline, LockUnique, MarkPaid,
     ActiveUniqueStatuses, AmountFree, OrderStatus

LEMMA ReleasedLocks ==
  ASSUME TypeOK, LockInv, NEW S \in SUBSET Order, Released(S), amount' = amount
  PROVE  /\ LockInv'
         /\ status' \in [Order -> OrderStatus \cup {"absent"}]
         /\ lock' \in [Order -> Amount \cup {NoAmount}]
BY CheckoutAssumption, SMTT(30) DEF TypeOK, LockInv, LockDiscipline, LockUnique, Released,
     ActiveUniqueStatuses, OrderStatus
-----------------------------------------------------------------------------
PayInv == ApprovedNeverAwaitsPayment /\ PaidHasPayment /\ RowInv /\ TaskInv /\ VoidInv

LEMMA InitIInv == Init => IInv
BY CheckoutAssumption DEF Init, IInv, TypeOK, LockDiscipline, LockUnique, ApprovedNeverAwaitsPayment,
     PaidHasPayment, RowInv, TaskInv, VoidInv, OrderStatus, PaymentStatus, ActiveUniqueStatuses

LEMMA SmsConfirmIInv ==
  ASSUME IInv, NEW o \in Order, SmsConfirm(o) PROVE IInv'
<1>1. amount[o] \in Amount /\ MarkPaid(o) /\ amount' = amount
  BY DEF IInv, RowInv, SmsConfirm
<1>2. LockInv' /\ status' \in [Order -> OrderStatus \cup {"absent"}]
      /\ lock' \in [Order -> Amount \cup {NoAmount}] /\ sent' \subseteq Order
  BY <1>1, MarkPaidLocks DEF IInv, LockInv
<1>3. TypeOK'
  BY <1>2 DEF IInv, TypeOK, SmsConfirm, PaymentStatus
<1>4. PayInv'
  BY <1>1 DEF IInv, TypeOK, PayInv, SmsConfirm, MarkPaid, ApprovedNeverAwaitsPayment, PaidHasPayment, RowInv,
       TaskInv, VoidInv, PaymentStatus
<1> QED BY <1>2, <1>3, <1>4 DEF IInv, LockInv, PayInv

LEMMA BluConfirmIInv ==
  ASSUME IInv, NEW o \in Order, BluConfirm(o) PROVE IInv'
<1>1. amount[o] \in Amount /\ MarkPaid(o) /\ amount' = amount
  BY DEF IInv, RowInv, BluConfirm
<1>2. LockInv' /\ status' \in [Order -> OrderStatus \cup {"absent"}]
      /\ lock' \in [Order -> Amount \cup {NoAmount}] /\ sent' \subseteq Order
  BY <1>1, MarkPaidLocks DEF IInv, LockInv
<1>3. TypeOK'
  BY <1>2 DEF IInv, TypeOK, BluConfirm, PaymentStatus
<1>4. PayInv'
  BY <1>1 DEF IInv, TypeOK, PayInv, BluConfirm, MarkPaid, ApprovedNeverAwaitsPayment, PaidHasPayment, RowInv,
       TaskInv, VoidInv, PaymentStatus
<1> QED BY <1>2, <1>3, <1>4 DEF IInv, LockInv, PayInv

LEMMA AttachDepositIInv ==
  ASSUME IInv, NEW o \in Order, AttachDeposit(o) PROVE IInv'
<1>1. amount[o] \in Amount /\ MarkPaid(o) /\ amount' = amount
  BY DEF IInv, RowInv, AttachDeposit, Fulfillable
<1>2. LockInv' /\ status' \in [Order -> OrderStatus \cup {"absent"}]
      /\ lock' \in [Order -> Amount \cup {NoAmount}] /\ sent' \subseteq Order
  BY <1>1, MarkPaidLocks DEF IInv, LockInv
<1>3. TypeOK'
  BY <1>2 DEF IInv, TypeOK, AttachDeposit, PaymentStatus
<1>4. PayInv'
  BY <1>1 DEF IInv, TypeOK, PayInv, AttachDeposit, MarkPaid, ApprovedNeverAwaitsPayment, PaidHasPayment, RowInv,
       TaskInv, VoidInv, PaymentStatus
<1> QED BY <1>2, <1>3, <1>4 DEF IInv, LockInv, PayInv

(* The actions that leave status, lock and amount alone. *)
LEMMA SameLocks ==
  ASSUME LockInv, UNCHANGED <<status, amount, lock>> PROVE LockInv'
BY DEF LockInv, LockDiscipline, LockUnique, ActiveUniqueStatuses

LEMMA DeadlinePassesIInv ==
  ASSUME IInv, NEW o \in Order, DeadlinePasses(o) PROVE IInv'
<1>1. TypeOK'
  BY DEF IInv, TypeOK, DeadlinePasses, orderVars, payVars, taskVars, PaymentStatus
<1>2. LockInv'
  BY SameLocks DEF IInv, LockInv, DeadlinePasses, orderVars
<1>3. PayInv'
  BY DEF IInv, TypeOK, DeadlinePasses, orderVars, payVars, taskVars, PayInv, ApprovedNeverAwaitsPayment, PaidHasPayment, RowInv,
       TaskInv, VoidInv
<1> QED BY <1>1, <1>2, <1>3 DEF IInv, LockInv, PayInv

LEMMA ReadOrderForReceiptIInv ==
  ASSUME IInv, NEW o \in Order, ReadOrderForReceipt(o) PROVE IInv'
<1>1. TypeOK'
  BY DEF IInv, TypeOK, ReadOrderForReceipt, orderVars, payVars, taskVars, PaymentStatus
<1>2. LockInv'
  BY SameLocks DEF IInv, LockInv, ReadOrderForReceipt, orderVars
<1>3. PayInv'
  BY DEF IInv, TypeOK, ReadOrderForReceipt, orderVars, payVars, taskVars, PayInv, ApprovedNeverAwaitsPayment, PaidHasPayment, RowInv,
       TaskInv, VoidInv
<1> QED BY <1>1, <1>2, <1>3 DEF IInv, LockInv, PayInv

LEMMA SubmitReceiptIInv ==
  ASSUME IInv, NEW o \in Order, SubmitReceipt(o) PROVE IInv'
<1>1. TypeOK'
  BY DEF IInv, TypeOK, SubmitReceipt, orderVars, payVars, taskVars, PaymentStatus
<1>2. LockInv'
  BY SameLocks DEF IInv, LockInv, SubmitReceipt, orderVars
<1>3. PayInv'
  BY DEF IInv, TypeOK, SubmitReceipt, orderVars, payVars, taskVars, PayInv, ApprovedNeverAwaitsPayment, PaidHasPayment, RowInv,
       TaskInv, VoidInv
<1> QED BY <1>1, <1>2, <1>3 DEF IInv, LockInv, PayInv

LEMMA AbandonReceiptIInv ==
  ASSUME IInv, NEW o \in Order, AbandonReceipt(o) PROVE IInv'
<1>1. TypeOK'
  BY DEF IInv, TypeOK, AbandonReceipt, orderVars, payVars, taskVars, PaymentStatus
<1>2. LockInv'
  BY SameLocks DEF IInv, LockInv, AbandonReceipt, orderVars
<1>3. PayInv'
  BY DEF IInv, TypeOK, AbandonReceipt, orderVars, payVars, taskVars, PayInv, ApprovedNeverAwaitsPayment, PaidHasPayment, RowInv,
       TaskInv, VoidInv
<1> QED BY <1>1, <1>2, <1>3 DEF IInv, LockInv, PayInv

LEMMA FlagMismatchIInv ==
  ASSUME IInv, NEW o \in Order, FlagMismatch(o) PROVE IInv'
<1>1. TypeOK'
  BY DEF IInv, TypeOK, FlagMismatch, orderVars, payVars, taskVars, PaymentStatus
<1>2. LockInv'
  BY SameLocks DEF IInv, LockInv, FlagMismatch, orderVars
<1>3. PayInv'
  BY DEF IInv, TypeOK, FlagMismatch, orderVars, payVars, taskVars, PayInv, ApprovedNeverAwaitsPayment, PaidHasPayment, RowInv,
       TaskInv, VoidInv
<1> QED BY <1>1, <1>2, <1>3 DEF IInv, LockInv, PayInv

LEMMA RetryUnfulfilledIInv ==
  ASSUME IInv, NEW o \in Order, RetryUnfulfilled(o) PROVE IInv'
<1>1. TypeOK'
  BY DEF IInv, TypeOK, RetryUnfulfilled, orderVars, payVars, taskVars, PaymentStatus
<1>2. LockInv'
  BY SameLocks DEF IInv, LockInv, RetryUnfulfilled, orderVars
<1>3. PayInv'
  BY DEF IInv, TypeOK, RetryUnfulfilled, orderVars, payVars, taskVars, PayInv, ApprovedNeverAwaitsPayment, PaidHasPayment, RowInv,
       TaskInv, VoidInv
<1> QED BY <1>1, <1>2, <1>3 DEF IInv, LockInv, PayInv

LEMMA SkipFulfilIInv ==
  ASSUME IInv, NEW o \in Order, SkipFulfil(o) PROVE IInv'
<1>1. TypeOK'
  BY DEF IInv, TypeOK, SkipFulfil, orderVars, payVars, taskVars, PaymentStatus
<1>2. LockInv'
  BY SameLocks DEF IInv, LockInv, SkipFulfil, orderVars
<1>3. PayInv'
  BY DEF IInv, TypeOK, SkipFulfil, orderVars, payVars, taskVars, PayInv, ApprovedNeverAwaitsPayment, PaidHasPayment, RowInv,
       TaskInv, VoidInv
<1> QED BY <1>1, <1>2, <1>3 DEF IInv, LockInv, PayInv

LEMMA ApplyRenewalIInv ==
  ASSUME IInv, NEW o \in Order, ApplyRenewal(o) PROVE IInv'
<1>1. TypeOK'
  BY DEF IInv, TypeOK, ApplyRenewal, orderVars, payVars, taskVars, PaymentStatus
<1>2. LockInv'
  BY SameLocks DEF IInv, LockInv, ApplyRenewal, orderVars
<1>3. PayInv'
  BY DEF IInv, TypeOK, ApplyRenewal, orderVars, payVars, taskVars, PayInv, ApprovedNeverAwaitsPayment, PaidHasPayment, RowInv,
       TaskInv, VoidInv
<1> QED BY <1>1, <1>2, <1>3 DEF IInv, LockInv, PayInv

LEMMA StartFulfilIInv ==
  ASSUME IInv, NEW w \in Worker, NEW o \in Order, StartFulfil(w, o) PROVE IInv'
<1>1. TypeOK'
  BY DEF IInv, TypeOK, StartFulfil, orderVars, payVars, taskVars, PaymentStatus
<1>2. LockInv'
  BY SameLocks DEF IInv, LockInv, StartFulfil, orderVars
<1>3. PayInv'
  BY DEF IInv, TypeOK, StartFulfil, orderVars, payVars, taskVars, PayInv, ApprovedNeverAwaitsPayment, PaidHasPayment, RowInv,
       TaskInv, VoidInv
<1> QED BY <1>1, <1>2, <1>3 DEF IInv, LockInv, PayInv

LEMMA DeliverIInv ==
  ASSUME IInv, NEW w \in Worker, Deliver(w) PROVE IInv'
<1>1. TypeOK'
  BY DEF IInv, TypeOK, Deliver, orderVars, payVars, taskVars, PaymentStatus
<1>2. LockInv'
  BY SameLocks DEF IInv, LockInv, Deliver, orderVars
<1>3. PayInv'
  BY DEF IInv, TypeOK, Deliver, orderVars, payVars, taskVars, PayInv, ApprovedNeverAwaitsPayment, PaidHasPayment, RowInv,
       TaskInv, VoidInv
<1> QED BY <1>1, <1>2, <1>3 DEF IInv, LockInv, PayInv

LEMMA AbortFulfilIInv ==
  ASSUME IInv, NEW w \in Worker, AbortFulfil(w) PROVE IInv'
<1>1. TypeOK'
  BY DEF IInv, TypeOK, AbortFulfil, orderVars, payVars, taskVars, PaymentStatus
<1>2. LockInv'
  BY SameLocks DEF IInv, LockInv, AbortFulfil, orderVars
<1>3. PayInv'
  BY DEF IInv, TypeOK, AbortFulfil, orderVars, payVars, taskVars, PayInv, ApprovedNeverAwaitsPayment, PaidHasPayment, RowInv,
       TaskInv, VoidInv
<1> QED BY <1>1, <1>2, <1>3 DEF IInv, LockInv, PayInv

LEMMA ExpireStaleReservationsIInv ==
  ASSUME IInv, ExpireStaleReservations PROVE IInv'
<1>1. LockInv' /\ status' \in [Order -> OrderStatus \cup {"absent"}]
      /\ lock' \in [Order -> Amount \cup {NoAmount}]
  BY ReleasedLocks DEF IInv, LockInv, ExpireStaleReservations, Stale
<1>2. TypeOK'
  BY <1>1 DEF IInv, TypeOK, ExpireStaleReservations, payVars, taskVars
<1>3. PayInv'
  BY DEF IInv, TypeOK, ExpireStaleReservations, Stale, Released, payVars, taskVars, PayInv, ApprovedNeverAwaitsPayment, PaidHasPayment, RowInv,
       TaskInv, VoidInv
<1> QED BY <1>1, <1>2, <1>3 DEF IInv, LockInv, PayInv

LEMMA ApprovePaymentIInv ==
  ASSUME IInv, NEW o \in Order, ApprovePayment(o) PROVE IInv'
<1>1. CASE MarkPaid(o)
  <2>1. LockInv' /\ status' \in [Order -> OrderStatus \cup {"absent"}]
        /\ lock' \in [Order -> Amount \cup {NoAmount}] /\ sent' \subseteq Order
    BY <1>1, MarkPaidLocks DEF IInv, LockInv, RowInv, ApprovePayment
  <2>2. TypeOK'
    BY <2>1 DEF IInv, TypeOK, ApprovePayment, PaymentStatus
  <2>3. PayInv'
    BY <1>1 DEF IInv, TypeOK, ApprovePayment, MarkPaid, PayInv, ApprovedNeverAwaitsPayment, PaidHasPayment, RowInv,
       TaskInv, VoidInv
  <2> QED BY <2>1, <2>2, <2>3 DEF IInv, LockInv, PayInv
<1>2. CASE status[o] \notin Fulfillable /\ UNCHANGED <<status, lock, sent>>
  <2>1. LockInv'
    BY <1>2, SameLocks DEF IInv, LockInv, ApprovePayment
  <2>2. TypeOK'
    BY <1>2 DEF IInv, TypeOK, ApprovePayment, PaymentStatus
  <2>3. PayInv'
    BY <1>2 DEF IInv, TypeOK, ApprovePayment, Fulfillable, PayInv, ApprovedNeverAwaitsPayment, PaidHasPayment, RowInv,
       TaskInv, VoidInv
  <2> QED BY <2>1, <2>2, <2>3 DEF IInv, LockInv, PayInv
<1> QED BY <1>1, <1>2 DEF ApprovePayment

LEMMA RejectPaymentIInv ==
  ASSUME IInv, NEW o \in Order, RejectPayment(o) PROVE IInv'
<1>1. LockInv' /\ status' \in [Order -> OrderStatus \cup {"absent"}]
      /\ lock' \in [Order -> Amount \cup {NoAmount}]
  <2>1. CASE MoveTo(o, "rejected")
    BY <2>1, MoveToLocks DEF IInv, LockInv, TypeOK, RowInv, RejectPayment, OrderStatus, ActiveUniqueStatuses
  <2>2. CASE UNCHANGED <<status, lock>>
    BY <2>2, SameLocks DEF IInv, LockInv, TypeOK, RejectPayment
  <2> QED BY <2>1, <2>2 DEF RejectPayment
<1>2. TypeOK'
  BY <1>1 DEF IInv, TypeOK, RejectPayment, PaymentStatus, OrderStatus, taskVars
<1>3. PayInv'
  BY DEF IInv, TypeOK, RejectPayment, MoveTo, taskVars, PayInv, ApprovedNeverAwaitsPayment, PaidHasPayment, RowInv,
       TaskInv, VoidInv
<1> QED BY <1>1, <1>2, <1>3 DEF IInv, LockInv, PayInv

LEMMA VoidPaymentIInv ==
  ASSUME IInv, NEW o \in Order, NEW action \in {"keep", "disable", "delete"}, VoidPayment(o, action) PROVE IInv'
<1>1. LockInv' /\ status' \in [Order -> OrderStatus \cup {"absent"}]
      /\ lock' \in [Order -> Amount \cup {NoAmount}]
  <2>1. CASE MoveTo(o, "cancelled")
    BY <2>1, MoveToLocks DEF IInv, LockInv, TypeOK, RowInv, VoidPayment, OrderStatus, ActiveUniqueStatuses
  <2>2. CASE UNCHANGED <<status, lock>>
    BY <2>2, SameLocks DEF IInv, LockInv, TypeOK, VoidPayment
  <2> QED BY <2>1, <2>2 DEF VoidPayment
<1>2. TypeOK'
  BY <1>1 DEF IInv, TypeOK, VoidPayment, PaymentStatus, OrderStatus, taskVars
<1>3. PayInv'
  BY DEF IInv, TypeOK, VoidPayment, MoveTo, taskVars, PayInv, ApprovedNeverAwaitsPayment, PaidHasPayment, RowInv,
       TaskInv, VoidInv
<1> QED BY <1>1, <1>2, <1>3 DEF IInv, LockInv, PayInv

LEMMA RestorePaymentIInv ==
  ASSUME IInv, NEW o \in Order, RestorePayment(o) PROVE IInv'
<1>1. LockInv' /\ status' \in [Order -> OrderStatus \cup {"absent"}]
      /\ lock' \in [Order -> Amount \cup {NoAmount}]
  <2>1. CASE prev[o] # "absent" /\ MoveTo(o, RestoredStatus(o))
    <3>1. RestoredStatus(o) \in OrderStatus
      BY <2>1 DEF IInv, TypeOK, RestoredStatus, OrderStatus
    <3>2. RestoredStatus(o) \in ActiveUniqueStatuses => AmountFree(o, amount[o])
      BY DEF RestoredStatus, ActiveUniqueStatuses
    <3>3. amount[o] \in Amount /\ amount' = amount
      BY DEF IInv, VoidInv, RowInv, RestorePayment
    <3> QED BY <2>1, <3>1, <3>2, <3>3, MoveToLocks DEF IInv, LockInv
  <2>2. CASE UNCHANGED <<status, lock>>
    BY <2>2, SameLocks DEF IInv, LockInv, TypeOK, RestorePayment
  <2> QED BY <2>1, <2>2 DEF RestorePayment
<1>2. TypeOK'
  BY <1>1 DEF IInv, TypeOK, RestorePayment, PaymentStatus, OrderStatus, taskVars
<1>3. PayInv'
  BY DEF IInv, TypeOK, RestorePayment, MoveTo, taskVars, PayInv, ApprovedNeverAwaitsPayment, PaidHasPayment, RowInv,
       TaskInv, VoidInv, RestoredStatus, OrderStatus
<1> QED BY <1>1, <1>2, <1>3 DEF IInv, LockInv, PayInv

LEMMA CompleteFulfilIInv ==
  ASSUME IInv, NEW w \in Worker, CompleteFulfil(w) PROVE IInv'
<1>1. running[w] \in Order /\ MoveTo(running[w], "completed")
  BY DEF IInv, TypeOK, TaskInv, CompleteFulfil
<1>2. LockInv' /\ status' \in [Order -> OrderStatus \cup {"absent"}]
      /\ lock' \in [Order -> Amount \cup {NoAmount}]
  BY <1>1, MoveToLocks DEF IInv, LockInv, CompleteFulfil, OrderStatus, ActiveUniqueStatuses
<1>3. TypeOK'
  BY <1>1, <1>2 DEF IInv, TypeOK, CompleteFulfil, payVars
<1>4. PayInv'
  BY <1>1 DEF IInv, TypeOK, CompleteFulfil, MoveTo, payVars, PayInv, ApprovedNeverAwaitsPayment, PaidHasPayment, RowInv,
       TaskInv, VoidInv
<1> QED BY <1>2, <1>3, <1>4 DEF IInv, LockInv, PayInv

LEMMA ConflictFulfilIInv ==
  ASSUME IInv, NEW w \in Worker, ConflictFulfil(w) PROVE IInv'
<1>1. running[w] \in Order /\ MoveTo(running[w], "failed")
  BY DEF IInv, TypeOK, TaskInv, ConflictFulfil
<1>2. LockInv' /\ status' \in [Order -> OrderStatus \cup {"absent"}]
      /\ lock' \in [Order -> Amount \cup {NoAmount}]
  BY <1>1, MoveToLocks DEF IInv, LockInv, ConflictFulfil, OrderStatus, ActiveUniqueStatuses
<1>3. TypeOK'
  BY <1>1, <1>2 DEF IInv, TypeOK, ConflictFulfil, payVars
<1>4. PayInv'
  BY <1>1 DEF IInv, TypeOK, ConflictFulfil, MoveTo, payVars, PayInv, ApprovedNeverAwaitsPayment, PaidHasPayment, RowInv,
       TaskInv, VoidInv
<1> QED BY <1>2, <1>3, <1>4 DEF IInv, LockInv, PayInv

LEMMA CreateOrderIInv ==
  ASSUME IInv, NEW o \in Order, NEW v \in Invoice, NEW a \in Amount, CreateOrder(o, v, a) PROVE IInv'
<1>1. PICK R \in SUBSET Order :
        /\ o \notin R /\ \A p \in R : status[p] = "pending_payment"
        /\ \A p \in Order \ R : lock[p] # a
        /\ status' = [p \in Order |-> IF p = o THEN "pending_payment"
                                      ELSE IF p \in R THEN "expired" ELSE status[p]]
        /\ lock' = [p \in Order |-> IF p = o THEN a
                                    ELSE IF p \in R THEN NoAmount ELSE lock[p]]
  <2>1. PICK D \in SUBSET Reusable(v) :
          LET gone == Stale \cup D
              released == gone \cup SameCode(v)
          IN /\ \A p \in Order \ gone : lock[p] # a
             /\ status' = [p \in Order |-> IF p = o THEN "pending_payment"
                                           ELSE IF p \in released THEN "expired" ELSE status[p]]
             /\ lock' = [p \in Order |-> IF p = o THEN a
                                         ELSE IF p \in released THEN NoAmount ELSE lock[p]]
    BY DEF CreateOrder
  <2>2. status[o] = "absent"
    BY DEF CreateOrder
  <2> QED BY <2>1, <2>2 DEF Stale, Reusable, SameCode, OrdersOf
<1>2. amount' = [amount EXCEPT ![o] = a] /\ status[o] = "absent"
  BY DEF CreateOrder
<1>3. LockInv'
  BY <1>1, <1>2 DEF IInv, TypeOK, LockInv, LockDiscipline, LockUnique, ActiveUniqueStatuses
<1>4. TypeOK'
  BY <1>1, <1>2 DEF IInv, TypeOK, CreateOrder, payVars, OrderStatus
<1>5. PayInv'
  BY <1>1, <1>2 DEF IInv, TypeOK, CreateOrder, payVars, PayInv, ApprovedNeverAwaitsPayment, PaidHasPayment, RowInv,
       TaskInv, VoidInv
<1> QED BY <1>3, <1>4, <1>5 DEF IInv, LockInv, PayInv

LEMMA StutterIInv == IInv /\ UNCHANGED vars => IInv'
BY DEF IInv, vars, orderVars, payVars, taskVars, TypeOK, LockDiscipline, LockUnique, ActiveUniqueStatuses,
     ApprovedNeverAwaitsPayment, PaidHasPayment, RowInv, TaskInv, VoidInv

LEMMA NextIInv == IInv /\ [Next]_vars => IInv'
<1> SUFFICES ASSUME IInv, [Next]_vars PROVE IInv'
  OBVIOUS
<1>1. ASSUME NEW o \in Order, NEW v \in Invoice, NEW a \in Amount, CreateOrder(o, v, a) PROVE IInv'
  BY <1>1, CreateOrderIInv
<1>2. CASE ExpireStaleReservations
  BY <1>2, ExpireStaleReservationsIInv
<1>3. ASSUME NEW o \in Order,
             \/ DeadlinePasses(o)
             \/ ReadOrderForReceipt(o) \/ SubmitReceipt(o) \/ AbandonReceipt(o)
             \/ FlagMismatch(o) \/ SmsConfirm(o) \/ BluConfirm(o) \/ AttachDeposit(o)
             \/ ApprovePayment(o) \/ RejectPayment(o)
             \/ \E action \in {"keep", "disable", "delete"} : VoidPayment(o, action)
             \/ RestorePayment(o)
             \/ RetryUnfulfilled(o) \/ SkipFulfil(o) \/ ApplyRenewal(o)
             \/ \E w \in Worker : StartFulfil(w, o)
      PROVE IInv'
  BY <1>3, DeadlinePassesIInv, ReadOrderForReceiptIInv, SubmitReceiptIInv, AbandonReceiptIInv,
     FlagMismatchIInv, SmsConfirmIInv, BluConfirmIInv, AttachDepositIInv, ApprovePaymentIInv,
     RejectPaymentIInv, VoidPaymentIInv, RestorePaymentIInv, RetryUnfulfilledIInv, SkipFulfilIInv,
     ApplyRenewalIInv, StartFulfilIInv
<1>4. ASSUME NEW w \in Worker, Deliver(w) \/ CompleteFulfil(w) \/ ConflictFulfil(w) \/ AbortFulfil(w)
      PROVE IInv'
  BY <1>4, DeliverIInv, CompleteFulfilIInv, ConflictFulfilIInv, AbortFulfilIInv
<1>5. CASE UNCHANGED vars
  BY <1>5, StutterIInv
<1> QED BY <1>1, <1>2, <1>3, <1>4, <1>5 DEF Next

-----------------------------------------------------------------------------
(* Every reachable state satisfies the inductive invariant. *)
THEOREM CheckoutInvariant == Spec => []IInv
BY InitIInv, NextIInv, PTL DEF Spec

(* The rows stay well typed whatever customers, staff, banks and workers do. *)
THEOREM CheckoutTypeOK == Spec => []TypeOK
<1>1. IInv => TypeOK
  BY DEF IInv
<1> QED BY <1>1, CheckoutInvariant, PTL

(* sync_unique_lock is called wherever it has to be: the lock follows the  *)
(* status, and no two orders hold the same amount.                         *)
THEOREM CheckoutLocks == Spec => []LockDiscipline /\ []LockUnique
<1>1. IInv => LockDiscipline /\ LockUnique
  BY DEF IInv
<1> QED BY <1>1, CheckoutInvariant, PTL

(* Two open invoices never ask for the same amount, so a deposit of it can *)
(* pay only one of them.                                                   *)
THEOREM CheckoutAmountsDistinct == Spec => []OpenAmountsDistinct
<1>1. IInv => OpenAmountsDistinct
  BY CheckoutAssumption DEF IInv, LockDiscipline, LockUnique, OpenAmountsDistinct
<1> QED BY <1>1, CheckoutInvariant, PTL

(* An approved payment's order is never waiting for money nor rejected.    *)
THEOREM CheckoutPayments == Spec => []ApprovedNeverAwaitsPayment
<1>1. IInv => ApprovedNeverAwaitsPayment
  BY DEF IInv
<1> QED BY <1>1, CheckoutInvariant, PTL

(* A paid order has a payment, and never a rejected one.                   *)
THEOREM CheckoutPaid == Spec => []PaidHasPayment
<1>1. IInv => PaidHasPayment
  BY DEF IInv
<1> QED BY <1>1, CheckoutInvariant, PTL
-----------------------------------------------------------------------------
(* What a step may never do.  The statuses an action may change, and from what.            *)
LEMMA ReviewStep ==
  ASSUME IInv, [Next]_vars, NEW o \in Order, status[o] = "pending_payment", status'[o] = "expired"
  PROVE  pay[o] # "pending"
<1>1. ASSUME NEW q \in Order, NEW v \in Invoice, NEW a \in Amount, CreateOrder(q, v, a)
      PROVE  pay[o] # "pending"
  <2>1. PICK D \in SUBSET Reusable(v) :
          /\ IF Reusable(v) = {} THEN D = {}
             ELSE \E p \in Reusable(v) : D = {p} /\ bought[p].code # v.code /\ pay[p] = "none"
          /\ status' = [p \in Order |-> IF p = q THEN "pending_payment"
                          ELSE IF p \in Stale \cup D \cup SameCode(v) THEN "expired" ELSE status[p]]
    BY <1>1 DEF CreateOrder
  <2>2. o \in Stale \cup D \cup SameCode(v)
    BY <2>1
  <2>3. o \in D => pay[o] = "none"
    BY <2>1
  <2> QED BY <2>2, <2>3 DEF Stale, SameCode
<1>2. CASE ExpireStaleReservations
  BY <1>2 DEF ExpireStaleReservations, Released, Stale
<1>3. ASSUME NEW q \in Order,
             SmsConfirm(q) \/ BluConfirm(q) \/ AttachDeposit(q) \/ ApprovePayment(q) \/ RejectPayment(q)
      PROVE  FALSE
  BY <1>3 DEF SmsConfirm, BluConfirm, AttachDeposit, ApprovePayment, RejectPayment, MarkPaid, MoveTo,
              IInv, TypeOK
<1>4. ASSUME NEW q \in Order, NEW action \in {"keep", "disable", "delete"}, VoidPayment(q, action)
      PROVE  FALSE
  BY <1>4 DEF VoidPayment, MoveTo, IInv, TypeOK
<1>5. ASSUME NEW q \in Order, RestorePayment(q) PROVE FALSE
  BY <1>5 DEF RestorePayment, MoveTo, IInv, TypeOK
<1>6. ASSUME NEW w \in Worker, CompleteFulfil(w) \/ ConflictFulfil(w) PROVE FALSE
  BY <1>6 DEF CompleteFulfil, ConflictFulfil, MoveTo, IInv, TypeOK
<1>7. status' # status
  BY DEF IInv, TypeOK
<1>8. ASSUME NEW q \in Order,
             \/ DeadlinePasses(q) \/ ReadOrderForReceipt(q) \/ SubmitReceipt(q) \/ AbandonReceipt(q)
             \/ FlagMismatch(q) \/ RetryUnfulfilled(q) \/ SkipFulfil(q) \/ ApplyRenewal(q)
             \/ \E w \in Worker : StartFulfil(w, q)
      PROVE  FALSE
  BY <1>7, <1>8 DEF DeadlinePasses, ReadOrderForReceipt, SubmitReceipt, AbandonReceipt, FlagMismatch,
     RetryUnfulfilled, SkipFulfil, ApplyRenewal, StartFulfil, orderVars
<1>9. ASSUME NEW w \in Worker, Deliver(w) \/ AbortFulfil(w) PROVE FALSE
  BY <1>7, <1>9 DEF Deliver, AbortFulfil, orderVars
<1>10. ~UNCHANGED vars
  BY <1>7 DEF vars, orderVars
<1> QED BY <1>1, <1>2, <1>3, <1>4, <1>5, <1>6, <1>8, <1>9, <1>10 DEF Next

(* A receipt under review keeps its reservation: the timer, a second       *)
(* purchase and the reuse of a code pass it over.                          *)
THEOREM CheckoutReviewKept == Spec => ReservationSurvivesReview
<1>1. IInv /\ [Next]_vars =>
        [\A o \in Order : status[o] = "pending_payment" /\ status'[o] = "expired"
                             => pay[o] # "pending"]_vars
  BY ReviewStep
<1> QED BY <1>1, CheckoutInvariant, PTL DEF Spec, ReservationSurvivesReview

LEMMA CancelledStep ==
  ASSUME IInv, [Next]_vars, NEW o \in Order, status[o] = "cancelled", status'[o] # "cancelled"
  PROVE  \/ voided[o] /\ ~voided'[o]
         \/ \E w \in Worker : running[w] = o
<1> DEFINE Goal == \/ voided[o] /\ ~voided'[o]
                  \/ \E w \in Worker : running[w] = o
<1>1. ASSUME NEW q \in Order, NEW v \in Invoice, NEW a \in Amount, CreateOrder(q, v, a) PROVE FALSE
  <2>1. PICK D \in SUBSET Reusable(v) :
          status' = [p \in Order |-> IF p = q THEN "pending_payment"
                       ELSE IF p \in Stale \cup D \cup SameCode(v) THEN "expired" ELSE status[p]]
    BY <1>1 DEF CreateOrder
  <2>2. o = q \/ o \in Stale \cup D \cup SameCode(v)
    BY <2>1
  <2> QED BY <1>1, <2>2 DEF Stale, SameCode, Reusable, CreateOrder
<1>2. CASE ExpireStaleReservations
  BY <1>2 DEF ExpireStaleReservations, Released, Stale
<1>3. ASSUME NEW q \in Order,
             SmsConfirm(q) \/ BluConfirm(q) \/ AttachDeposit(q) \/ ApprovePayment(q) \/ RejectPayment(q)
      PROVE  FALSE
  BY <1>3 DEF SmsConfirm, BluConfirm, AttachDeposit, ApprovePayment, RejectPayment, MarkPaid, MoveTo,
              Fulfillable, IInv, TypeOK
<1>4. ASSUME NEW q \in Order, NEW action \in {"keep", "disable", "delete"}, VoidPayment(q, action)
      PROVE  FALSE
  BY <1>4 DEF VoidPayment, MoveTo, IInv, TypeOK
<1>5. ASSUME NEW q \in Order, RestorePayment(q) PROVE Goal
  <2>1. q = o
    BY <1>5 DEF RestorePayment, MoveTo, IInv, TypeOK
  <2> QED BY <1>5, <2>1 DEF RestorePayment, IInv, TypeOK
<1>6. ASSUME NEW w \in Worker, CompleteFulfil(w) \/ ConflictFulfil(w) PROVE Goal
  <2>1. running[w] = o
    BY <1>6 DEF CompleteFulfil, ConflictFulfil, MoveTo, IInv, TypeOK
  <2> QED BY <2>1
<1>7. status' # status
  BY DEF IInv, TypeOK
<1>8. ASSUME NEW q \in Order,
             \/ DeadlinePasses(q) \/ ReadOrderForReceipt(q) \/ SubmitReceipt(q) \/ AbandonReceipt(q)
             \/ FlagMismatch(q) \/ RetryUnfulfilled(q) \/ SkipFulfil(q) \/ ApplyRenewal(q)
             \/ \E w \in Worker : StartFulfil(w, q)
      PROVE  FALSE
  BY <1>7, <1>8 DEF DeadlinePasses, ReadOrderForReceipt, SubmitReceipt, AbandonReceipt, FlagMismatch,
     RetryUnfulfilled, SkipFulfil, ApplyRenewal, StartFulfil, orderVars
<1>9. ASSUME NEW w \in Worker, Deliver(w) \/ AbortFulfil(w) PROVE FALSE
  BY <1>7, <1>9 DEF Deliver, AbortFulfil, orderVars
<1>10. ~UNCHANGED vars
  BY <1>7 DEF vars, orderVars
<1> QED BY <1>1, <1>2, <1>3, <1>4, <1>5, <1>6, <1>8, <1>9, <1>10 DEF Next

(* A cancelled order is revived by undoing the void, or by a worker that   *)
(* was delivering it already, and by nothing else.                         *)
THEOREM CheckoutCancelledStays == Spec => CancelledComesBackOnlyByRestore
<1>1. IInv /\ [Next]_vars =>
        [\A o \in Order : status[o] = "cancelled" /\ status'[o] # "cancelled"
           => \/ voided[o] /\ ~voided'[o]
              \/ \E w \in Worker : running[w] = o]_vars
  BY CancelledStep
<1> QED BY <1>1, CheckoutInvariant, PTL DEF Spec, CancelledComesBackOnlyByRestore

LEMMA WaitingStep ==
  ASSUME IInv, [Next]_vars, ~(waiting \subseteq waiting'), voided' = voided
  PROVE  UNCHANGED <<orderVars, payVars, uploads, sent, running, delivered, serviced>>
<1>1. ASSUME NEW q \in Order, NEW v \in Invoice, NEW a \in Amount, CreateOrder(q, v, a) PROVE FALSE
  BY <1>1 DEF CreateOrder
<1>2. CASE ExpireStaleReservations
  BY <1>2 DEF ExpireStaleReservations, taskVars
<1>3. ASSUME NEW q \in Order,
             SmsConfirm(q) \/ BluConfirm(q) \/ AttachDeposit(q) \/ ApprovePayment(q) \/ RejectPayment(q)
             \/ RestorePayment(q)
      PROVE  FALSE
  BY <1>3 DEF SmsConfirm, BluConfirm, AttachDeposit, ApprovePayment, RejectPayment, RestorePayment, taskVars
<1>4. ASSUME NEW q \in Order, NEW action \in {"keep", "disable", "delete"}, VoidPayment(q, action)
      PROVE  FALSE
  <2>1. voided' = [voided EXCEPT ![q] = TRUE] /\ ~voided[q]
    BY <1>4 DEF VoidPayment
  <2> QED BY <2>1 DEF IInv, TypeOK
<1>5. ASSUME NEW q \in Order,
             \/ DeadlinePasses(q) \/ ReadOrderForReceipt(q) \/ SubmitReceipt(q) \/ AbandonReceipt(q)
             \/ FlagMismatch(q) \/ RetryUnfulfilled(q) \/ SkipFulfil(q)
             \/ \E w \in Worker : StartFulfil(w, q)
      PROVE  FALSE
  BY <1>5 DEF DeadlinePasses, ReadOrderForReceipt, SubmitReceipt, AbandonReceipt, FlagMismatch,
     RetryUnfulfilled, SkipFulfil, StartFulfil, taskVars
<1>6. ASSUME NEW w \in Worker, Deliver(w) \/ CompleteFulfil(w) \/ ConflictFulfil(w) \/ AbortFulfil(w)
      PROVE  FALSE
  BY <1>6 DEF Deliver, CompleteFulfil, ConflictFulfil, AbortFulfil
<1>7. ~UNCHANGED vars
  BY DEF vars, taskVars
<1>8. ASSUME NEW q \in Order, ApplyRenewal(q)
      PROVE  UNCHANGED <<orderVars, payVars, uploads, sent, running, delivered, serviced>>
  BY <1>8 DEF ApplyRenewal
<1> QED BY <1>1, <1>2, <1>3, <1>4, <1>5, <1>6, <1>7, <1>8 DEF Next

(* A paid renewal leaves the queue only when it is applied or a payment is *)
(* voided: no other order, task or timer drops it.                         *)
THEOREM CheckoutRenewalKept == Spec => PaidRenewalKept
<1>1. IInv /\ [Next]_vars =>
        [waiting \subseteq waiting' \/ voided' # voided
           \/ UNCHANGED <<orderVars, payVars, uploads, sent, running, delivered, serviced>>]_vars
  BY WaitingStep
<1> QED BY <1>1, CheckoutInvariant, PTL DEF Spec, PaidRenewalKept
-----------------------------------------------------------------------------
(* How each of the three ways to touch locks looks to the pool.            *)
LEMMA MoveToPool ==
  ASSUME IInv, NEW o \in Order, NEW s, MoveTo(o, s), amount' = amount,
         s \in ActiveUniqueStatuses => amount[o] \in Amount /\ AmountFree(o, amount[o])
  PROVE  Pool!Next
<1>1. CASE s \in ActiveUniqueStatuses
  <2>1. Pool!Retake(o)
    BY <1>1, CheckoutAssumption DEF Pool!Retake, MoveTo, LockFor, AmountFree
  <2> QED BY <2>1 DEF Pool!Next
<1>2. CASE s \notin ActiveUniqueStatuses
  <2>1. Pool!Release({o})
    BY <1>2 DEF IInv, TypeOK, Pool!Release, Pool!FreeOf, MoveTo, LockFor
  <2> QED BY <2>1 DEF Pool!Next
<1> QED BY <1>1, <1>2

LEMMA MarkPaidPool ==
  ASSUME IInv, NEW o \in Order, MarkPaid(o), amount' = amount, amount[o] \in Amount
  PROVE  Pool!Next
<1>1. CASE AmountFree(o, amount[o])
  <2>1. Pool!Retake(o)
    BY <1>1, CheckoutAssumption DEF Pool!Retake, MarkPaid, AmountFree
  <2> QED BY <2>1 DEF Pool!Next
<1>2. CASE ~AmountFree(o, amount[o])
  <2>1. Pool!Release({o})
    BY <1>2 DEF IInv, TypeOK, Pool!Release, Pool!FreeOf, MarkPaid
  <2> QED BY <2>1 DEF Pool!Next
<1> QED BY <1>1, <1>2

LEMMA ReleasedPool ==
  ASSUME IInv, NEW S \in SUBSET Order, Released(S), amount' = amount
  PROVE  Pool!Next
<1>1. Pool!Release(S)
  BY DEF IInv, TypeOK, Pool!Release, Pool!FreeOf, Released
<1> QED BY <1>1 DEF Pool!Next

LEMMA CreateOrderPool ==
  ASSUME IInv, NEW o \in Order, NEW v \in Invoice, NEW a \in Amount, CreateOrder(o, v, a)
  PROVE  Pool!Next
<1>1. PICK D \in SUBSET Reusable(v) :
        LET gone == Stale \cup D
            released == gone \cup SameCode(v)
        IN /\ \A p \in Order \ gone : lock[p] # a
           /\ lock' = [p \in Order |-> IF p = o THEN a
                                       ELSE IF p \in released THEN NoAmount ELSE lock[p]]
  BY DEF CreateOrder
<1> DEFINE S == Stale \cup D \cup SameCode(v)
<1>2. S \in SUBSET Order /\ o \notin S
  BY DEF Stale, Reusable, SameCode, OrdersOf, CreateOrder
<1>3. amount[o] = NoAmount /\ amount' = [amount EXCEPT ![o] = a]
  BY DEF CreateOrder, IInv, RowInv, TypeOK
<1>4. Pool!Reserve(o, a, S)
  BY <1>1, <1>2, <1>3, CheckoutAssumption DEF Pool!Reserve, Pool!FreeOf
<1> QED BY <1>2, <1>4 DEF Pool!Next

LEMMA NextPool == IInv /\ [Next]_vars => [Pool!Next]_(Pool!poolVars)
<1> SUFFICES ASSUME IInv, [Next]_vars, ~(UNCHANGED <<amount, lock>>) PROVE Pool!Next
  BY DEF Pool!poolVars
<1>1. ASSUME NEW o \in Order, NEW v \in Invoice, NEW a \in Amount, CreateOrder(o, v, a) PROVE Pool!Next
  BY <1>1, CreateOrderPool
<1>2. CASE ExpireStaleReservations
  BY <1>2, ReleasedPool DEF ExpireStaleReservations, Stale
<1>3. ASSUME NEW o \in Order,
             SmsConfirm(o) \/ BluConfirm(o) \/ AttachDeposit(o) \/ (ApprovePayment(o) /\ MarkPaid(o))
      PROVE  Pool!Next
  BY <1>3, MarkPaidPool DEF SmsConfirm, BluConfirm, AttachDeposit, ApprovePayment, Fulfillable, IInv, RowInv
<1>4. ASSUME NEW o \in Order, RejectPayment(o) PROVE Pool!Next
  BY <1>4, MoveToPool DEF RejectPayment, ActiveUniqueStatuses
<1>5. ASSUME NEW o \in Order, NEW action \in {"keep", "disable", "delete"}, VoidPayment(o, action)
      PROVE  Pool!Next
  BY <1>5, MoveToPool DEF VoidPayment, ActiveUniqueStatuses
<1>6. ASSUME NEW o \in Order, RestorePayment(o) PROVE Pool!Next
  <2>1. MoveTo(o, RestoredStatus(o)) /\ amount' = amount
    BY <1>6 DEF RestorePayment
  <2>2. amount[o] \in Amount
    BY <1>6 DEF IInv, VoidInv, RowInv, RestorePayment
  <2>3. RestoredStatus(o) \in ActiveUniqueStatuses => AmountFree(o, amount[o])
    BY DEF RestoredStatus, ActiveUniqueStatuses
  <2> QED BY <2>1, <2>2, <2>3, MoveToPool
<1>7. ASSUME NEW w \in Worker, CompleteFulfil(w) \/ ConflictFulfil(w) PROVE Pool!Next
  <2>1. running[w] \in Order
    BY <1>7 DEF CompleteFulfil, ConflictFulfil, IInv, TypeOK, TaskInv
  <2> QED BY <1>7, <2>1, MoveToPool DEF CompleteFulfil, ConflictFulfil, ActiveUniqueStatuses
<1>8. ~UNCHANGED vars
  BY DEF vars, orderVars
<1>9. ASSUME NEW o \in Order,
             \/ DeadlinePasses(o) \/ ReadOrderForReceipt(o) \/ SubmitReceipt(o) \/ AbandonReceipt(o)
             \/ FlagMismatch(o) \/ (ApprovePayment(o) /\ ~MarkPaid(o))
             \/ RetryUnfulfilled(o) \/ SkipFulfil(o) \/ ApplyRenewal(o)
             \/ \E w \in Worker : StartFulfil(w, o)
      PROVE  FALSE
  BY <1>9 DEF DeadlinePasses, ReadOrderForReceipt, SubmitReceipt, AbandonReceipt, FlagMismatch,
     ApprovePayment, RetryUnfulfilled, SkipFulfil, ApplyRenewal, StartFulfil, orderVars
<1>10. ASSUME NEW w \in Worker, Deliver(w) \/ AbortFulfil(w) PROVE FALSE
  BY <1>10 DEF Deliver, AbortFulfil, orderVars
<1> QED BY <1>1, <1>2, <1>3, <1>4, <1>5, <1>6, <1>7, <1>8, <1>9, <1>10 DEF Next

(* The checkout implements the abstract pool of amounts: every step of it  *)
(* gives a new order a free amount, releases amounts, lets one order take  *)
(* its own back while it is free, or leaves the pool alone.                *)
THEOREM CheckoutImplementsPool == Spec => PoolSpec
<1>1. Init => Pool!Init
  BY DEF Init, Pool!Init
<1> QED BY <1>1, NextPool, CheckoutInvariant, PTL DEF Spec, PoolSpec, Pool!Spec
-----------------------------------------------------------------------------
(* The pool by itself keeps its promise.                                   *)
PoolTypeOK ==
  /\ amount \in [Order -> Amount \cup {NoAmount}]
  /\ lock \in [Order -> Amount \cup {NoAmount}]

LEMMA PoolStep ==
  PoolTypeOK /\ Pool!Exclusive /\ [Pool!Next]_(Pool!poolVars) => PoolTypeOK' /\ Pool!Exclusive'
<1> SUFFICES ASSUME PoolTypeOK, Pool!Exclusive, [Pool!Next]_(Pool!poolVars)
             PROVE  PoolTypeOK' /\ Pool!Exclusive'
  OBVIOUS
<1>1. ASSUME NEW S \in SUBSET Order, Pool!Release(S) PROVE PoolTypeOK' /\ Pool!Exclusive'
  BY <1>1 DEF PoolTypeOK, Pool!Exclusive, Pool!Release, Pool!FreeOf
<1>2. ASSUME NEW o \in Order, NEW a \in Amount, NEW S \in SUBSET Order, Pool!Reserve(o, a, S)
      PROVE  PoolTypeOK' /\ Pool!Exclusive'
  BY <1>2 DEF PoolTypeOK, Pool!Exclusive, Pool!Reserve, Pool!FreeOf
<1>3. ASSUME NEW o \in Order, Pool!Retake(o) PROVE PoolTypeOK' /\ Pool!Exclusive'
  BY <1>3 DEF PoolTypeOK, Pool!Exclusive, Pool!Retake
<1>4. CASE UNCHANGED Pool!poolVars
  BY <1>4 DEF PoolTypeOK, Pool!Exclusive, Pool!poolVars
<1> QED BY <1>1, <1>2, <1>3, <1>4 DEF Pool!Next

(* No two orders of a pool ever reserve the same amount, and an order      *)
(* reserves nothing but the amount it was created with.                    *)
THEOREM PoolExclusive == PoolSpec => []Pool!Exclusive
<1>1. Pool!Init => PoolTypeOK /\ Pool!Exclusive
  BY DEF Pool!Init, PoolTypeOK, Pool!Exclusive
<1> QED BY <1>1, PoolStep, PTL DEF PoolSpec, Pool!Spec

(* So the checkout, which implements the pool, never hands out an amount   *)
(* that is reserved, in whatever way it came to hand it out.               *)
THEOREM CheckoutExclusive == Spec => []Pool!Exclusive
BY CheckoutImplementsPool, PoolExclusive, PTL
-----------------------------------------------------------------------------
(* An order whose payment was never deleted is not voided, and who works   *)
(* on it, or is told to, met it paid.                                      *)
TouchInv ==
  \A o \in Order \ touched :
    /\ ~voided[o]
    /\ o \in sent \/ (\E w \in Worker : running[w] = o) => status[o] \in Life!Settled

(* Other orders stay as they are.                                          *)
Alone(o) == \A p \in Order \ {o} : status'[p] = status[p] /\ pay'[p] = pay[p]

LEMMA TouchStart == Init => TouchInv
<1> SUFFICES ASSUME Init, NEW o \in Order
             PROVE  /\ ~voided[o]
                    /\ o \in sent \/ (\E w \in Worker : running[w] = o) => status[o] \in Life!Settled
  BY DEF TouchInv
<1>1. ~voided[o] /\ o \notin sent
  BY DEF Init
<1>2. \A w \in Worker : running[w] # o
  BY CheckoutAssumption DEF Init
<1> QED BY <1>1, <1>2

(* What each kind of action leaves of the invariant.                       *)
LEMMA TouchKept ==
  ASSUME TouchInv, touched' = touched,
         \A o \in Order \ touched : /\ voided'[o] => voided[o]
                                    /\ o \in sent' => o \in sent
                                    /\ \A w \in Worker : running'[w] = o => running[w] = o \/ o \in sent
                                    /\ status'[o] = status[o] \/ status'[o] \in Life!Settled
                                       \/ status[o] \notin Life!Settled
  PROVE  TouchInv'
BY DEF TouchInv

LEMMA PaidTouch ==
  ASSUME IInv, TouchInv, NEW o \in Order, MarkPaid(o), UNCHANGED <<voided, touched, running>>
  PROVE  TouchInv'
BY DEF IInv, TypeOK, TouchInv, MarkPaid, Life!Settled

LEMMA TouchStep == ASSUME IInv, TouchInv, [Next]_vars PROVE TouchInv'
<1>1. ASSUME NEW o \in Order, NEW v \in Invoice, NEW a \in Amount, CreateOrder(o, v, a) PROVE TouchInv'
  <2>1. PICK D \in SUBSET Reusable(v) :
          status' = [p \in Order |-> IF p = o THEN "pending_payment"
                       ELSE IF p \in Stale \cup D \cup SameCode(v) THEN "expired" ELSE status[p]]
    BY <1>1 DEF CreateOrder
  <2>2. \A p \in Stale \cup D \cup SameCode(v) : status[p] \notin Life!Settled
    BY DEF Stale, Reusable, SameCode, Life!Settled
  <2>3. status[o] \notin Life!Settled
    BY <1>1 DEF CreateOrder, Life!Settled
  <2>4. \A p \in Order : status'[p] = status[p] \/ status[p] \notin Life!Settled
    BY <2>1, <2>2, <2>3
  <2> QED BY <1>1, <2>4, TouchKept DEF CreateOrder, payVars
<1>2. CASE ExpireStaleReservations
  <2>1. \A p \in Order : status'[p] = status[p] \/ status[p] \notin Life!Settled
    BY <1>2 DEF ExpireStaleReservations, Released, Stale, Life!Settled
  <2> QED BY <1>2, <2>1, TouchKept DEF ExpireStaleReservations, payVars, taskVars
<1>3. ASSUME NEW o \in Order,
             \/ DeadlinePasses(o)
             \/ ReadOrderForReceipt(o) \/ SubmitReceipt(o) \/ AbandonReceipt(o) \/ FlagMismatch(o)
             \/ SkipFulfil(o) \/ ApplyRenewal(o)
      PROVE  TouchInv'
  BY <1>3, TouchKept DEF DeadlinePasses, ReadOrderForReceipt, SubmitReceipt, AbandonReceipt, FlagMismatch,
     SkipFulfil, ApplyRenewal, orderVars, payVars, taskVars
<1>4. ASSUME NEW o \in Order,
             SmsConfirm(o) \/ BluConfirm(o) \/ AttachDeposit(o) \/ (ApprovePayment(o) /\ MarkPaid(o))
      PROVE  TouchInv'
  BY <1>4, PaidTouch DEF SmsConfirm, BluConfirm, AttachDeposit, ApprovePayment
<1>5. ASSUME NEW o \in Order, ApprovePayment(o), ~MarkPaid(o) PROVE TouchInv'
  BY <1>5, TouchKept DEF ApprovePayment
<1>6. ASSUME NEW o \in Order, RejectPayment(o) PROVE TouchInv'
  <2>1. \A p \in Order : status'[p] = status[p] \/ status[p] \notin Life!Settled
    BY <1>6 DEF RejectPayment, MoveTo, IInv, TypeOK, Life!Settled
  <2> QED BY <1>6, <2>1, TouchKept DEF RejectPayment, taskVars
<1>7. ASSUME NEW o \in Order, NEW action \in {"keep", "disable", "delete"}, VoidPayment(o, action)
      PROVE  TouchInv'
  <2>1. \A p \in Order \ touched' : p # o /\ p \notin touched
    BY <1>7 DEF VoidPayment
  <2>2. \A p \in Order \ {o} : status'[p] = status[p] /\ voided'[p] = voided[p]
    BY <1>7 DEF VoidPayment, MoveTo, IInv, TypeOK
  <2>3. sent' = sent /\ running' = running
    BY <1>7 DEF VoidPayment
  <2> QED BY <2>1, <2>2, <2>3 DEF TouchInv
<1>8. ASSUME NEW o \in Order, RestorePayment(o) PROVE TouchInv'
  <2>1. o \in touched /\ touched' = touched
    BY <1>8 DEF RestorePayment, TouchInv
  <2>2. \A p \in Order \ {o} : status'[p] = status[p] /\ voided'[p] = voided[p]
    BY <1>8 DEF RestorePayment, MoveTo, IInv, TypeOK
  <2>3. sent' = sent /\ running' = running
    BY <1>8 DEF RestorePayment, taskVars
  <2> QED BY <2>1, <2>2, <2>3 DEF TouchInv
<1>9. ASSUME NEW o \in Order, RetryUnfulfilled(o) PROVE TouchInv'
  BY <1>9 DEF RetryUnfulfilled, orderVars, payVars, TouchInv, Life!Settled
<1>10. ASSUME NEW o \in Order, NEW w \in Worker, StartFulfil(w, o) PROVE TouchInv'
  <2>1. /\ UNCHANGED <<status, voided, touched, sent>> /\ o \in sent
        /\ running' = [running EXCEPT ![w] = o]
    BY <1>10 DEF StartFulfil, orderVars, payVars
  <2> QED BY <2>1, TouchKept DEF IInv, TypeOK
<1>11. ASSUME NEW w \in Worker, CompleteFulfil(w) \/ ConflictFulfil(w) PROVE TouchInv'
  <2>1. PICK s \in {"completed", "failed"} : MoveTo(running[w], s)
    BY <1>11 DEF CompleteFulfil, ConflictFulfil
  <2>2. /\ UNCHANGED <<voided, touched>> /\ sent' \subseteq sent
        /\ running' = [running EXCEPT ![w] = NoOrder]
    BY <1>11 DEF CompleteFulfil, ConflictFulfil, payVars
  <2>3. \A p \in Order : status'[p] = status[p] \/ status'[p] \in Life!Settled
    BY <2>1 DEF MoveTo, IInv, TypeOK, Life!Settled
  <2>4. \A u \in Worker, p \in Order : running'[u] = p => running[u] = p
    BY <2>2, CheckoutAssumption DEF IInv, TypeOK, CheckoutAssumption
  <2> QED BY <2>2, <2>3, <2>4, TouchKept
<1>12. ASSUME NEW w \in Worker, Deliver(w) \/ AbortFulfil(w) PROVE TouchInv'
  <2>1. UNCHANGED <<status, voided, touched>> /\ sent' \subseteq sent
    BY <1>12 DEF Deliver, AbortFulfil, orderVars, payVars
  <2>2. running' = running \/ running' = [running EXCEPT ![w] = NoOrder]
    BY <1>12 DEF Deliver, AbortFulfil
  <2>3. \A u \in Worker, p \in Order : running'[u] = p => running[u] = p
    BY <2>2, CheckoutAssumption DEF IInv, TypeOK, CheckoutAssumption
  <2> QED BY <2>1, <2>3, TouchKept
<1>13. CASE UNCHANGED vars
  BY <1>13, TouchKept DEF vars, orderVars, payVars, taskVars
<1> QED BY <1>1, <1>2, <1>3, <1>4, <1>5, <1>6, <1>7, <1>8, <1>9, <1>10, <1>11, <1>12, <1>13 DEF Next

(* The orders of one step: one moves, or none.                             *)
LEMMA MovesAlone ==
  ASSUME NEW o \in Order, Alone(o), Life!Moves(o)
  PROVE  \A p \in Order : Life!Moves(p)
<1> SUFFICES ASSUME NEW p \in Order, p # o PROVE Life!Moves(p)
  OBVIOUS
<1> QED BY DEF Alone, Life!Moves

LEMMA PaidMoves ==
  ASSUME IInv, NEW o \in Order, status[o] \in Fulfillable, MarkPaid(o), touched' = touched,
         pay' = [pay EXCEPT ![o] = "approved"]
  PROVE  \A p \in Order : Life!Moves(p)
<1>1. Alone(o) /\ status'[o] = "paid" /\ pay'[o] = "approved"
  BY DEF MarkPaid, Alone, IInv, TypeOK
<1>2. Life!Moves(o)
  BY <1>1 DEF Life!Moves, Life!Becomes, Life!Payable, Fulfillable
<1> QED BY <1>1, <1>2, MovesAlone

LEMMA ReceiptMoves ==
  ASSUME IInv, NEW o \in Order, status[o] # "absent",
         UNCHANGED <<status, touched>>, pay' = [pay EXCEPT ![o] = "pending"]
  PROVE  \A p \in Order : Life!Moves(p)
<1>1. Alone(o) /\ status'[o] = status[o] /\ pay'[o] = "pending"
  BY DEF Alone, IInv, TypeOK
<1>2. Life!Becomes(status[o], pay[o], o \in {p \in Order : late[p]}, status'[o], pay'[o])
  BY <1>1 DEF Life!Becomes
<1>3. Life!Moves(o)
  BY <1>2 DEF Life!Moves
<1> QED BY <1>1, <1>3, MovesAlone

LEMMA LapsedMoves ==
  ASSUME NEW o \in Order, status[o] = "pending_payment", pay[o] = "none" \/ (late[o] /\ pay[o] # "pending"),
         status'[o] = "expired", pay'[o] = pay[o], touched' = touched
  PROVE  Life!Moves(o)
<1>1. pay[o] = "none" \/ (o \in {p \in Order : late[p]} /\ pay[o] # "pending")
  OBVIOUS
<1>2. Life!Becomes(status[o], pay[o], o \in {p \in Order : late[p]}, status'[o], pay'[o])
  BY <1>1 DEF Life!Becomes
<1> QED BY <1>2 DEF Life!Moves

(* Every step moves orders as OrderLife says.                              *)
LEMMA LifeMoves == ASSUME IInv, TouchInv, [Next]_vars, NEW q \in Order PROVE Life!Moves(q)
<1>1. ASSUME NEW o \in Order, NEW v \in Invoice, NEW a \in Amount, CreateOrder(o, v, a) PROVE Life!Moves(q)
  <2>1. PICK D \in SUBSET Reusable(v) :
          /\ IF Reusable(v) = {} THEN D = {}
             ELSE \E p \in Reusable(v) : D = {p} /\ bought[p].code # v.code /\ pay[p] = "none"
          /\ status' = [p \in Order |-> IF p = o THEN "pending_payment"
                          ELSE IF p \in Stale \cup D \cup SameCode(v) THEN "expired" ELSE status[p]]
    BY <1>1 DEF CreateOrder
  <2>2. pay' = pay /\ touched' = touched /\ status[o] = "absent" /\ pay[o] = "none"
    BY <1>1 DEF CreateOrder, payVars, IInv, RowInv
  <2>3. CASE q = o
    BY <2>1, <2>2, <2>3 DEF Life!Moves
  <2>4. CASE q # o /\ q \in Stale \cup D \cup SameCode(v)
    <3>1. status[q] = "pending_payment"
      BY <2>1, <2>4 DEF Stale, Reusable, SameCode
    <3>2. pay[q] = "none" \/ (late[q] /\ pay[q] # "pending")
      BY <2>1, <2>4 DEF Stale, SameCode
    <3> QED BY <2>1, <2>2, <2>4, <3>1, <3>2, LapsedMoves
  <2>5. CASE q # o /\ q \notin Stale \cup D \cup SameCode(v)
    BY <2>1, <2>2, <2>5 DEF Life!Moves
  <2> QED BY <2>3, <2>4, <2>5
<1>2. CASE ExpireStaleReservations
  <2>1. /\ pay' = pay /\ touched' = touched
        /\ status'[q] = IF q \in Stale THEN "expired" ELSE status[q]
    BY <1>2 DEF ExpireStaleReservations, Released, payVars
  <2>2. CASE q \in Stale
    BY <2>1, <2>2, LapsedMoves DEF Stale
  <2>3. CASE q \notin Stale
    BY <2>1, <2>3 DEF Life!Moves
  <2> QED BY <2>2, <2>3
<1>3. ASSUME NEW o \in Order, SubmitReceipt(o) PROVE Life!Moves(q)
  <2>1. status[o] # "absent"
    BY <1>3 DEF SubmitReceipt, IInv, RowInv
  <2> QED BY <1>3, <2>1, ReceiptMoves DEF SubmitReceipt, orderVars
<1>4. ASSUME NEW o \in Order, FlagMismatch(o) PROVE Life!Moves(q)
  BY <1>4, ReceiptMoves DEF FlagMismatch, orderVars
<1>5. ASSUME NEW o \in Order,
             SmsConfirm(o) \/ BluConfirm(o) \/ AttachDeposit(o)
             \/ (ApprovePayment(o) /\ status[o] \in Fulfillable)
      PROVE  Life!Moves(q)
  <2>1. /\ status[o] \in Fulfillable /\ MarkPaid(o) /\ touched' = touched
        /\ pay' = [pay EXCEPT ![o] = "approved"]
    BY <1>5 DEF SmsConfirm, BluConfirm, AttachDeposit, ApprovePayment, Fulfillable
  <2> QED BY <2>1, PaidMoves
<1>6. ASSUME NEW o \in Order, ApprovePayment(o), status[o] \notin Fulfillable PROVE Life!Moves(q)
  <2>1. /\ status' = status /\ touched' = touched /\ pay' = [pay EXCEPT ![o] = "approved"]
        /\ pay[o] \in {"pending", "rejected"}
    BY <1>6 DEF ApprovePayment
  <2>2. Alone(o) /\ status[o] # "absent" /\ pay'[o] = "approved"
    BY <2>1 DEF Alone, IInv, TypeOK, RowInv
  <2>3. Life!Moves(o)
    BY <1>6, <2>1, <2>2 DEF Life!Moves, Life!Becomes, Life!Payable, Fulfillable
  <2> QED BY <2>2, <2>3, MovesAlone
<1>7. ASSUME NEW o \in Order, RejectPayment(o) PROVE Life!Moves(q)
  <2>1. /\ touched' = touched /\ pay' = [pay EXCEPT ![o] = "rejected"]
        /\ pay[o] \in {"pending", "rejected"} /\ status[o] \notin {"paid", "completed"}
    BY <1>7 DEF RejectPayment
  <2>2. /\ \A p \in Order \ {o} : status'[p] = status[p]
        /\ status'[o] = IF status[o] \in Life!Open THEN "rejected" ELSE status[o]
    BY <1>7 DEF RejectPayment, MoveTo, Life!Open, IInv, TypeOK
  <2>3. Alone(o) /\ status[o] # "absent" /\ pay'[o] = "rejected"
    BY <2>1, <2>2 DEF Alone, IInv, TypeOK, RowInv
  <2>4. Life!Moves(o)
    BY <2>1, <2>2, <2>3 DEF Life!Moves, Life!Becomes
  <2> QED BY <2>3, <2>4, MovesAlone
<1>8. ASSUME NEW o \in Order, NEW action \in {"keep", "disable", "delete"}, VoidPayment(o, action)
      PROVE  Life!Moves(q)
  <2>1. Alone(o) /\ o \in touched' /\ status[o] # "absent" /\ status'[o] # "absent"
    BY <1>8 DEF VoidPayment, MoveTo, Alone, IInv, TypeOK, RowInv
  <2>2. Life!Moves(o)
    BY <2>1 DEF Life!Moves
  <2> QED BY <2>1, <2>2, MovesAlone
<1>9. ASSUME NEW o \in Order, RestorePayment(o) PROVE Life!Moves(q)
  <2>1. Alone(o)
    BY <1>9 DEF RestorePayment, MoveTo, Alone, IInv, TypeOK
  <2>2. o \in touched' /\ status[o] # "absent"
    BY <1>9 DEF RestorePayment, TouchInv, IInv, VoidInv, RowInv
  <2>3. status'[o] # "absent"
    BY <1>9, <2>2 DEF RestorePayment, RestoredStatus, MoveTo, IInv, TypeOK
  <2>4. Life!Moves(o)
    BY <2>2, <2>3 DEF Life!Moves
  <2> QED BY <2>1, <2>4, MovesAlone
<1>10. ASSUME NEW w \in Worker, CompleteFulfil(w) \/ ConflictFulfil(w) PROVE Life!Moves(q)
  <2>1. running[w] \in Order
    BY <1>10 DEF CompleteFulfil, ConflictFulfil, IInv, TypeOK, TaskInv
  <2>2. PICK s \in {"completed", "failed"} : MoveTo(running[w], s)
    BY <1>10 DEF CompleteFulfil, ConflictFulfil
  <2>3. pay' = pay /\ touched' = touched
    BY <1>10 DEF CompleteFulfil, ConflictFulfil, payVars
  <2>4. Alone(running[w]) /\ status'[running[w]] = s
    BY <2>1, <2>2, <2>3 DEF MoveTo, Alone, IInv, TypeOK
  <2>5. status[running[w]] # "absent"
    <3>1. pay[running[w]] # "none"
      BY <2>1, CheckoutAssumption DEF IInv, TaskInv, CheckoutAssumption
    <3> QED BY <2>1, <3>1 DEF IInv, RowInv
  <2>6. CASE running[w] \in touched
    <3>1. Life!Moves(running[w])
      BY <2>3, <2>4, <2>5, <2>6 DEF Life!Moves
    <3> QED BY <2>1, <2>4, <3>1, MovesAlone
  <2>7. CASE running[w] \notin touched
    <3>1. status[running[w]] \in Life!Settled
      BY <2>1, <2>7 DEF TouchInv
    <3>2. Life!Moves(running[w])
      BY <2>3, <2>4, <3>1 DEF Life!Moves, Life!Becomes, Life!Settled
    <3> QED BY <2>1, <2>4, <3>2, MovesAlone
  <2> QED BY <2>6, <2>7
<1>11. ASSUME UNCHANGED <<status, pay>> PROVE Life!Moves(q)
  BY <1>11 DEF Life!Moves
<1>12. ASSUME NEW o \in Order,
             \/ DeadlinePasses(o) \/ ReadOrderForReceipt(o) \/ AbandonReceipt(o)
             \/ RetryUnfulfilled(o) \/ SkipFulfil(o) \/ ApplyRenewal(o)
             \/ \E w \in Worker : StartFulfil(w, o)
       PROVE Life!Moves(q)
  BY <1>11, <1>12 DEF DeadlinePasses, ReadOrderForReceipt, AbandonReceipt, RetryUnfulfilled, SkipFulfil,
     ApplyRenewal, StartFulfil, orderVars, payVars
<1>13. ASSUME NEW w \in Worker, Deliver(w) \/ AbortFulfil(w) PROVE Life!Moves(q)
  BY <1>11, <1>13 DEF Deliver, AbortFulfil, orderVars, payVars
<1>14. CASE UNCHANGED vars
  BY <1>11, <1>14 DEF vars, orderVars, payVars
<1> QED BY <1>1, <1>2, <1>3, <1>4, <1>5, <1>6, <1>7, <1>8, <1>9, <1>10, <1>12, <1>13, <1>14 DEF Next

(* Deadlines do not come back, and deleted payments are remembered.        *)
LEMMA OnlyGrows ==
  ASSUME IInv, [Next]_vars
  PROVE  /\ \A o \in Order : late[o] => late'[o]
         /\ touched \subseteq touched'
         /\ touched' \subseteq {o \in Order : status[o] # "absent"} \cup touched
<1>1. ASSUME NEW o \in Order, NEW v \in Invoice, NEW a \in Amount, CreateOrder(o, v, a)
      PROVE  late' = late /\ touched' = touched
  BY <1>1 DEF CreateOrder, payVars
<1>2. CASE ExpireStaleReservations
  BY <1>2 DEF ExpireStaleReservations, payVars
<1>3. ASSUME NEW o \in Order,
             \/ ReadOrderForReceipt(o) \/ SubmitReceipt(o) \/ AbandonReceipt(o)
             \/ FlagMismatch(o) \/ SmsConfirm(o) \/ BluConfirm(o) \/ AttachDeposit(o)
             \/ ApprovePayment(o) \/ RejectPayment(o) \/ RestorePayment(o)
             \/ RetryUnfulfilled(o) \/ SkipFulfil(o) \/ ApplyRenewal(o)
             \/ \E w \in Worker : StartFulfil(w, o)
      PROVE  late' = late /\ touched' = touched
  BY <1>3 DEF ReadOrderForReceipt, SubmitReceipt, AbandonReceipt, FlagMismatch, SmsConfirm, BluConfirm,
     AttachDeposit, ApprovePayment, RejectPayment, RestorePayment, RetryUnfulfilled, SkipFulfil, ApplyRenewal,
     StartFulfil, orderVars, payVars
<1>4. ASSUME NEW o \in Order, DeadlinePasses(o)
      PROVE  touched' = touched /\ \A p \in Order : late[p] => late'[p]
  BY <1>4 DEF DeadlinePasses, payVars, IInv, TypeOK
<1>5. ASSUME NEW o \in Order, NEW action \in {"keep", "disable", "delete"}, VoidPayment(o, action)
      PROVE  late' = late /\ touched' = touched \cup {o} /\ status[o] # "absent"
  BY <1>5 DEF VoidPayment, IInv, RowInv
<1>6. ASSUME NEW w \in Worker, Deliver(w) \/ CompleteFulfil(w) \/ ConflictFulfil(w) \/ AbortFulfil(w)
      PROVE  late' = late /\ touched' = touched
  BY <1>6 DEF Deliver, CompleteFulfil, ConflictFulfil, AbortFulfil, orderVars, payVars
<1>7. CASE UNCHANGED vars
  BY <1>7 DEF vars, orderVars, payVars
<1>8. CASE \E o \in Order, v \in Invoice, a \in Amount : CreateOrder(o, v, a)
  BY <1>1, <1>8
<1>9. CASE \E o \in Order : DeadlinePasses(o)
  BY <1>4, <1>9
<1>10. CASE \E o \in Order, action \in {"keep", "disable", "delete"} : VoidPayment(o, action)
  BY <1>5, <1>10
<1>11. CASE \E w \in Worker : Deliver(w) \/ CompleteFulfil(w) \/ ConflictFulfil(w) \/ AbortFulfil(w)
  BY <1>6, <1>11
<1> QED BY <1>2, <1>3, <1>7, <1>8, <1>9, <1>10, <1>11 DEF Next

LEMMA NextLife ==
  ASSUME IInv, TouchInv, [Next]_vars, TypeOK', \A o \in touched : status[o] # "absent"
  PROVE  [Life!Next]_(Life!lifeVars) /\ \A o \in touched' : status'[o] # "absent"
<1>1. /\ status' \in [Order -> Life!Statuses] /\ pay' \in [Order -> Life!PayStatuses]
      /\ touched' \subseteq Order
  BY DEF TypeOK, OrderStatus, PaymentStatus, Life!Statuses, Life!PayStatuses
<1>2. \A o \in Order : Life!Moves(o)
  BY LifeMoves
<1>3. /\ {o \in Order : late[o]} \subseteq {o \in Order : late'[o]}
      /\ touched \subseteq touched' /\ touched' \subseteq {o \in Order : status[o] # "absent"}
  BY OnlyGrows DEF IInv, TypeOK
<1>4. Life!Next
  BY <1>1, <1>2, <1>3 DEF Life!Next
<1>5. ASSUME NEW o \in touched' PROVE status'[o] # "absent"
  <2>1. o \in Order /\ status[o] # "absent" /\ Life!Moves(o)
    BY <1>1, <1>2, <1>3
  <2> DEFINE l == o \in {p \in Order : late[p]}
  <2>2. CASE Life!Becomes(status[o], pay[o], l, status'[o], pay'[o])
    <3> HIDE DEF l
    <3> QED BY <2>1, <2>2 DEF Life!Becomes, Life!Open, Life!Payable, Life!Settled
  <2>3. CASE ~Life!Becomes(status[o], pay[o], l, status'[o], pay'[o])
    BY <2>1, <2>3 DEF Life!Moves
  <2> QED BY <2>2, <2>3
<1> QED BY <1>4, <1>5

(* What orders have been through: their rows exist.                        *)
TouchedExist == \A o \in touched : status[o] # "absent"

(* The checkout changes the statuses of orders and payments in no other    *)
(* way than the customer's page is written to expect.                      *)
THEOREM CheckoutImplementsLife == Spec => LifeSpec
<1>1. Init => Life!Init /\ TouchInv /\ TouchedExist
  <2>1. Init => Life!Init /\ TouchedExist
    BY DEF Init, Life!Init, TouchedExist
  <2> QED BY <2>1, TouchStart
<1>2. IInv /\ TouchInv /\ TouchedExist /\ [Next]_vars /\ TypeOK'
        => [Life!Next]_(Life!lifeVars) /\ TouchInv' /\ TouchedExist'
  BY NextLife, TouchStep DEF TouchedExist
<1> QED BY <1>1, <1>2, CheckoutInvariant, CheckoutTypeOK, PTL DEF Spec, LifeSpec, Life!Spec

(* The abstract life of an order by itself keeps its promise.              *)
LifeTypeOK ==
  /\ status \in [Order -> Life!Statuses] /\ pay \in [Order -> Life!PayStatuses]
  /\ touched \subseteq Order

LEMMA LifeStep ==
  LifeTypeOK /\ Life!AllSound /\ [Life!Next]_(Life!lifeVars) => LifeTypeOK' /\ Life!AllSound'
<1> SUFFICES ASSUME LifeTypeOK, Life!AllSound, [Life!Next]_(Life!lifeVars)
             PROVE  LifeTypeOK' /\ Life!AllSound'
  OBVIOUS
<1>1. CASE UNCHANGED Life!lifeVars
  BY <1>1 DEF Life!lifeVars, LifeTypeOK, Life!AllSound, Life!Sound
<1>2. CASE Life!Next
  <2>1. LifeTypeOK'
    BY <1>2 DEF Life!Next, LifeTypeOK
  <2>2. ASSUME NEW o \in Order, o \notin touched' PROVE Life!Sound(status'[o], pay'[o])
    <3>1. o \notin touched /\ Life!Sound(status[o], pay[o]) /\ Life!Moves(o)
      BY <1>2, <2>2 DEF Life!Next, Life!AllSound
    <3> DEFINE l == o \in {p \in Order : late[p]}
    <3>2. CASE status[o] # "absent" /\ Life!Becomes(status[o], pay[o], l, status'[o], pay'[o])
      <4>1. status[o] \in Life!Statuses
        BY DEF LifeTypeOK
      <4> HIDE DEF l
      <4> QED BY <3>1, <3>2, <4>1 DEF Life!Becomes, Life!Open, Life!Payable, Life!Settled, Life!Sound,
            Life!Statuses
    <3>3. CASE ~(status[o] # "absent" /\ Life!Becomes(status[o], pay[o], l, status'[o], pay'[o]))
      BY <2>2, <3>1, <3>3 DEF Life!Moves, Life!Sound, Life!Settled
    <3> QED BY <3>2, <3>3
  <2> QED BY <2>1, <2>2 DEF Life!AllSound, Life!Sound
<1> QED BY <1>1, <1>2

(* Whoever moves orders so keeps an order with an approved payment on its  *)
(* way to the customer, unless staff have deleted the payment once.        *)
THEOREM LifeSound == LifeSpec => []Life!AllSound
<1>1. Life!Init => LifeTypeOK /\ Life!AllSound
  BY DEF Life!Init, LifeTypeOK, Life!AllSound, Life!Sound, Life!Statuses, Life!PayStatuses
<1> QED BY <1>1, LifeStep, PTL DEF LifeSpec, Life!Spec

(* So do the checkout and the people and workers around it.                *)
THEOREM CheckoutSound == Spec => []Life!AllSound
BY CheckoutImplementsLife, LifeSound, PTL
=============================================================================
