---------------------------- MODULE AgencyLedger ----------------------------
(***************************************************************************)
(* The account of one agency admin: ledger entries, the invoices charges   *)
(* are billed with, the payments made for them, and the allocations that   *)
(* say which money settles which invoice.  After every change of the       *)
(* ledger and every new invoice, enforce settles unpaid invoices until     *)
(* what is open is no more than what the ledger says is owed.              *)
(*                                                                         *)
(* Every action is one transaction.  Invoices and payments are locked      *)
(* before they are changed; only a near-miss deposit picks its payment     *)
(* first and locks it later (picked).                                      *)
(***************************************************************************)
EXTENDS Integers, Sequences, FiniteSetsExt, SequencesExt

CONSTANTS
  Price,       \* amounts that are charged
  Amount,      \* other amounts of money
  MaxEntry,    \* bound of the ledger entries
  MaxInvoice,  \* bound of the invoices
  MaxPayment,  \* bound of the payments
  MaxDeposit   \* bound of the near-miss deposits in progress

ASSUME LedgerAssumption ==
  /\ Price \subseteq Nat \ {0} /\ Amount \subseteq Nat \ {0}
  /\ MaxEntry \in Nat /\ MaxInvoice \in Nat /\ MaxPayment \in Nat /\ MaxDeposit \in Nat

VARIABLES
  entry,    \* the admin's LedgerEntry rows, oldest first
  invoice,  \* its AgencyInvoice rows, with their active allocations
  payment,  \* AgencyPayment rows, with their items
  since,    \* the first entry whose money may settle invoices (120 s before the first invoice)
  picked    \* payments a deposit in progress has found to be near its amount

vars == <<entry, invoice, payment, since, picked>>

Owing == {"charge", "increase"}
Reducing == {"reduce", "checkout"}
Entry == [kind : Owing \cup Reducing, amount : Nat, void : BOOLEAN]

(* by[e] is what entry e has settled, by[0] what the balance did without   *)
(* an entry; charge is 0 for a settlement of the previous balance.         *)
Invoice == [amount : Nat, status : {"unpaid", "pending", "paid", "voided"},
            charge : 0 .. MaxEntry, by : [0 .. MaxEntry -> Nat], outside : Nat]

Payment == [status : {"pending_payment", "pending_review", "approved", "rejected",
                      "expired", "cancelled"},
            items : [1 .. MaxInvoice -> Nat]]

TypeOK ==
  /\ entry \in Seq(Entry) /\ Len(entry) <= MaxEntry
  /\ invoice \in Seq(Invoice) /\ Len(invoice) <= MaxInvoice
  /\ payment \in Seq(Payment) /\ Len(payment) <= MaxPayment
  /\ since \in 0 .. MaxEntry + 1
  /\ picked \subseteq DOMAIN payment

Init ==
  /\ entry = <<>>
  /\ invoice = <<>>
  /\ payment = <<>>
  /\ since = 0
  /\ picked = {}
-----------------------------------------------------------------------------
(* f[1] + ... + f[n]                                                       *)
SumTo(f, n) ==
  LET sum[k \in 0 .. n] == IF k = 0 THEN 0 ELSE f[k] + sum[k - 1] IN sum[n]

(* Mutant: max(0, ...) is forgotten.                                       *)
Minus_signed(a, b) == a - b

Minus(a, b) == IF a > b THEN a - b ELSE 0

Settled(v) == v.outside + v.by[0] + SumTo(v.by, MaxEntry)
Remaining(v) == IF v.status \in {"unpaid", "pending"} THEN Minus(v.amount, Settled(v)) ELSE 0

(* Mutant: an invoice is not opened again.                                 *)
Refreshed_staysPaid(v) ==
  [v EXCEPT !.status = IF @ # "voided" /\ Settled(v) >= v.amount THEN "paid" ELSE @]

(* refresh: the status follows the active allocations.                     *)
Refreshed(v) ==
  [v EXCEPT !.status = CASE @ = "voided" -> @
                         [] @ # "voided" /\ Settled(v) >= v.amount -> "paid"
                         [] @ = "paid" /\ Settled(v) < v.amount -> "unpaid"
                         [] OTHER -> @]

Voided(v) == [v EXCEPT !.status = "voided", !.by = [e \in DOMAIN @ |-> 0], !.outside = 0]

Unpaid(V) == {i \in DOMAIN V : V[i].status = "unpaid"}
OpenTotal(V) == SumTo([i \in DOMAIN V |-> Remaining(V[i])], Len(V))
OutsideTotal(V) == SumTo([i \in DOMAIN V |-> V[i].outside], Len(V))

Total(E, kinds) ==
  SumTo([e \in DOMAIN E |-> IF E[e].kind \in kinds /\ ~E[e].void THEN E[e].amount ELSE 0], Len(E))
Debt(E) == Minus(Total(E, Owing), Total(E, Reducing))
Excess(E, V) == Minus(OpenTotal(V), Debt(E))

(* What entry e has settled, and what it could still settle.               *)
Given(V, e) == SumTo([i \in DOMAIN V |-> V[i].by[e]], Len(V))
Credit(E, V, e) == Minus(E[e].amount, Given(V, e))
Sources(E, V, from) ==
  {e \in DOMAIN E : /\ e >= from /\ ~E[e].void
                    /\ E[e].kind \in Reducing /\ Credit(E, V, e) > 0}

Oldest(S) == CHOOSE s \in SetToSeqs(S) : \A j, k \in DOMAIN s : j < k => s[j] < s[k]
-----------------------------------------------------------------------------
(* The money of the sources src, credit[e] each, is laid along the unpaid  *)
(* invoices dst, both in their order, up to cap in all.                    *)
Upto(f, s, k) == SumTo([j \in 1 .. k |-> f[s[j]]], k)

(* Where x stands in the list s.                                           *)
Place(s, x) == CHOOSE k \in DOMAIN s : s[k] = x

Laid(V, dst, src, credit, cap) ==
  LET rest == [i \in DOMAIN V |-> Remaining(V[i])]
      Part(k, l) == Minus(Min({Upto(rest, dst, k), Upto(credit, src, l), cap}),
                          Max({Upto(rest, dst, k - 1), Upto(credit, src, l - 1)}))
  IN [i \in DOMAIN V |-> [e \in 0 .. MaxEntry |->
        IF i \in Range(dst) /\ e \in Range(src) THEN Part(Place(dst, i), Place(src, e)) ELSE 0]]

Allocated(V, dst, src, credit, cap) ==
  LET laid == Laid(V, dst, src, credit, cap)
  IN [i \in DOMAIN V |->
        IF V[i].status # "unpaid" THEN V[i]
        ELSE Refreshed([V[i] EXCEPT !.by = [e \in DOMAIN @ |-> @[e] + laid[i][e]]])]

(* Mutant: what no entry accounts for stays open.                          *)
Enforced_entriesOnly(E, V, from) ==
  LET credit == [e \in DOMAIN E |-> Credit(E, V, e)]
  IN Allocated(V, Oldest(Unpaid(V)), Oldest(Sources(E, V, from)), credit, Excess(E, V))

(* enforce: what is open beyond the debt is settled, oldest invoice first, *)
(* by the oldest entries with money left, then by the balance.             *)
Enforced(E, V, from) ==
  LET excess == Excess(E, V)
      credit == [e \in 0 .. Len(E) |-> IF e = 0 THEN excess ELSE Credit(E, V, e)]
  IN IF excess = 0 THEN V
     ELSE Allocated(V, Oldest(Unpaid(V)), Append(Oldest(Sources(E, V, from)), 0), credit, excess)

(* Mutant: only paid invoices are looked at.                               *)
Released_paidOnly(V, e) ==
  [i \in DOMAIN V |-> IF V[i].status # "paid" \/ V[i].by[e] = 0 THEN V[i]
                      ELSE Refreshed([V[i] EXCEPT !.by[e] = 0])]

(* release: entry e settles nothing any more.                              *)
Released(V, e) ==
  [i \in DOMAIN V |-> IF V[i].by[e] = 0 THEN V[i] ELSE Refreshed([V[i] EXCEPT !.by[e] = 0])]

(* Unfinished checkouts of these invoices have the old amount.             *)
Cancelled(P, I) ==
  [p \in DOMAIN P |->
     IF P[p].status = "pending_payment" /\ \E i \in I : P[p].items[i] > 0
     THEN [P[p] EXCEPT !.status = "cancelled"] ELSE P[p]]

Changed(V, W) == {i \in DOMAIN V : V[i].by # W[i].by}

(* What a transaction has written so far, with the invariant enforced.     *)
(* (Quantified over singletons: TLC then evaluates each of them once.)     *)
Books(E, V, P) ==
  \E U \in {V} : \E W \in {Enforced(E, U, since')} :
    /\ entry' = E
    /\ invoice' = W
    /\ payment' = Cancelled(P, Changed(U, W))
    /\ UNCHANGED picked

NewEntry(kind, a) == Append(entry, [kind |-> kind, amount |-> a, void |-> FALSE])
NewInvoice(a, charge) ==
  Append(invoice, [amount |-> a, status |-> "unpaid", charge |-> charge,
                   by |-> [e \in 0 .. MaxEntry |-> 0], outside |-> 0])

(* The first invoice fixes which older entries still count.                *)
FirstInvoice ==
  IF invoice = <<>> THEN since' \in 1 .. Len(entry) + 1 ELSE UNCHANGED since
-----------------------------------------------------------------------------
(* record_quota_charge, add_entry of a charge, and issue_for_entry.        *)
Charge(a) ==
  /\ Len(entry) < MaxEntry /\ Len(invoice) < MaxInvoice
  /\ FirstInvoice
  /\ Books(NewEntry("charge", a), NewInvoice(a, Len(entry) + 1), payment)

(* add_entry, an adjustment: more debt.                                    *)
Increase(a) ==
  /\ Len(entry) < MaxEntry
  /\ UNCHANGED since
  /\ Books(NewEntry("increase", a), invoice, payment)

(* add_entry, a payment or less debt: it settles the invoices staff chose, *)
(* in their order, or the oldest first, or none.                           *)
Reduce(a, order) ==
  LET V == Allocated(invoice, order, <<Len(entry) + 1>>, [e \in {Len(entry) + 1} |-> a], a)
  IN /\ Len(entry) < MaxEntry
     /\ UNCHANGED since
     /\ Books(NewEntry("reduce", a), V, Cancelled(payment, Changed(invoice, V)))

(* void: a charge takes its unpaid invoice with it; what a payment settled *)
(* is open again.                                                          *)
VoidEntry(e) ==
  LET gone == {i \in Unpaid(invoice) : invoice[i].charge = e}
      V == [i \in DOMAIN invoice |-> IF i \in gone THEN Voided(invoice[i]) ELSE invoice[i]]
  IN /\ ~entry[e].void
     /\ \A i \in DOMAIN invoice : invoice[i].charge = e => invoice[i].status \notin {"paid", "pending"}
     /\ UNCHANGED since
     /\ Books([entry EXCEPT ![e].void = TRUE], Released(V, e), Cancelled(payment, gone))

(* void_invoice: its charge goes with it.                                  *)
VoidInvoice(i) ==
  LET c == invoice[i].charge
  IN /\ invoice[i].status = "unpaid"
     /\ UNCHANGED since
     /\ Books(IF c = 0 THEN entry ELSE [entry EXCEPT ![c].void = TRUE],
              [invoice EXCEPT ![i] = Voided(@)], Cancelled(payment, {i}))

(* settle_outside: the ledger stays as it is.                              *)
PaidOutside(v) == Refreshed([v EXCEPT !.outside = @ + Remaining(v)])

SettleOutside(i) ==
  /\ invoice[i].status = "unpaid"
  /\ invoice' = [invoice EXCEPT ![i] = PaidOutside(@)]
  /\ payment' = Cancelled(payment, {i})
  /\ UNCHANGED <<entry, since, picked>>

(* settlement_quote: the part of the debt no invoice asks for.             *)
OldBalance == Minus(Debt(entry), OpenTotal(invoice) + OutsideTotal(invoice))

IssueSettlement ==
  /\ Len(invoice) < MaxInvoice
  /\ OldBalance > 0
  /\ FirstInvoice
  /\ invoice' = NewInvoice(OldBalance, 0)
  /\ UNCHANGED <<entry, payment, picked>>
-----------------------------------------------------------------------------
(* create_payment for the invoices I, replacing unfinished checkouts.      *)
Checkout(V, I) ==
  Append(Cancelled(payment, I),
         [status |-> "pending_payment",
          items |-> [i \in 1 .. MaxInvoice |-> IF i \in I THEN Remaining(V[i]) ELSE 0]])

CreatePayment(I) ==
  /\ Len(payment) < MaxPayment
  /\ I # {} /\ I \subseteq Unpaid(invoice)
  /\ payment' = Checkout(invoice, I)
  /\ UNCHANGED <<entry, invoice, since, picked>>

(* pay_all: the old balance gets its invoice, all unpaid ones one payment. *)
PayAll ==
  LET V == IF OldBalance = 0 THEN invoice ELSE NewInvoice(OldBalance, 0)
  IN /\ Len(payment) < MaxPayment /\ Len(V) <= MaxInvoice
     /\ Unpaid(V) # {}
     /\ IF V = invoice THEN UNCHANGED since ELSE FirstInvoice
     /\ invoice' = V
     /\ payment' = Checkout(V, Unpaid(V))
     /\ UNCHANGED <<entry, picked>>

Is(p, statuses) == payment[p].status \in statuses
MoveTo(p, status) == [payment EXCEPT ![p].status = status]
Paying(p) == {i \in DOMAIN invoice : payment[p].items[i] > 0}

(* Mutant: whatever the invoices are.                                      *)
Moved_any(p, from, to) ==
  [i \in DOMAIN invoice |-> IF i \in Paying(p) THEN [invoice[i] EXCEPT !.status = to] ELSE invoice[i]]

(* The unpaid invoices of p are under review, or those under review are    *)
(* unpaid again.                                                           *)
Moved(p, from, to) ==
  [i \in DOMAIN invoice |-> IF i \in Paying(p) /\ invoice[i].status = from
                            THEN [invoice[i] EXCEPT !.status = to] ELSE invoice[i]]

SubmitReceipt(p) ==
  /\ Is(p, {"pending_payment", "pending_review"})
  /\ payment' = MoveTo(p, "pending_review")
  /\ invoice' = Moved(p, "unpaid", "pending")
  /\ UNCHANGED <<entry, since, picked>>

CancelPayment(p) ==
  /\ Is(p, {"pending_payment"})
  /\ payment' = MoveTo(p, "cancelled")
  /\ UNCHANGED <<entry, invoice, since, picked>>

(* expire_stale (beat) *)
Expire(p) ==
  /\ Is(p, {"pending_payment"})
  /\ payment' = MoveTo(p, "expired")
  /\ UNCHANGED <<entry, invoice, since, picked>>

(* near: a deposit is close to the amount of an open payment, ...          *)
PickNear(p) ==
  /\ Is(p, {"pending_payment", "pending_review", "expired"})
  /\ p \notin picked /\ Cardinality(picked) < MaxDeposit
  /\ picked' = picked \cup {p}
  /\ UNCHANGED <<entry, invoice, payment, since>>

(* ... flag_mismatch: whatever became of it, its invoices are in review.   *)
FlagMismatch(p) ==
  /\ p \in picked
  /\ payment' = IF Is(p, {"pending_payment", "expired"}) THEN MoveTo(p, "pending_review") ELSE payment
  /\ invoice' = Moved(p, "unpaid", "pending")
  /\ picked' = picked \ {p}
  /\ UNCHANGED <<entry, since>>

(* approve_payment: one ledger entry of what arrived, at most the amount   *)
(* asked for; the items settle what is still open of their invoices.       *)
Approve(p, covered) ==
  LET n == Len(entry) + 1
      Take(i) == Min({payment[p].items[i], Remaining(invoice[i])})
      Paid(i) == Refreshed([invoice[i] EXCEPT !.by[n] = Take(i)])
      V == [i \in DOMAIN invoice |->
              IF i \notin Paying(p) \/ Remaining(invoice[i]) = 0 THEN invoice[i]
              ELSE [Paid(i) EXCEPT !.status = IF @ = "pending" THEN "unpaid" ELSE @]]
  IN /\ Len(entry) < MaxEntry
     /\ Is(p, {"pending_payment", "pending_review", "expired", "rejected"})
     /\ UNCHANGED since
     /\ Books(NewEntry("checkout", covered), V, MoveTo(p, "approved"))

AskedFor(p) == SumTo(payment[p].items, MaxInvoice)

(* reject_payment *)
Reject(p) ==
  /\ Is(p, {"pending_payment", "pending_review", "expired"})
  /\ payment' = MoveTo(p, "rejected")
  /\ invoice' = Moved(p, "pending", "unpaid")
  /\ UNCHANGED <<entry, since, picked>>
-----------------------------------------------------------------------------
Next ==
  \/ \E a \in Price : Charge(a)
  \/ \E a \in Amount :
       \/ Increase(a)
       \/ \E order \in SetToAllKPermutations(Unpaid(invoice)) : Reduce(a, order)
  \/ \E e \in DOMAIN entry : VoidEntry(e)
  \/ \E i \in DOMAIN invoice : VoidInvoice(i) \/ SettleOutside(i)
  \/ IssueSettlement
  \/ \E I \in SUBSET Unpaid(invoice) : CreatePayment(I)
  \/ PayAll
  \/ \E p \in DOMAIN payment :
       \/ SubmitReceipt(p) \/ CancelPayment(p) \/ Expire(p) \/ PickNear(p) \/ FlagMismatch(p)
       \/ \E covered \in 1 .. AskedFor(p) : Approve(p, covered)
       \/ Reject(p)

Spec == Init /\ [][Next]_vars
-----------------------------------------------------------------------------
(* An invoice is paid exactly when allocations cover it, never by more     *)
(* than its amount, and money on a voided one is free again (allocation).  *)
PaidExactly ==
  \A i \in DOMAIN invoice :
    /\ Settled(invoice[i]) <= invoice[i].amount
    /\ invoice[i].status = "paid" <=> Settled(invoice[i]) = invoice[i].amount
    /\ invoice[i].status = "voided" => Settled(invoice[i]) = 0

(* No money is spent twice: what an entry settles is within its amount,    *)
(* and nothing once it is voided (entry_credit, release).  The entry of a  *)
(* checkout may settle a rounded shortfall on top.                         *)
NotOverspent ==
  \A e \in DOMAIN entry :
    /\ entry[e].void => Given(invoice, e) = 0
    /\ entry[e].kind # "checkout" => Given(invoice, e) <= entry[e].amount

(* Open invoices grow beyond the ledger debt only while one of them is     *)
(* under review, which enforce must not touch.                             *)
ExcessOnlyUnderReview ==
  [][(\A i \in DOMAIN invoice : invoice[i].status # "pending") /\ <<entry, invoice>>' # <<entry, invoice>>
       => Excess(entry', invoice') <= Excess(entry, invoice)]_vars

(* A paid invoice is asked for again only because an entry that settled    *)
(* it is voided: no rejected, expired or late payment reopens it           *)
(* (reject_payment, flag_mismatch, on_entry_void).                         *)
PaidStaysPaid ==
  [][\A i \in DOMAIN invoice :
       invoice[i].status = "paid" /\ invoice'[i].status # "paid"
         => \E e \in DOMAIN entry : /\ invoice[i].by[e] # 0
                                    /\ ~entry[e].void /\ entry'[e].void]_vars

(* allocation.py: "an admin's open (unpaid + under review) invoice         *)
(* remainder never exceeds the ledger debt".  While an invoice is under    *)
(* review enforce may not touch it; reject_payment returns it to unpaid    *)
(* and does not enforce.                                                   *)
InvoicesWithinDebt ==
  (\A i \in DOMAIN invoice : invoice[i].status # "pending")
    => OpenTotal(invoice) <= Debt(entry)
=============================================================================
