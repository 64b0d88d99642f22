----------------------------- MODULE AmountPool -----------------------------
(***************************************************************************)
(* What the unique amounts promise, whatever the checkout does with its    *)
(* orders: an order is given one amount in its life; it may let go of it   *)
(* and take it back, but only while no other order holds it.               *)
(***************************************************************************)

CONSTANTS Order, Amount, NoAmount

VARIABLES
  own,    \* the amount an order was created with
  held    \* the amount it reserves now

poolVars == <<own, held>>

Init ==
  /\ own = [o \in Order |-> NoAmount]
  /\ held = [o \in Order |-> NoAmount]

(* The orders of S stop reserving their amounts. *)
FreeOf(S) == [o \in Order |-> IF o \in S THEN NoAmount ELSE held[o]]

Release(S) ==
  /\ held' = FreeOf(S)
  /\ UNCHANGED own

(* A new order takes an amount that is free, perhaps just released. *)
Reserve(o, a, S) ==
  /\ own[o] = NoAmount
  /\ o \notin S
  /\ \A p \in Order \ {o} : FreeOf(S)[p] # a
  /\ own' = [own EXCEPT ![o] = a]
  /\ held' = [FreeOf(S) EXCEPT ![o] = a]

(* An order closed before takes its own amount back. *)
Retake(o) ==
  /\ own[o] # NoAmount
  /\ \A p \in Order \ {o} : held[p] # own[o]
  /\ held' = [held EXCEPT ![o] = own[o]]
  /\ UNCHANGED own

Next ==
  \/ \E S \in SUBSET Order : Release(S)
  \/ \E o \in Order, a \in Amount, S \in SUBSET Order : Reserve(o, a, S)
  \/ \E o \in Order : Retake(o)

Spec == Init /\ [][Next]_poolVars

(* No two orders reserve the same amount, and none reserves another's. *)
Exclusive ==
  \A o, p \in Order : /\ held[o] \in {NoAmount, own[o]}
                      /\ o # p /\ held[o] # NoAmount => held[o] # held[p]
=============================================================================
