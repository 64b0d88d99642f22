--------------------------- MODULE RenewalsProofs ---------------------------
(***************************************************************************)
(* For any number of services, orders, messages and failures: a completed  *)
(* order is delivered or its renewal still waits, and a renewal recorded   *)
(* as applied is on the panel.                                             *)
(***************************************************************************)
EXTENDS Renewals, TLAPS

(* A message that moves to another place stays a message.                  *)
LEMMA MessageMoves ==
  ASSUME NEW m \in Message, NEW pc \in {"fulfilling", "done", "due", "read", "added", "put", "reset"}
  PROVE  /\ [m EXCEPT !.pc = pc] \in Message
         /\ [m EXCEPT !.pc = pc].pc = pc
BY DEF Message, Locking

LEMMA JobMoves ==
  ASSUME TypeOK, NEW j \in Job, job[j] # None,
         NEW pc \in {"fulfilling", "done", "due", "read", "added", "put", "reset"}, MovesTo(j, pc)
  PROVE  /\ job' \in [Job -> Message \cup {None}]
         /\ job'[j] # None /\ job'[j].pc = pc
         /\ job'[j].order = job[j].order /\ job'[j].service = job[j].service
         /\ \A i \in Job : i # j => job'[i] = job[i]
<1>1. job[j] \in Message
  BY DEF TypeOK
<1>2. [job[j] EXCEPT !.pc = pc] \in Message
  BY <1>1, MessageMoves
<1>3. job' = [job EXCEPT ![j] = [job[j] EXCEPT !.pc = pc]]
  BY DEF MovesTo
<1>4. job'[j] = [job[j] EXCEPT !.pc = pc]
  BY <1>3 DEF TypeOK
<1>5. job' \in [Job -> Message \cup {None}] /\ \A i \in Job : i # j => job'[i] = job[i]
  BY <1>2, <1>3 DEF TypeOK
<1>6. job'[j].pc = pc /\ job'[j].order = job[j].order /\ job'[j].service = job[j].service
  BY <1>1, <1>4 DEF Message
<1> QED BY <1>2, <1>4, <1>5, <1>6, RenewalsAssumption

(* Counting up to the bound counts.                                        *)
LEMMA CountedType ==
  ASSUME NEW n \in 0 .. MaxCount
  PROVE  Counted(n) \in 0 .. MaxCount /\ Counted(n) > 0
BY RenewalsAssumption DEF Counted

(* Our copy of an account is a service row.                                *)
LEMMA CopyType ==
  ASSUME NEW a \in Account, NEW st \in {"active", "limited", "expired"}
  PROVE  Copy(a, st) \in Mirror
BY DEF Account, Mirror, Copy

(* What a renewal writes to the panel is a limit and an expiry.            *)
LEMMA RenewedType ==
  ASSUME TypeOK, NEW p \in Plan
  PROVE  RenewedLimit(p) \in Nat /\ RenewedLeft(p) \in Nat
<1>1. p.service \in Service /\ p.volume \in Nat
  BY RenewalsAssumption
<1>2. seen[p.service].limit \in Nat /\ seen[p.service].used \in Nat /\ seen[p.service].left \in Nat
  BY <1>1 DEF TypeOK, Mirror
<1>3. Unused(p.service) \in Nat
  BY <1>2 DEF Unused
<1> QED BY <1>1, <1>2, <1>3 DEF RenewedLimit, RenewedLeft

(* A renewal writes a limit that is enough for it.                         *)
LEMMA RenewedEnough ==
  ASSUME TypeOK, NEW p \in Plan
  PROVE  Enough(p, RenewedLimit(p))
<1>1. p.service \in Service /\ p.volume \in Nat /\ p.mode \in Mode
  BY RenewalsAssumption
<1>2. seen[p.service].limit \in Nat /\ seen[p.service].used \in Nat
  BY <1>1 DEF TypeOK, Mirror
<1>3. Unused(p.service) \in Nat
  BY <1>2 DEF Unused
<1> QED BY <1>1, <1>2, <1>3 DEF RenewedLimit, Enough, Mode

(* A renewal that reaches the panel moves its own message only, which from *)
(* then on names the order of the row (apply_scheduled_renewal).           *)
LEMMA RenewOnPanelMoves ==
  ASSUME IInv, NEW j \in Job, RenewOnPanel(j)
  PROVE  /\ job[j] \in Message /\ job[j].service \in Service /\ row[job[j].service] \in Renewal
         /\ job' \in [Job -> Message \cup {None}]
         /\ job'[j] # None /\ job'[j].pc = "put" /\ job'[j].service = job[j].service
         /\ \A i \in Job : i # j => job'[i] = job[i]
<1> DEFINE moved == [job[j] EXCEPT !.pc = "put", !.order = row[job[j].service].order]
<1>1. job[j] \in Message
  BY DEF IInv, TypeOK, RenewOnPanel, At
<1>2. job[j].service \in Service
  BY <1>1 DEF Message
<1>3. row[job[j].service] \in Renewal
  BY <1>2 DEF IInv, TypeOK, RenewOnPanel, Waits
<1>4. moved \in Message /\ moved.pc = "put" /\ moved.service = job[j].service
  BY <1>1, <1>3 DEF Message, Locking, Renewal
<1>5. moved # None
  BY <1>4, RenewalsAssumption
<1>6. job' = [job EXCEPT ![j] = moved]
  BY DEF RenewOnPanel
<1> HIDE DEF moved
<1>7. job \in [Job -> Message \cup {None}]
  BY DEF IInv, TypeOK
<1> QED BY <1>1, <1>2, <1>3, <1>4, <1>5, <1>6, <1>7

LEMMA PayStep ==
  ASSUME IInv, NEW o \in Order, Pay(o)
  PROVE  IInv'
<1>1. TypeOK'
  BY RenewalsAssumption DEF IInv, TypeOK, Pay, pastVars, Renewal, Message, Account,
     Mirror, Locking
<1>2. BoughtInv'
  BY RenewalsAssumption DEF IInv, BoughtInv, Pay, pastVars, TypeOK
<1>3. RowInv'
  BY RenewalsAssumption DEF IInv, RowInv, Pay, pastVars, TypeOK, Renewal, BoughtInv
<1>4. LockInv'
  BY RenewalsAssumption DEF IInv, LockInv, Pay, pastVars, TypeOK, Message, Locking
<1>5. FulfilInv'
  BY RenewalsAssumption DEF IInv, FulfilInv, Pay, pastVars, TypeOK, Message,
     Delivered, Locking, Renewal, BoughtInv
<1>6. ApplyInv'
  BY RenewalsAssumption DEF IInv, ApplyInv, Pay, Waits, pastVars, TypeOK, Message,
     Account, Enough, Locking, Renewal, LockInv, BoughtInv, RowInv
<1>7. CompletedIsDelivered'
  BY RenewalsAssumption DEF IInv, CompletedIsDelivered, Pay, pastVars, Delivered,
     FulfilInv, TypeOK, Renewal, BoughtInv, Message, RowInv
<1> QED BY <1>1, <1>2, <1>3, <1>4, <1>5, <1>6, <1>7 DEF IInv

LEMMA RetryProvisionStep ==
  ASSUME IInv, NEW o \in Order, RetryProvision(o)
  PROVE  IInv'
<1>1. TypeOK'
  BY RenewalsAssumption DEF IInv, TypeOK, RetryProvision, pastVars, Renewal,
     Message, Account, Mirror, Locking
<1>2. BoughtInv'
  BY RenewalsAssumption DEF IInv, BoughtInv, RetryProvision, pastVars, TypeOK
<1>3. RowInv'
  BY RenewalsAssumption DEF IInv, RowInv, RetryProvision, pastVars, TypeOK, Renewal,
     BoughtInv
<1>4. LockInv'
  BY RenewalsAssumption DEF IInv, LockInv, RetryProvision, pastVars, TypeOK,
     Message, Locking
<1>5. FulfilInv'
  BY RenewalsAssumption DEF IInv, FulfilInv, RetryProvision, pastVars, TypeOK,
     Message, Delivered, Locking, Renewal, BoughtInv
<1>6. ApplyInv'
  BY RenewalsAssumption DEF IInv, ApplyInv, RetryProvision, Waits, pastVars, TypeOK,
     Message, Account, Enough, Locking, Renewal, LockInv, BoughtInv, RowInv
<1>7. CompletedIsDelivered'
  BY RenewalsAssumption DEF IInv, CompletedIsDelivered, RetryProvision, pastVars,
     Delivered, FulfilInv, TypeOK, Renewal, BoughtInv, Message, RowInv
<1> QED BY <1>1, <1>2, <1>3, <1>4, <1>5, <1>6, <1>7 DEF IInv

(* Whoever is applying a renewal goes on doing so: a step of another job that
   leaves the rows, the accounts and the orders' purchases alone. *)
LEMMA ApplyKept ==
  ASSUME ApplyInv, UNCHANGED <<bought, row, account>>,
         \A i \in Job : job'[i] # None /\ job'[i].pc \in {"put", "reset"} => job'[i] = job[i]
  PROVE  ApplyInv'
BY DEF ApplyInv, Waits

LEMMA StartFulfilStep ==
  ASSUME IInv, NEW j \in Job, NEW o \in Order, StartFulfil(j, o)
  PROVE  IInv'
<1>1. TypeOK'
  <2>1. bought[o] # None
    BY DEF IInv, BoughtInv, StartFulfil
  <2>2. job' \in [Job -> Message \cup {None}]
    BY <2>1, RenewalsAssumption DEF IInv, TypeOK, StartFulfil, Message
  <2> QED BY <2>1, <2>2, RenewalsAssumption DEF IInv, TypeOK, StartFulfil, orderVars, pastVars
<1>2. BoughtInv'
  BY RenewalsAssumption DEF IInv, BoughtInv, StartFulfil, orderVars, pastVars,
     TypeOK
<1>3. RowInv'
  BY RenewalsAssumption DEF IInv, RowInv, StartFulfil, orderVars, pastVars, TypeOK,
     Renewal, BoughtInv
<1>4. LockInv'
  BY RenewalsAssumption DEF IInv, LockInv, StartFulfil, orderVars, pastVars, TypeOK,
     Message, Locking
<1>5. FulfilInv'
  BY RenewalsAssumption DEF IInv, FulfilInv, StartFulfil, orderVars, pastVars,
     TypeOK, Message, Delivered, Locking, Renewal, BoughtInv
<1>6. ApplyInv'
  <2>1. \A i \in Job : job'[i] # None /\ job'[i].pc \in {"put", "reset"} => job'[i] = job[i]
    BY RenewalsAssumption DEF IInv, TypeOK, StartFulfil, Message
  <2> QED BY <2>1, ApplyKept DEF IInv, StartFulfil, orderVars
<1>7. CompletedIsDelivered'
  BY RenewalsAssumption DEF IInv, CompletedIsDelivered, StartFulfil, orderVars,
     pastVars, Delivered, FulfilInv, TypeOK, Renewal, BoughtInv, Message, RowInv
<1> QED BY <1>1, <1>2, <1>3, <1>4, <1>5, <1>6, <1>7 DEF IInv

LEMMA SendApplyStep ==
  ASSUME IInv, NEW j \in Job, NEW s \in Service, SendApply(j, s)
  PROVE  IInv'
<1>1. TypeOK'
  BY RenewalsAssumption DEF IInv, TypeOK, SendApply, orderVars, pastVars, Renewal,
     Message, Account, Mirror, Locking
<1>2. BoughtInv'
  BY RenewalsAssumption DEF IInv, BoughtInv, SendApply, orderVars, pastVars, TypeOK
<1>3. RowInv'
  BY RenewalsAssumption DEF IInv, RowInv, SendApply, orderVars, pastVars, TypeOK,
     Renewal, BoughtInv
<1>4. LockInv'
  BY RenewalsAssumption DEF IInv, LockInv, SendApply, orderVars, pastVars, TypeOK,
     Message, Locking
<1>5. FulfilInv'
  BY RenewalsAssumption DEF IInv, FulfilInv, SendApply, orderVars, pastVars, TypeOK,
     Message, Delivered, Locking, Renewal, BoughtInv
<1>6. ApplyInv'
  <2>1. \A i \in Job : job'[i] # None /\ job'[i].pc \in {"put", "reset"} => job'[i] = job[i]
    BY RenewalsAssumption DEF IInv, TypeOK, SendApply, Message
  <2> QED BY <2>1, ApplyKept DEF IInv, SendApply, orderVars
<1>7. CompletedIsDelivered'
  BY RenewalsAssumption DEF IInv, CompletedIsDelivered, SendApply, orderVars,
     pastVars, Delivered, FulfilInv, TypeOK, Renewal, BoughtInv, Message, RowInv
<1> QED BY <1>1, <1>2, <1>3, <1>4, <1>5, <1>6, <1>7 DEF IInv

LEMMA ScheduleRenewalStep ==
  ASSUME IInv, NEW j \in Job, ScheduleRenewal(j)
  PROVE  IInv'
<1>1. TypeOK'
  <2>1. job' \in [Job -> Message \cup {None}]
    BY JobMoves DEF IInv, ScheduleRenewal, At
  <2>2. job[j] \in Message /\ job[j].order \in Order /\ job[j].service \in Service
    BY DEF IInv, TypeOK, ScheduleRenewal, At, FulfilInv, Message
  <2>3. row' \in [Service -> Renewal \cup {None}]
    BY <2>2 DEF IInv, TypeOK, ScheduleRenewal, Renewal
  <2> QED BY <2>1, <2>2, <2>3, RenewalsAssumption DEF IInv, TypeOK, ScheduleRenewal, orderVars, pastVars
<1>2. BoughtInv'
  BY RenewalsAssumption DEF IInv, BoughtInv, ScheduleRenewal, At, MovesTo, Applying,
     orderVars, pastVars, RenewalTaken, TypeOK
<1>3. RowInv'
  <2>1. job[j].order \in Order /\ status[job[j].order] # "absent"
        /\ job[j].service = bought[job[j].order].service
    BY DEF IInv, FulfilInv, ScheduleRenewal, At
  <2>2. ASSUME NEW s \in Service, row'[s] # None
        PROVE  /\ status'[row'[s].order] # "absent"
               /\ bought'[row'[s].order].type = "renew" /\ bought'[row'[s].order].service = s
               /\ row'[s].applied => granted'[row'[s].order] > 0
    <3>1. CASE s = job[j].service
      BY <2>1, <3>1 DEF IInv, TypeOK, ScheduleRenewal, orderVars, pastVars
    <3>2. CASE s # job[j].service
      BY <2>2, <3>2 DEF IInv, TypeOK, RowInv, ScheduleRenewal, orderVars, pastVars
    <3> QED BY <3>1, <3>2
  <2> QED BY <2>2 DEF RowInv
<1>4. LockInv'
  BY RenewalsAssumption DEF IInv, LockInv, ScheduleRenewal, At, MovesTo, Applying,
     orderVars, pastVars, RenewalTaken, TypeOK, Message, Locking
<1>5. FulfilInv'
  <2>1. job[j].order \in Order /\ job[j].service = bought[job[j].order].service
        /\ job[j].service \in Service
    BY DEF IInv, TypeOK, FulfilInv, ScheduleRenewal, At, Message
  <2>2. bought' = bought /\ status' = status /\ granted' = granted
    BY DEF ScheduleRenewal, orderVars, pastVars
  <2>3. ASSUME NEW o \in Order, Delivered(o) PROVE Delivered(o)'
    <3>1. CASE granted[o] > 0
      BY <2>2, <3>1 DEF Delivered
    <3>2. CASE bought[o].type = "renew" /\ row[bought[o].service] = [order |-> o, applied |-> FALSE]
      <4>1. CASE bought[o].service = job[j].service
        <5>1. row[job[j].service] = [order |-> o, applied |-> FALSE]
          BY <3>2, <4>1
        <5>2. Waits(job[j].service) /\ row[job[j].service].order = o
          <6>1. [order |-> o, applied |-> FALSE] \in Renewal
            BY DEF Renewal
          <6>2. row[job[j].service] # None
            BY <5>1, <6>1, RenewalsAssumption, Zenon
          <6>3. row[job[j].service].order = o
            BY <5>1
          <6>4. ~row[job[j].service].applied
            BY <5>1
          <6> QED BY <6>2, <6>3, <6>4 DEF Waits
        <5>3. o = job[j].order
          BY <5>2 DEF ScheduleRenewal, RenewalTaken
        <5> QED BY <2>1, <2>2, <3>2, <4>1, <5>3 DEF IInv, TypeOK, Delivered, ScheduleRenewal
      <4>2. CASE bought[o].service # job[j].service
        <5>1. row'[bought[o].service] = row[bought[o].service]
          BY <4>2 DEF ScheduleRenewal, IInv, TypeOK
        <5> QED BY <2>2, <3>2, <5>1 DEF Delivered
      <4> QED BY <4>1, <4>2
    <3> QED BY <2>3, <3>1, <3>2 DEF Delivered
  <2>4. ASSUME NEW o \in Order, o = job[j].order PROVE Delivered(o)'
    BY <2>1, <2>2, <2>4 DEF IInv, TypeOK, Delivered, ScheduleRenewal
  <2>5. \A i \in Job : i # j => job'[i] = job[i]
    BY DEF IInv, TypeOK, ScheduleRenewal, MovesTo
  <2>6. job'[j] # None /\ job'[j].pc = "done" /\ job'[j].order = job[j].order
        /\ job'[j].service = job[j].service
    BY JobMoves DEF IInv, ScheduleRenewal, At
  <2>7. status[job[j].order] # "absent"
    BY DEF IInv, FulfilInv, ScheduleRenewal, At
  <2>8. ASSUME NEW i \in Job, job'[i] # None, job'[i].pc \in {"fulfilling", "read", "added", "done"}
        PROVE  /\ job'[i].order \in Order /\ status'[job'[i].order] # "absent"
               /\ job'[i].service = bought'[job'[i].order].service
               /\ job'[i].pc \in {"read", "added"} => bought'[job'[i].order].type = "addon_volume"
               /\ job'[i].pc = "done" => \E o \in Order : o = job'[i].order /\ Delivered(o)'
    <3>1. CASE i = j
      BY <2>1, <2>2, <2>4, <2>6, <2>7, <3>1
    <3>2. CASE i # j
      BY <2>2, <2>3, <2>5, <2>8, <3>2 DEF IInv, FulfilInv
    <3> QED BY <3>1, <3>2
  <2> QED BY <2>8 DEF FulfilInv, Delivered
<1>6. ApplyInv'
  BY RenewalsAssumption, SMTT(30) DEF IInv, ApplyInv, ScheduleRenewal, At, MovesTo, Applying,
     Waits, orderVars, pastVars, RenewalTaken, TypeOK, Message, Account, Enough,
     Locking, Renewal, LockInv, BoughtInv, RowInv
<1>7. CompletedIsDelivered'
  <2>1. job[j].order \in Order /\ job[j].service = bought[job[j].order].service
        /\ job[j].service \in Service
    BY DEF IInv, TypeOK, FulfilInv, ScheduleRenewal, At, Message
  <2>2. bought' = bought /\ status' = status /\ granted' = granted
    BY DEF ScheduleRenewal, orderVars, pastVars
  <2>3. ASSUME NEW o \in Order, Delivered(o) PROVE Delivered(o)'
    <3>1. CASE granted[o] > 0
      BY <2>2, <3>1 DEF Delivered
    <3>2. CASE bought[o].type = "renew" /\ row[bought[o].service] = [order |-> o, applied |-> FALSE]
      <4>1. CASE bought[o].service = job[j].service
        <5>1. row[job[j].service] = [order |-> o, applied |-> FALSE]
          BY <3>2, <4>1
        <5>2. Waits(job[j].service) /\ row[job[j].service].order = o
          <6>1. [order |-> o, applied |-> FALSE] \in Renewal
            BY DEF Renewal
          <6>2. row[job[j].service] # None
            BY <5>1, <6>1, RenewalsAssumption, Zenon
          <6>3. row[job[j].service].order = o
            BY <5>1
          <6>4. ~row[job[j].service].applied
            BY <5>1
          <6> QED BY <6>2, <6>3, <6>4 DEF Waits
        <5>3. o = job[j].order
          BY <5>2 DEF ScheduleRenewal, RenewalTaken
        <5> QED BY <2>1, <2>2, <3>2, <4>1, <5>3 DEF IInv, TypeOK, Delivered, ScheduleRenewal
      <4>2. CASE bought[o].service # job[j].service
        <5>1. row'[bought[o].service] = row[bought[o].service]
          BY <4>2 DEF ScheduleRenewal, IInv, TypeOK
        <5> QED BY <2>2, <3>2, <5>1 DEF Delivered
      <4> QED BY <4>1, <4>2
    <3> QED BY <2>3, <3>1, <3>2 DEF Delivered
  <2>4. ASSUME NEW o \in Order, o = job[j].order PROVE Delivered(o)'
    BY <2>1, <2>2, <2>4 DEF IInv, TypeOK, Delivered, ScheduleRenewal
  <2> QED BY <2>2, <2>3 DEF IInv, CompletedIsDelivered
<1> QED BY <1>1, <1>2, <1>3, <1>4, <1>5, <1>6, <1>7 DEF IInv

LEMMA RenewalConflictStep ==
  ASSUME IInv, NEW j \in Job, RenewalConflict(j)
  PROVE  IInv'
<1>1. TypeOK'
  BY RenewalsAssumption DEF IInv, TypeOK, RenewalConflict, At, Ends, Applying,
     pastVars, RenewalTaken, Renewal, Message, Account, Mirror, Locking
<1>2. BoughtInv'
  BY DEF IInv, BoughtInv, TypeOK, FulfilInv, RenewalConflict, At
<1>3. RowInv'
  BY RenewalsAssumption DEF IInv, RowInv, RenewalConflict, At, Ends, Applying,
     pastVars, RenewalTaken, TypeOK, Renewal, BoughtInv
<1>4. LockInv'
  BY RenewalsAssumption DEF IInv, LockInv, RenewalConflict, At, Ends, Applying,
     pastVars, RenewalTaken, TypeOK, Message, Locking
<1>5. FulfilInv'
  BY RenewalsAssumption DEF IInv, FulfilInv, RenewalConflict, At, Ends, Applying,
     pastVars, RenewalTaken, TypeOK, Message, Delivered, Locking, Renewal, BoughtInv
<1>6. ApplyInv'
  <2>1. \A i \in Job : job'[i] # None /\ job'[i].pc \in {"put", "reset"} => job'[i] = job[i]
    BY RenewalsAssumption DEF IInv, TypeOK, RenewalConflict, Ends, Message
  <2> QED BY <2>1, ApplyKept DEF IInv, RenewalConflict, orderVars
<1>7. CompletedIsDelivered'
  BY RenewalsAssumption DEF IInv, CompletedIsDelivered, RenewalConflict, At, Ends,
     Applying, pastVars, RenewalTaken, Delivered, FulfilInv, TypeOK, Renewal,
     BoughtInv, Message, RowInv
<1> QED BY <1>1, <1>2, <1>3, <1>4, <1>5, <1>6, <1>7 DEF IInv

LEMMA ReadLimitStep ==
  ASSUME IInv, NEW j \in Job, ReadLimit(j)
  PROVE  IInv'
<1>1. TypeOK'
  <2>1. job[j] \in Message /\ account[job[j].service].limit \in Nat
    BY DEF IInv, TypeOK, ReadLimit, At, Message, Account
  <2>2. [job[j] EXCEPT !.pc = "read", !.base = account[job[j].service].limit] \in Message
    BY <2>1 DEF Message, Locking
  <2>3. job' = [job EXCEPT ![j] = [job[j] EXCEPT !.pc = "read", !.base = account[job[j].service].limit]]
    BY DEF ReadLimit
  <2>4. job' \in [Job -> Message \cup {None}]
    BY <2>2, <2>3 DEF IInv, TypeOK
  <2>5. UNCHANGED <<bought, status, refused, row, seen, account, faults, puts, granted>>
    BY DEF ReadLimit, orderVars, pastVars
  <2> QED BY <2>4, <2>5 DEF IInv, TypeOK
<1>2. BoughtInv'
  BY RenewalsAssumption DEF IInv, BoughtInv, ReadLimit, At, Locked, orderVars,
     pastVars, TypeOK
<1>3. RowInv'
  BY RenewalsAssumption DEF IInv, RowInv, ReadLimit, At, Locked, orderVars,
     pastVars, TypeOK, Renewal, BoughtInv
<1>4. LockInv'
  BY RenewalsAssumption DEF IInv, LockInv, ReadLimit, At, Locked, orderVars,
     pastVars, TypeOK, Message, Locking
<1>5. FulfilInv'
  BY RenewalsAssumption DEF IInv, FulfilInv, ReadLimit, At, Locked, orderVars,
     pastVars, TypeOK, Message, Delivered, Locking, Renewal, BoughtInv
<1>6. ApplyInv'
  <2>1. \A i \in Job : job'[i] # None /\ job'[i].pc \in {"put", "reset"} => job'[i] = job[i]
    BY DEF IInv, TypeOK, ReadLimit, At, Message
  <2> QED BY <2>1, ApplyKept DEF IInv, ReadLimit, orderVars
<1>7. CompletedIsDelivered'
  BY RenewalsAssumption DEF IInv, CompletedIsDelivered, ReadLimit, At, Locked,
     orderVars, pastVars, Delivered, FulfilInv, TypeOK, Renewal, BoughtInv, Message,
     RowInv
<1> QED BY <1>1, <1>2, <1>3, <1>4, <1>5, <1>6, <1>7 DEF IInv

LEMMA NothingToAddStep ==
  ASSUME IInv, NEW j \in Job, NothingToAdd(j)
  PROVE  IInv'
<1>1. TypeOK'
  <2>1. job' \in [Job -> Message \cup {None}]
    BY JobMoves DEF IInv, NothingToAdd, At
  <2>2. granted' \in [Order -> 0 .. MaxCount]
    BY CountedType DEF IInv, TypeOK, NothingToAdd
  <2> QED BY <2>1, <2>2, RenewalsAssumption DEF IInv, TypeOK, NothingToAdd, orderVars, pastVars
<1>2. BoughtInv'
  BY RenewalsAssumption DEF IInv, BoughtInv, NothingToAdd, At, MovesTo, Locked,
     Counted, orderVars, TypeOK
<1>3. RowInv'
  BY RenewalsAssumption DEF IInv, RowInv, NothingToAdd, At, MovesTo, Locked,
     Counted, orderVars, TypeOK, Renewal, BoughtInv
<1>4. LockInv'
  BY RenewalsAssumption DEF IInv, LockInv, NothingToAdd, At, MovesTo, Locked,
     Counted, orderVars, TypeOK, Message, Locking
<1>5. FulfilInv'
  BY RenewalsAssumption DEF IInv, FulfilInv, NothingToAdd, At, MovesTo, Locked,
     Counted, orderVars, TypeOK, Message, Delivered, Locking, Renewal, BoughtInv
<1>6. ApplyInv'
  <2>1. \A i \in Job : job'[i] # None /\ job'[i].pc \in {"put", "reset"} => job'[i] = job[i]
    BY RenewalsAssumption DEF IInv, TypeOK, NothingToAdd, At, MovesTo, Message
  <2> QED BY <2>1, ApplyKept DEF IInv, NothingToAdd, orderVars
<1>7. CompletedIsDelivered'
  BY RenewalsAssumption DEF IInv, CompletedIsDelivered, NothingToAdd, At, MovesTo,
     Locked, Counted, orderVars, Delivered, FulfilInv, TypeOK, Renewal, BoughtInv,
     Message, RowInv
<1> QED BY <1>1, <1>2, <1>3, <1>4, <1>5, <1>6, <1>7 DEF IInv

LEMMA AddVolumeStep ==
  ASSUME IInv, NEW j \in Job, AddVolume(j)
  PROVE  IInv'
<1>1. TypeOK'
  <2>1. job' \in [Job -> Message \cup {None}]
    BY JobMoves DEF IInv, AddVolume, At
  <2>2. job[j].service \in Service /\ job[j].base + bought[job[j].order].volume \in Nat
    BY RenewalsAssumption DEF IInv, TypeOK, AddVolume, At, Message, FulfilInv, BoughtInv
  <2>3. account' \in [Service -> Account]
    BY <2>2 DEF IInv, TypeOK, AddVolume, Account
  <2>4. puts' \in [Order -> 0 .. MaxCount]
    BY CountedType DEF IInv, TypeOK, AddVolume
  <2> QED BY <2>1, <2>2, <2>3, <2>4, RenewalsAssumption DEF IInv, TypeOK, AddVolume, orderVars, pastVars
<1>2. BoughtInv'
  BY RenewalsAssumption DEF IInv, BoughtInv, AddVolume, At, MovesTo, Counted,
     orderVars, TypeOK
<1>3. RowInv'
  BY RenewalsAssumption DEF IInv, RowInv, AddVolume, At, MovesTo, Counted,
     orderVars, TypeOK, Renewal, BoughtInv
<1>4. LockInv'
  BY RenewalsAssumption DEF IInv, LockInv, AddVolume, At, MovesTo, Counted,
     orderVars, TypeOK, Message, Locking
<1>5. FulfilInv'
  BY RenewalsAssumption DEF IInv, FulfilInv, AddVolume, At, MovesTo, Counted,
     orderVars, TypeOK, Message, Delivered, Locking, Renewal, BoughtInv
<1>6. ApplyInv'
  BY RenewalsAssumption DEF IInv, ApplyInv, AddVolume, At, MovesTo, Waits, Counted,
     orderVars, TypeOK, Message, Account, Enough, Locking, Renewal, LockInv,
     BoughtInv, RowInv
<1>7. CompletedIsDelivered'
  BY RenewalsAssumption DEF IInv, CompletedIsDelivered, AddVolume, At, MovesTo,
     Counted, orderVars, Delivered, FulfilInv, TypeOK, Renewal, BoughtInv, Message,
     RowInv
<1> QED BY <1>1, <1>2, <1>3, <1>4, <1>5, <1>6, <1>7 DEF IInv

LEMMA MirrorVolumeStep ==
  ASSUME IInv, NEW j \in Job, MirrorVolume(j)
  PROVE  IInv'
<1>1. TypeOK'
  <2>1. job' \in [Job -> Message \cup {None}]
    BY JobMoves DEF IInv, MirrorVolume, At
  <2>2. seen' \in [Service -> Mirror]
    BY CopyType DEF IInv, TypeOK, MirrorVolume, MirrorOf, At, Message, PanelStatus
  <2>3. granted' \in [Order -> 0 .. MaxCount]
    BY CountedType DEF IInv, TypeOK, MirrorVolume
  <2> QED BY <2>1, <2>2, <2>3, RenewalsAssumption DEF IInv, TypeOK, MirrorVolume, orderVars, pastVars
<1>2. BoughtInv'
  BY RenewalsAssumption DEF IInv, BoughtInv, MirrorVolume, At, MovesTo, Counted,
     orderVars, TypeOK
<1>3. RowInv'
  BY RenewalsAssumption DEF IInv, RowInv, MirrorVolume, At, MovesTo, Counted,
     orderVars, TypeOK, Renewal, BoughtInv
<1>4. LockInv'
  BY RenewalsAssumption DEF IInv, LockInv, MirrorVolume, At, MovesTo, Counted,
     orderVars, TypeOK, Message, Locking
<1>5. FulfilInv'
  BY RenewalsAssumption DEF IInv, FulfilInv, MirrorVolume, At, MovesTo, Counted,
     orderVars, TypeOK, Message, Delivered, Locking, Renewal, BoughtInv
<1>6. ApplyInv'
  <2>1. \A i \in Job : job'[i] # None /\ job'[i].pc \in {"put", "reset"} => job'[i] = job[i]
    BY RenewalsAssumption DEF IInv, TypeOK, MirrorVolume, At, MovesTo, Message
  <2> QED BY <2>1, ApplyKept DEF IInv, MirrorVolume, orderVars
<1>7. CompletedIsDelivered'
  BY RenewalsAssumption DEF IInv, CompletedIsDelivered, MirrorVolume, At, MovesTo,
     Counted, orderVars, Delivered, FulfilInv, TypeOK, Renewal, BoughtInv, Message,
     RowInv
<1> QED BY <1>1, <1>2, <1>3, <1>4, <1>5, <1>6, <1>7 DEF IInv

LEMMA CompleteFulfilStep ==
  ASSUME IInv, NEW j \in Job, CompleteFulfil(j)
  PROVE  IInv'
<1>1. TypeOK'
  BY RenewalsAssumption DEF IInv, TypeOK, CompleteFulfil, At, Ends, pastVars,
     Renewal, Message, Account, Mirror, Locking
<1>2. BoughtInv'
  BY DEF IInv, BoughtInv, TypeOK, FulfilInv, CompleteFulfil, At
<1>3. RowInv'
  BY RenewalsAssumption DEF IInv, RowInv, CompleteFulfil, At, Ends, pastVars,
     TypeOK, Renewal, BoughtInv
<1>4. LockInv'
  BY RenewalsAssumption DEF IInv, LockInv, CompleteFulfil, At, Ends, pastVars,
     TypeOK, Message, Locking
<1>5. FulfilInv'
  BY RenewalsAssumption DEF IInv, FulfilInv, CompleteFulfil, At, Ends, pastVars,
     TypeOK, Message, Delivered, Locking, Renewal, BoughtInv
<1>6. ApplyInv'
  <2>1. \A i \in Job : job'[i] # None /\ job'[i].pc \in {"put", "reset"} => job'[i] = job[i]
    BY RenewalsAssumption DEF IInv, TypeOK, CompleteFulfil, Ends, Message
  <2> QED BY <2>1, ApplyKept DEF IInv, CompleteFulfil, orderVars
<1>7. CompletedIsDelivered'
  BY RenewalsAssumption DEF IInv, CompletedIsDelivered, CompleteFulfil, At, Ends,
     pastVars, Delivered, FulfilInv, TypeOK, Renewal, BoughtInv, Message, RowInv
<1> QED BY <1>1, <1>2, <1>3, <1>4, <1>5, <1>6, <1>7 DEF IInv

LEMMA SkipApplyStep ==
  ASSUME IInv, NEW j \in Job, SkipApply(j)
  PROVE  IInv'
<1>1. TypeOK'
  BY RenewalsAssumption DEF IInv, TypeOK, SkipApply, At, Ends, Locked, Waits,
     orderVars, pastVars, Renewal, Message, Account, Mirror, Locking
<1>2. BoughtInv'
  BY RenewalsAssumption DEF IInv, BoughtInv, SkipApply, At, Ends, Locked, Waits,
     orderVars, pastVars, TypeOK
<1>3. RowInv'
  BY RenewalsAssumption DEF IInv, RowInv, SkipApply, At, Ends, Locked, Waits,
     orderVars, pastVars, TypeOK, Renewal, BoughtInv
<1>4. LockInv'
  BY RenewalsAssumption DEF IInv, LockInv, SkipApply, At, Ends, Locked, Waits,
     orderVars, pastVars, TypeOK, Message, Locking
<1>5. FulfilInv'
  BY RenewalsAssumption DEF IInv, FulfilInv, SkipApply, At, Ends, Locked, Waits,
     orderVars, pastVars, TypeOK, Message, Delivered, Locking, Renewal, BoughtInv
<1>6. ApplyInv'
  <2>1. \A i \in Job : job'[i] # None /\ job'[i].pc \in {"put", "reset"} => job'[i] = job[i]
    BY RenewalsAssumption DEF IInv, TypeOK, SkipApply, Ends, Message
  <2> QED BY <2>1, ApplyKept DEF IInv, SkipApply, orderVars
<1>7. CompletedIsDelivered'
  BY RenewalsAssumption DEF IInv, CompletedIsDelivered, SkipApply, At, Ends, Locked,
     Waits, orderVars, pastVars, Delivered, FulfilInv, TypeOK, Renewal, BoughtInv,
     Message, RowInv
<1> QED BY <1>1, <1>2, <1>3, <1>4, <1>5, <1>6, <1>7 DEF IInv

LEMMA RenewOnPanelStep ==
  ASSUME IInv, NEW j \in Job, RenewOnPanel(j)
  PROVE  IInv'
<1>1. TypeOK'
  <2>1. job[j] \in Message /\ job[j].service \in Service /\ row[job[j].service] \in Renewal
    BY RenewOnPanelMoves
  <2>2. job' \in [Job -> Message \cup {None}]
    BY RenewOnPanelMoves
  <2>3. bought[row[job[j].service].order] \in Plan
    BY <2>1, RenewalsAssumption DEF IInv, TypeOK, RowInv, BoughtInv, Renewal
  <2>4. RenewedLimit(bought[row[job[j].service].order]) \in Nat /\ RenewedLeft(bought[row[job[j].service].order]) \in Nat
    BY <2>3, RenewedType DEF IInv
  <2>5. account' \in [Service -> Account]
    BY <2>1, <2>4 DEF IInv, TypeOK, RenewOnPanel, Account
  <2>6. puts' \in [Order -> 0 .. MaxCount]
    BY CountedType DEF IInv, TypeOK, RenewOnPanel
  <2> QED BY <2>1, <2>2, <2>3, <2>4, <2>5, <2>6, RenewalsAssumption DEF IInv, TypeOK, RenewOnPanel, orderVars, pastVars
<1>2. BoughtInv'
  BY RenewalsAssumption DEF IInv, BoughtInv, RenewOnPanel, At, Locked, Waits,
     Counted, orderVars, RenewedLimit, RenewedLeft, Unused, TypeOK
<1>3. RowInv'
  BY RenewalsAssumption DEF IInv, RowInv, RenewOnPanel, At, Locked, Waits, Counted,
     orderVars, RenewedLimit, RenewedLeft, Unused, TypeOK, Renewal, BoughtInv
<1>4. LockInv'
  <2>1. job[j] \in Message /\ job[j].service \in Service /\ row[job[j].service] \in Renewal
    BY RenewOnPanelMoves
  <2>2. /\ job'[j] # None /\ job'[j].pc = "put" /\ job'[j].service = job[j].service
        /\ \A i \in Job : i # j => job'[i] = job[i]
    BY RenewOnPanelMoves
  <2>3. /\ ~Locked(job[j].service) /\ Waits(job[j].service)
        /\ bought' = bought /\ status' = status /\ granted' = granted /\ row' = row
    BY DEF RenewOnPanel, orderVars
  <2> QED BY <2>1, <2>2, <2>3 DEF IInv, LockInv, Locked, Locking
<1>5. FulfilInv'
  <2>1. job[j] \in Message /\ job[j].service \in Service /\ row[job[j].service] \in Renewal
    BY RenewOnPanelMoves
  <2>2. /\ job'[j] # None /\ job'[j].pc = "put" /\ job'[j].service = job[j].service
        /\ \A i \in Job : i # j => job'[i] = job[i]
    BY RenewOnPanelMoves
  <2>3. /\ ~Locked(job[j].service) /\ Waits(job[j].service)
        /\ bought' = bought /\ status' = status /\ granted' = granted /\ row' = row
    BY DEF RenewOnPanel, orderVars
  <2> QED BY <2>1, <2>2, <2>3 DEF IInv, FulfilInv, Delivered
<1>6. ApplyInv'
  <2>1. job[j] \in Message /\ job[j].service \in Service /\ row[job[j].service] \in Renewal
    BY RenewOnPanelMoves
  <2>2. /\ job'[j] # None /\ job'[j].pc = "put" /\ job'[j].service = job[j].service
        /\ \A i \in Job : i # j => job'[i] = job[i]
    BY RenewOnPanelMoves
  <2>3. /\ ~Locked(job[j].service) /\ Waits(job[j].service)
        /\ bought' = bought /\ status' = status /\ granted' = granted /\ row' = row
    BY DEF RenewOnPanel, orderVars
  <2>4. bought[row[job[j].service].order] \in Plan
    BY <2>1, RenewalsAssumption DEF IInv, TypeOK, RowInv, BoughtInv, Renewal
  <2>5. bought[row[job[j].service].order].service = job[j].service
    BY <2>1, RenewalsAssumption DEF IInv, RowInv, Renewal
  <2>6. /\ account'[job[j].service].limit = RenewedLimit(bought[row[job[j].service].order])
        /\ \A s \in Service : s # job[j].service => account'[s] = account[s]
    BY <2>1 DEF IInv, TypeOK, RenewOnPanel, Account
  <2>7. ASSUME NEW i \in Job, job'[i] # None, job'[i].pc \in {"put", "reset"}
        PROVE  /\ row'[job'[i].service] # None /\ ~row'[job'[i].service].applied
               /\ Enough(bought'[row'[job'[i].service].order], account'[job'[i].service].limit)
    <3>1. CASE i = j
      <4>1. Enough(bought[row[job[j].service].order], RenewedLimit(bought[row[job[j].service].order]))
        BY <2>4, RenewedEnough DEF IInv
      <4> QED BY <2>2, <2>3, <2>6, <3>1, <4>1 DEF Waits
    <3>2. CASE i # j
      <4>1. job'[i] = job[i] /\ job[i] \in Message /\ job[i].service \in Service
        BY <2>2, <2>7, <3>2 DEF IInv, TypeOK, Message
      <4>2. job[i].service # job[j].service
        BY <2>3, <2>7, <4>1 DEF Locked, Locking
      <4> QED BY <2>3, <2>6, <2>7, <4>1, <4>2 DEF IInv, ApplyInv, Waits
    <3> QED BY <3>1, <3>2
  <2> QED BY <2>7 DEF ApplyInv, Waits
<1>7. CompletedIsDelivered'
  BY RenewalsAssumption DEF IInv, CompletedIsDelivered, RenewOnPanel, At, Locked,
     Waits, Counted, orderVars, RenewedLimit, RenewedLeft, Unused, Delivered,
     FulfilInv, TypeOK, Renewal, BoughtInv, Message, RowInv
<1> QED BY <1>1, <1>2, <1>3, <1>4, <1>5, <1>6, <1>7 DEF IInv

LEMMA ResetUsageStep ==
  ASSUME IInv, NEW j \in Job, ResetUsage(j)
  PROVE  IInv'
<1>1. TypeOK'
  <2>1. job' \in [Job -> Message \cup {None}]
    BY JobMoves DEF IInv, ResetUsage, At
  <2>2. account' \in [Service -> Account]
    BY DEF IInv, TypeOK, ResetUsage, At, Message, Account
  <2> QED BY <2>1, <2>2, RenewalsAssumption DEF IInv, TypeOK, ResetUsage, orderVars, pastVars
<1>2. BoughtInv'
  BY RenewalsAssumption DEF IInv, BoughtInv, ResetUsage, At, MovesTo, orderVars,
     pastVars, TypeOK
<1>3. RowInv'
  BY RenewalsAssumption DEF IInv, RowInv, ResetUsage, At, MovesTo, orderVars,
     pastVars, TypeOK, Renewal, BoughtInv
<1>4. LockInv'
  BY RenewalsAssumption DEF IInv, LockInv, ResetUsage, At, MovesTo, orderVars,
     pastVars, TypeOK, Message, Locking
<1>5. FulfilInv'
  BY RenewalsAssumption DEF IInv, FulfilInv, ResetUsage, At, MovesTo, orderVars,
     pastVars, TypeOK, Message, Delivered, Locking, Renewal, BoughtInv
<1>6. ApplyInv'
  BY RenewalsAssumption DEF IInv, ApplyInv, ResetUsage, At, MovesTo, Waits,
     orderVars, pastVars, TypeOK, Message, Account, Enough, Locking, Renewal,
     LockInv, BoughtInv, RowInv
<1>7. CompletedIsDelivered'
  BY RenewalsAssumption DEF IInv, CompletedIsDelivered, ResetUsage, At, MovesTo,
     orderVars, pastVars, Delivered, FulfilInv, TypeOK, Renewal, BoughtInv, Message,
     RowInv
<1> QED BY <1>1, <1>2, <1>3, <1>4, <1>5, <1>6, <1>7 DEF IInv

LEMMA MarkAppliedStep ==
  ASSUME IInv, NEW j \in Job, MarkApplied(j)
  PROVE  IInv'
<1>1. TypeOK'
  <2>1. job' \in [Job -> Message \cup {None}]
    BY DEF IInv, TypeOK, MarkApplied, Ends
  <2>2. job[j].service \in Service /\ row[job[j].service] \in Renewal
    BY DEF IInv, TypeOK, MarkApplied, At, Message, ApplyInv, Waits
  <2>3. seen' \in [Service -> Mirror]
    BY <2>2, CopyType DEF IInv, TypeOK, MarkApplied
  <2>4. row' \in [Service -> Renewal \cup {None}]
    BY <2>2 DEF IInv, TypeOK, MarkApplied, Renewal
  <2>5. granted' \in [Order -> 0 .. MaxCount]
    BY CountedType DEF IInv, TypeOK, MarkApplied
  <2> QED BY <2>1, <2>2, <2>3, <2>4, <2>5, RenewalsAssumption DEF IInv, TypeOK, MarkApplied, orderVars, pastVars
<1>2. BoughtInv'
  BY RenewalsAssumption DEF IInv, BoughtInv, MarkApplied, At, Ends, Counted,
     orderVars, TypeOK
<1>3. RowInv'
  <2>1. job[j].service \in Service /\ row[job[j].service] \in Renewal
    BY DEF IInv, TypeOK, MarkApplied, At, Message, ApplyInv, Waits
  <2>2. /\ row'[job[j].service].order = row[job[j].service].order
        /\ \A s \in Service : s # job[j].service => row'[s] = row[s]
    BY <2>1 DEF IInv, TypeOK, MarkApplied, Renewal
  <2>3. /\ granted'[row[job[j].service].order] > 0
        /\ \A o \in Order : granted[o] > 0 => granted'[o] > 0
    BY <2>1, CountedType DEF IInv, TypeOK, MarkApplied, Renewal
  <2>4. bought' = bought /\ status' = status
    BY DEF MarkApplied, orderVars
  <2>5. ASSUME NEW s \in Service, row'[s] # None
        PROVE  /\ status'[row'[s].order] # "absent"
               /\ bought'[row'[s].order].type = "renew" /\ bought'[row'[s].order].service = s
               /\ row'[s].applied => granted'[row'[s].order] > 0
    <3>1. CASE s = job[j].service
      BY <2>1, <2>2, <2>3, <2>4, <3>1, RenewalsAssumption DEF IInv, RowInv, Renewal
    <3>2. CASE s # job[j].service
      BY <2>2, <2>3, <2>4, <2>5, <3>2 DEF IInv, TypeOK, RowInv, Renewal
    <3> QED BY <3>1, <3>2
  <2> QED BY <2>5 DEF RowInv
<1>4. LockInv'
  BY RenewalsAssumption DEF IInv, LockInv, MarkApplied, At, Ends, Counted,
     orderVars, TypeOK, Message, Locking
<1>5. FulfilInv'
  BY RenewalsAssumption DEF IInv, FulfilInv, MarkApplied, At, Ends, Counted,
     orderVars, TypeOK, Message, Delivered, Locking, Renewal, BoughtInv
<1>6. ApplyInv'
  BY RenewalsAssumption DEF IInv, ApplyInv, MarkApplied, At, Ends, Waits, Counted,
     orderVars, TypeOK, Message, Account, Enough, Locking, Renewal, LockInv,
     BoughtInv, RowInv
<1>7. CompletedIsDelivered'
  BY RenewalsAssumption DEF IInv, CompletedIsDelivered, MarkApplied, At, Ends,
     Counted, orderVars, Delivered, FulfilInv, TypeOK, Renewal, BoughtInv, Message,
     RowInv
<1> QED BY <1>1, <1>2, <1>3, <1>4, <1>5, <1>6, <1>7 DEF IInv

LEMMA ProvisionFailedStep ==
  ASSUME IInv, NEW j \in Job, ProvisionFailed(j)
  PROVE  IInv'
<1>1. TypeOK'
  <2>1. job' \in [Job -> Message \cup {None}]
    BY DEF IInv, TypeOK, ProvisionFailed, Ends
  <2>2. faults' \in 0 .. MaxFaults
    BY RenewalsAssumption DEF IInv, TypeOK, ProvisionFailed, Fails
  <2> QED BY <2>1, <2>2, RenewalsAssumption DEF IInv, TypeOK, ProvisionFailed, orderVars, pastVars
<1>2. BoughtInv'
  BY RenewalsAssumption DEF IInv, BoughtInv, ProvisionFailed, Ends, pastVars, Fails,
     TypeOK
<1>3. RowInv'
  BY RenewalsAssumption DEF IInv, RowInv, ProvisionFailed, Ends, pastVars, Fails,
     TypeOK, Renewal, BoughtInv
<1>4. LockInv'
  BY RenewalsAssumption DEF IInv, LockInv, ProvisionFailed, Ends, pastVars, Fails,
     TypeOK, Message, Locking
<1>5. FulfilInv'
  BY RenewalsAssumption DEF IInv, FulfilInv, ProvisionFailed, Ends, pastVars, Fails,
     TypeOK, Message, Delivered, Locking, Renewal, BoughtInv
<1>6. ApplyInv'
  <2>1. \A i \in Job : job'[i] # None /\ job'[i].pc \in {"put", "reset"} => job'[i] = job[i]
    BY RenewalsAssumption DEF IInv, TypeOK, ProvisionFailed, Ends, Message
  <2> QED BY <2>1, ApplyKept DEF IInv, ProvisionFailed, orderVars
<1>7. CompletedIsDelivered'
  BY RenewalsAssumption DEF IInv, CompletedIsDelivered, ProvisionFailed, Ends,
     pastVars, Fails, Delivered, FulfilInv, TypeOK, Renewal, BoughtInv, Message,
     RowInv
<1> QED BY <1>1, <1>2, <1>3, <1>4, <1>5, <1>6, <1>7 DEF IInv

LEMMA AbortStep ==
  ASSUME IInv, NEW j \in Job, Abort(j)
  PROVE  IInv'
<1>1. TypeOK'
  <2>1. job' \in [Job -> Message \cup {None}]
    BY JobMoves DEF IInv, TypeOK, Abort, Ends
  <2>2. faults' \in 0 .. MaxFaults
    BY RenewalsAssumption DEF IInv, TypeOK, Abort, Fails
  <2> QED BY <2>1, <2>2, RenewalsAssumption DEF IInv, TypeOK, Abort, orderVars, pastVars
<1>2. BoughtInv'
  BY RenewalsAssumption DEF IInv, BoughtInv, Abort, MovesTo, Ends, orderVars,
     pastVars, Fails, TypeOK
<1>3. RowInv'
  BY RenewalsAssumption DEF IInv, RowInv, Abort, MovesTo, Ends, orderVars, pastVars,
     Fails, TypeOK, Renewal, BoughtInv
<1>4. LockInv'
  BY RenewalsAssumption DEF IInv, LockInv, Abort, MovesTo, Ends, orderVars,
     pastVars, Fails, TypeOK, Message, Locking
<1>5. FulfilInv'
  BY RenewalsAssumption DEF IInv, FulfilInv, Abort, MovesTo, Ends, orderVars,
     pastVars, Fails, TypeOK, Message, Delivered, Locking, Renewal, BoughtInv
<1>6. ApplyInv'
  <2>1. \A i \in Job : job'[i] # None /\ job'[i].pc \in {"put", "reset"} => job'[i] = job[i]
    BY RenewalsAssumption DEF IInv, TypeOK, Abort, MovesTo, Ends, Message
  <2> QED BY <2>1, ApplyKept DEF IInv, Abort, orderVars
<1>7. CompletedIsDelivered'
  BY RenewalsAssumption DEF IInv, CompletedIsDelivered, Abort, MovesTo, Ends,
     orderVars, pastVars, Fails, Delivered, FulfilInv, TypeOK, Renewal, BoughtInv,
     Message, RowInv
<1> QED BY <1>1, <1>2, <1>3, <1>4, <1>5, <1>6, <1>7 DEF IInv

LEMMA SyncStep ==
  ASSUME IInv, NEW s \in Service, Sync(s)
  PROVE  IInv'
<1>1. TypeOK'
  <2>1. seen' \in [Service -> Mirror]
    BY CopyType DEF IInv, TypeOK, Sync, MirrorOf, PanelStatus
  <2> QED BY <2>1, RenewalsAssumption DEF IInv, TypeOK, Sync, orderVars, pastVars
<1>2. BoughtInv'
  BY RenewalsAssumption DEF IInv, BoughtInv, Sync, Locked, orderVars, pastVars,
     TypeOK
<1>3. RowInv'
  BY RenewalsAssumption DEF IInv, RowInv, Sync, Locked, orderVars, pastVars, TypeOK,
     Renewal, BoughtInv
<1>4. LockInv'
  BY RenewalsAssumption DEF IInv, LockInv, Sync, Locked, orderVars, pastVars,
     TypeOK, Message, Locking
<1>5. FulfilInv'
  BY RenewalsAssumption DEF IInv, FulfilInv, Sync, Locked, orderVars, pastVars,
     TypeOK, Message, Delivered, Locking, Renewal, BoughtInv
<1>6. ApplyInv'
  BY RenewalsAssumption DEF IInv, ApplyInv, Sync, Locked, Waits, orderVars,
     pastVars, TypeOK, Message, Account, Enough, Locking, Renewal, LockInv,
     BoughtInv, RowInv
<1>7. CompletedIsDelivered'
  BY RenewalsAssumption DEF IInv, CompletedIsDelivered, Sync, Locked, orderVars,
     pastVars, Delivered, FulfilInv, TypeOK, Renewal, BoughtInv, Message, RowInv
<1> QED BY <1>1, <1>2, <1>3, <1>4, <1>5, <1>6, <1>7 DEF IInv

LEMMA TrafficStep ==
  ASSUME IInv, NEW s \in Service, Traffic(s)
  PROVE  IInv'
<1>1. TypeOK'
  <2>1. account' \in [Service -> Account]
    BY DEF IInv, TypeOK, Traffic, Account
  <2> QED BY <2>1, RenewalsAssumption DEF IInv, TypeOK, Traffic, orderVars, pastVars
<1>2. BoughtInv'
  BY RenewalsAssumption DEF IInv, BoughtInv, Traffic, orderVars, pastVars,
     PanelStatus, TypeOK
<1>3. RowInv'
  BY RenewalsAssumption DEF IInv, RowInv, Traffic, orderVars, pastVars, PanelStatus,
     TypeOK, Renewal, BoughtInv
<1>4. LockInv'
  BY RenewalsAssumption DEF IInv, LockInv, Traffic, orderVars, pastVars,
     PanelStatus, TypeOK, Message, Locking
<1>5. FulfilInv'
  BY RenewalsAssumption DEF IInv, FulfilInv, Traffic, orderVars, pastVars,
     PanelStatus, TypeOK, Message, Delivered, Locking, Renewal, BoughtInv
<1>6. ApplyInv'
  BY RenewalsAssumption DEF IInv, ApplyInv, Traffic, Waits, orderVars, pastVars,
     PanelStatus, TypeOK, Message, Account, Enough, Locking, Renewal, LockInv,
     BoughtInv, RowInv
<1>7. CompletedIsDelivered'
  BY RenewalsAssumption DEF IInv, CompletedIsDelivered, Traffic, orderVars,
     pastVars, PanelStatus, Delivered, FulfilInv, TypeOK, Renewal, BoughtInv,
     Message, RowInv
<1> QED BY <1>1, <1>2, <1>3, <1>4, <1>5, <1>6, <1>7 DEF IInv

LEMMA CycleEndsStep ==
  ASSUME IInv, NEW s \in Service, CycleEnds(s)
  PROVE  IInv'
<1>1. TypeOK'
  <2>1. account' \in [Service -> Account]
    BY DEF IInv, TypeOK, CycleEnds, Account
  <2>2. seen' \in [Service -> Mirror]
    BY DEF IInv, TypeOK, CycleEnds, Mirror
  <2> QED BY <2>1, <2>2, RenewalsAssumption DEF IInv, TypeOK, CycleEnds, orderVars, pastVars
<1>2. BoughtInv'
  BY RenewalsAssumption DEF IInv, BoughtInv, CycleEnds, orderVars, pastVars, TypeOK
<1>3. RowInv'
  BY RenewalsAssumption DEF IInv, RowInv, CycleEnds, orderVars, pastVars, TypeOK,
     Renewal, BoughtInv
<1>4. LockInv'
  BY RenewalsAssumption DEF IInv, LockInv, CycleEnds, orderVars, pastVars, TypeOK,
     Message, Locking
<1>5. FulfilInv'
  BY RenewalsAssumption DEF IInv, FulfilInv, CycleEnds, orderVars, pastVars, TypeOK,
     Message, Delivered, Locking, Renewal, BoughtInv
<1>6. ApplyInv'
  BY RenewalsAssumption DEF IInv, ApplyInv, CycleEnds, Waits, orderVars, pastVars,
     TypeOK, Message, Account, Enough, Locking, Renewal, LockInv, BoughtInv, RowInv
<1>7. CompletedIsDelivered'
  BY RenewalsAssumption DEF IInv, CompletedIsDelivered, CycleEnds, orderVars,
     pastVars, Delivered, FulfilInv, TypeOK, Renewal, BoughtInv, Message, RowInv
<1> QED BY <1>1, <1>2, <1>3, <1>4, <1>5, <1>6, <1>7 DEF IInv

(* Every step keeps the invariant.                                         *)
LEMMA InvariantStep == IInv /\ [Next]_vars => IInv'
<1> SUFFICES ASSUME IInv, [Next]_vars PROVE IInv'
  OBVIOUS
<1>1. ASSUME NEW o \in Order, Pay(o) \/ RetryProvision(o) PROVE IInv'
  BY <1>1, PayStep, RetryProvisionStep
<1>2. ASSUME NEW j \in Job, NEW o \in Order, StartFulfil(j, o) PROVE IInv'
  BY <1>2, StartFulfilStep
<1>3. ASSUME NEW j \in Job, NEW s \in Service, SendApply(j, s) PROVE IInv'
  BY <1>3, SendApplyStep
<1>4. ASSUME NEW j \in Job, FulfilStep(j) PROVE IInv'
  BY <1>4, ScheduleRenewalStep, RenewalConflictStep, ReadLimitStep, NothingToAddStep, AddVolumeStep,
     MirrorVolumeStep, CompleteFulfilStep DEF FulfilStep
<1>5. ASSUME NEW j \in Job, ApplyStep(j) PROVE IInv'
  BY <1>5, SkipApplyStep, RenewOnPanelStep, ResetUsageStep, MarkAppliedStep DEF ApplyStep
<1>6. ASSUME NEW j \in Job, ProvisionFailed(j) \/ Abort(j) PROVE IInv'
  BY <1>6, ProvisionFailedStep, AbortStep
<1>7. ASSUME NEW s \in Service, Sync(s) \/ Traffic(s) \/ CycleEnds(s) PROVE IInv'
  BY <1>7, SyncStep, TrafficStep, CycleEndsStep
<1>8. ASSUME UNCHANGED vars PROVE IInv'
  BY <1>8 DEF vars, orderVars, pastVars, IInv, TypeOK, BoughtInv, RowInv, LockInv, FulfilInv, ApplyInv,
    CompletedIsDelivered, Delivered, Waits
<1> QED BY <1>1, <1>2, <1>3, <1>4, <1>5, <1>6, <1>7, <1>8 DEF Next

LEMMA InvariantInit == Init => IInv
<1> SUFFICES ASSUME Init PROVE IInv
  OBVIOUS
<1>1. account \in [Service -> Account]
  <2>1. Volume \subseteq Nat
    BY RenewalsAssumption
  <2>2. ASSUME NEW v \in Volume PROVE [limit |-> v, used |-> 0, left |-> 1] \in Account
    BY <2>1 DEF Account
  <2> QED BY <2>2 DEF Init
<1>2. seen \in [Service -> Mirror]
  BY <1>1, CopyType DEF Init, MirrorOf, PanelStatus
<1>3. TypeOK
  BY <1>1, <1>2, RenewalsAssumption DEF Init, TypeOK
<1> QED BY <1>3 DEF Init, IInv, BoughtInv, RowInv, LockInv, FulfilInv, ApplyInv, CompletedIsDelivered

(* The inductive invariant: orders, renewal rows, locks and the messages   *)
(* under way agree (fulfill_order, apply_scheduled_renewal).               *)
THEOREM RenewalsInvariant == Spec => []IInv
BY InvariantInit, InvariantStep, PTL DEF Spec

(* Orders, rows, accounts and messages stay well typed.                    *)
THEOREM RenewalsTypeOK == Spec => []TypeOK
<1>1. IInv => TypeOK
  BY DEF IInv
<1> QED BY <1>1, RenewalsInvariant, PTL

(* A completed order was delivered, or its renewal is still queued, for    *)
(* any number of competing renewals, retries and crashes                   *)
(* (schedule_renewal, fulfill_order).                                      *)
THEOREM CompletedOrdersDelivered == Spec => []CompletedIsDelivered
<1>1. IInv => CompletedIsDelivered
  BY DEF IInv
<1> QED BY <1>1, RenewalsInvariant, PTL

(* A renewal recorded as applied is on the panel with its volume: the row  *)
(* locks keep every other panel update away until the record is made       *)
(* (apply_scheduled_renewal, add_service_data_limit).                      *)
THEOREM AppliedRenewalsOnPanel == Spec => AppliedIsOnPanel
<1> DEFINE Applies == \A s \in Service : Waits(s) /\ row'[s].applied =>
                        Enough(bought[row[s].order], account[s].limit)
<1>1. ASSUME IInv, Next PROVE Applies
  <2> SUFFICES ASSUME NEW s \in Service, Waits(s), row'[s].applied
               PROVE  Enough(bought[row[s].order], account[s].limit)
    OBVIOUS
  <2>1. ASSUME row' = row PROVE FALSE
    BY <2>1 DEF Waits
  <2>2. CASE \E j \in Job : ScheduleRenewal(j)
    <3>1. PICK j \in Job : ScheduleRenewal(j)
      BY <2>2
    <3>2. row'[s] = row[s] \/ row'[s] = [order |-> job[j].order, applied |-> FALSE]
      BY <1>1, <3>1 DEF IInv, TypeOK, ScheduleRenewal
    <3>3. CASE row'[s] = row[s]
      BY <3>3 DEF Waits
    <3> QED BY <3>2, <3>3
  <2>3. CASE \E j \in Job : MarkApplied(j)
    <3>1. PICK j \in Job : MarkApplied(j)
      BY <2>3
    <3>2. CASE s = job[j].service
      BY <1>1, <3>1, <3>2 DEF IInv, ApplyInv, MarkApplied, At
    <3>3. CASE s # job[j].service
      <4>1. row'[s] = row[s]
        BY <1>1, <3>1, <3>3 DEF IInv, TypeOK, MarkApplied
      <4> QED BY <4>1 DEF Waits
    <3> QED BY <3>2, <3>3
  <2>4. CASE ~(\E j \in Job : ScheduleRenewal(j) \/ MarkApplied(j))
    <3>1. row' = row
      BY <1>1, <2>4 DEF Next, FulfilStep, ApplyStep, Pay, RetryProvision, StartFulfil, SendApply, RenewalConflict,
        ReadLimit, NothingToAdd, AddVolume, MirrorVolume, CompleteFulfil, SkipApply, RenewOnPanel, ResetUsage,
        ProvisionFailed, Abort, Sync, Traffic, CycleEnds
    <3> QED BY <2>1, <3>1
  <2> QED BY <2>2, <2>3, <2>4
<1>2. ASSUME IInv, UNCHANGED vars PROVE Applies
  BY <1>2 DEF vars, Waits
<1>3. IInv /\ [Next]_vars => [Applies]_vars
  BY <1>1, <1>2
<1> QED BY <1>3, RenewalsInvariant, PTL DEF Spec, AppliedIsOnPanel
=============================================================================
