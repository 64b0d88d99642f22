------------------------------ MODULE Renewals ------------------------------
(***************************************************************************)
(* What happens to a service that already exists once its customer has     *)
(* paid for a renewal or for more volume.  A renewal is only queued (one   *)
(* ScheduledRenewal row per service) and is put on the PasarGuard panel    *)
(* when the cycle has ended; volume is added at once.  Our row of the      *)
(* service is a copy of the panel account (seen) that the sync refreshes   *)
(* and that the payloads are computed from.                                *)
(*                                                                         *)
(* Each Celery message is a job.  A panel call and the steps around it are *)
(* separate actions; the row locks are held from the first call to the     *)
(* commit, and a job cut off on the way rolls our rows back while the      *)
(* panel keeps what it was told.                                           *)
(***************************************************************************)
EXTENDS Naturals

CONSTANTS
  Service,    \* services with an account on the panel
  Order,      \* paid renewals and volume add-ons
  Plan,       \* what an order can buy, with the service it is for
  Volume,     \* data limits the accounts start with; 0 is unlimited
  Job,        \* Celery messages at one time
  MaxFaults,  \* bound on the calls and tasks that fail
  MaxCount,   \* bound of the history counters
  None        \* not ordered yet, no renewal row, no message

Mode == {"reset", "both", "volume_only", "time_only"}

(* left: paid cycles until expire_at.                                      *)
Account == [limit : Nat, used : Nat, left : Nat]
Mirror  == [limit : Nat, used : Nat, left : Nat, status : {"active", "limited", "expired"}]

(* ScheduledRenewal; its plan, mode and volume are those of its order.     *)
Renewal == [order : Order, applied : BOOLEAN]

(* "fulfilling" is a fulfill_order that has read its order, "due" an       *)
(* apply_scheduled_renewal waiting in the queue or for its lock; from      *)
(* "read" or "put" on the job holds the lock of its service.               *)
Locking == {"read", "added", "put", "reset"}
Message == [pc : {"fulfilling", "done", "due"} \cup Locking,
            order : Order \cup {None}, service : Service, base : Nat]

ASSUME RenewalsAssumption ==
  /\ Volume \subseteq Nat /\ Volume # {} /\ MaxFaults \in Nat /\ MaxCount \in Nat \ {0}
  /\ Plan \subseteq [type : {"renew", "addon_volume"}, service : Service, volume : Nat, mode : Mode]
  /\ None \notin Plan /\ None \notin Order /\ None \notin Renewal /\ None \notin Message

VARIABLES
  bought,   \* Order.plan: what this order paid for
  status,   \* Order.status
  refused,  \* Order.provision_failed_at is set
  row,      \* ScheduledRenewal of the service: the order, and whether applied_at is set
  seen,     \* our Service row: what the last read of the panel said
  account,  \* the panel
  job,      \* Celery messages
  faults,   \* failures so far
  puts,     \* history: panel updates made for this order
  granted   \* history: times it was recorded as delivered

orderVars == <<bought, status, refused>>
pastVars  == <<puts, granted>>
vars      == <<orderVars, row, seen, account, job, faults, pastVars>>

TypeOK ==
  /\ bought \in [Order -> Plan \cup {None}]
  /\ status \in [Order -> {"absent", "paid", "completed", "failed"}]
  /\ refused \in [Order -> BOOLEAN]
  /\ row \in [Service -> Renewal \cup {None}]
  /\ seen \in [Service -> Mirror]
  /\ account \in [Service -> Account]
  /\ job \in [Job -> Message \cup {None}]
  /\ faults \in 0 .. MaxFaults
  /\ puts \in [Order -> 0 .. MaxCount]
  /\ granted \in [Order -> 0 .. MaxCount]
-----------------------------------------------------------------------------
(* The status the panel gives an account.                                  *)
PanelStatus(a) ==
  CASE a.left = 0 -> "expired"
    [] a.left # 0 /\ a.limit # 0 /\ a.used >= a.limit -> "limited"
    [] OTHER -> "active"

(* apply_user_to_service *)
Copy(a, st) == [limit |-> a.limit, used |-> a.used, left |-> a.left, status |-> st]
MirrorOf(a) == Copy(a, PanelStatus(a))

Init ==
  /\ bought = [o \in Order |-> None]
  /\ status = [o \in Order |-> "absent"]
  /\ refused = [o \in Order |-> FALSE]
  /\ row = [s \in Service |-> None]
  /\ account \in [Service -> {[limit |-> v, used |-> 0, left |-> 1] : v \in Volume}]
  /\ seen = [s \in Service |-> MirrorOf(account[s])]
  /\ job = [j \in Job |-> None]
  /\ faults = 0
  /\ puts = [o \in Order |-> 0]
  /\ granted = [o \in Order |-> 0]

At(j, pc) == job[j] # None /\ job[j].pc = pc
MovesTo(j, pc) == job' = [job EXCEPT ![j].pc = pc]
Ends(j) == job' = [job EXCEPT ![j] = None]

(* apply_scheduled_renewal has locked the ScheduledRenewal row of s, and    *)
(* whoever is at a panel call of s has locked our Service row.             *)
Applying(s) == \E j \in Job : job[j] # None /\ job[j].service = s /\ job[j].pc \in {"put", "reset"}

(* Mutant: adding volume does not lock the service.                        *)
Locked_byApply(s) == Applying(s)

Locked(s) == \E j \in Job : job[j] # None /\ job[j].service = s /\ job[j].pc \in Locking

(* A paid renewal of s is queued.                                          *)
Waits(s) == row[s] # None /\ ~row[s].applied

(* schedule_renewal: another order's renewal is queued.                    *)
RenewalTaken(s, o) == Waits(s) /\ row[s].order # o
Fails == faults < MaxFaults /\ faults' = faults + 1
Counted(n) == IF n = MaxCount THEN n ELSE n + 1
-----------------------------------------------------------------------------
(* The order's payment is approved (mark_paid_and_fulfill).                *)
Pay(o) ==
  /\ status[o] = "absent"
  /\ \E p \in Plan : bought' = [bought EXCEPT ![o] = p]
  /\ status' = [status EXCEPT ![o] = "paid"]
  /\ UNCHANGED <<refused, row, seen, account, job, faults, pastVars>>

(* A message of the approval or of the beat (retry_unfulfilled_orders) is  *)
(* taken up: fulfill_order reads the order, once, without a lock.          *)
StartFulfil(j, o) ==
  /\ job[j] = None
  /\ status[o] = "paid" /\ ~refused[o]
  /\ job' = [job EXCEPT ![j] =
       [pc |-> "fulfilling", order |-> o, service |-> bought[o].service, base |-> 0]]
  /\ UNCHANGED <<orderVars, row, seen, account, faults, pastVars>>

(* Mutant: a waiting renewal is replaced.                                  *)
ScheduleRenewal_replaces(j) ==
  /\ At(j, "fulfilling") /\ bought[job[j].order].type = "renew"
  /\ ~Applying(job[j].service)
  /\ row' = [row EXCEPT ![job[j].service] = [order |-> job[j].order, applied |-> FALSE]]
  /\ MovesTo(j, "done")
  /\ UNCHANGED <<orderVars, seen, account, faults, pastVars>>

(* schedule_renewal, which waits for whoever applies the row: the row is   *)
(* made or used again, also for the order it was already made for.         *)
ScheduleRenewal(j) ==
  /\ At(j, "fulfilling") /\ bought[job[j].order].type = "renew"
  /\ ~Applying(job[j].service)
  /\ ~RenewalTaken(job[j].service, job[j].order)
  /\ row' = [row EXCEPT ![job[j].service] = [order |-> job[j].order, applied |-> FALSE]]
  /\ MovesTo(j, "done")
  /\ UNCHANGED <<orderVars, seen, account, faults, pastVars>>

(* _renewal_conflict, from the copy of the order the task read.            *)
RenewalConflict(j) ==
  /\ At(j, "fulfilling") /\ bought[job[j].order].type = "renew"
  /\ ~Applying(job[j].service)
  /\ RenewalTaken(job[j].service, job[j].order)
  /\ status' = [status EXCEPT ![job[j].order] = "failed"]
  /\ Ends(j)
  /\ UNCHANGED <<bought, refused, row, seen, account, faults, pastVars>>

(* add_service_data_limit: the limit is read from the panel ...            *)
ReadLimit(j) ==
  /\ At(j, "fulfilling") /\ bought[job[j].order].type = "addon_volume"
  /\ ~Locked(job[j].service)
  /\ account[job[j].service].limit # 0
  /\ job' = [job EXCEPT ![j].pc = "read", ![j].base = account[job[j].service].limit]
  /\ UNCHANGED <<orderVars, row, seen, account, faults, pastVars>>

(* (unlimited already: there is nothing to add)                            *)
NothingToAdd(j) ==
  /\ At(j, "fulfilling") /\ bought[job[j].order].type = "addon_volume"
  /\ ~Locked(job[j].service)
  /\ account[job[j].service].limit = 0
  /\ MovesTo(j, "done")
  /\ granted' = [granted EXCEPT ![job[j].order] = Counted(@)]
  /\ UNCHANGED <<orderVars, row, seen, account, faults, puts>>

(* ... the sum is written to the panel ...                                 *)
AddVolume(j) ==
  /\ At(j, "read")
  /\ account' = [account EXCEPT ![job[j].service].limit =
                   job[j].base + bought[job[j].order].volume]
  /\ puts' = [puts EXCEPT ![job[j].order] = Counted(@)]
  /\ MovesTo(j, "added")
  /\ UNCHANGED <<orderVars, row, seen, faults, granted>>

(* ... and the account read back.                                          *)
MirrorVolume(j) ==
  /\ At(j, "added")
  /\ seen' = [seen EXCEPT ![job[j].service] = MirrorOf(account[job[j].service])]
  /\ granted' = [granted EXCEPT ![job[j].order] = Counted(@)]
  /\ MovesTo(j, "done")
  /\ UNCHANGED <<orderVars, row, account, faults, puts>>

(* _provision_failed: the panel answered an add-on with an error.          *)
ProvisionFailed(j) ==
  /\ Fails
  /\ job[j] # None /\ job[j].pc \in {"fulfilling", "read", "added"}
  /\ bought[job[j].order].type = "addon_volume"
  /\ refused' = [refused EXCEPT ![job[j].order] = TRUE]
  /\ Ends(j)
  /\ UNCHANGED <<bought, status, row, seen, account, pastVars>>

(* retry_provision: staff clear the failure.                               *)
RetryProvision(o) ==
  /\ status[o] = "paid" /\ refused[o]
  /\ refused' = [refused EXCEPT ![o] = FALSE]
  /\ UNCHANGED <<bought, status, row, seen, account, job, faults, pastVars>>

(* The rest of fulfill_order; its order is saved whatever it is by now.    *)
CompleteFulfil(j) ==
  /\ At(j, "done")
  /\ status' = [status EXCEPT ![job[j].order] = "completed"]
  /\ refused' = [refused EXCEPT ![job[j].order] = FALSE]
  /\ Ends(j)
  /\ UNCHANGED <<bought, row, seen, account, faults, pastVars>>
-----------------------------------------------------------------------------
(* Mutant: only services that ran out of time.                             *)
Due_expiredOnly(s) == Waits(s) /\ seen[s].status = "expired"

(* apply_due_scheduled_renewals goes by our copy of the service.           *)
Due(s) == Waits(s) /\ seen[s].status \in {"expired", "limited"}

SendApply(j, s) ==
  /\ job[j] = None
  /\ Due(s)
  /\ job' = [job EXCEPT ![j] = [pc |-> "due", order |-> None, service |-> s, base |-> 0]]
  /\ UNCHANGED <<orderVars, row, seen, account, faults, pastVars>>

(* apply_scheduled_renewal locks the row (and the service): already        *)
(* applied, or ...                                                         *)
SkipApply(j) ==
  /\ At(j, "due")
  /\ ~Locked(job[j].service) /\ ~Waits(job[j].service)
  /\ Ends(j)
  /\ UNCHANGED <<orderVars, row, seen, account, faults, pastVars>>

(* What was left of the cycle, according to our copy.                      *)
Unused(s) == IF seen[s].limit > seen[s].used THEN seen[s].limit - seen[s].used ELSE 0

(* build_renew_payload and _apply_carry_over_renewal: a plan without a     *)
(* limit of its own keeps the service's limit in mode reset.               *)
RenewedLimit(p) ==
  IF p.mode = "reset" THEN IF p.volume # 0 THEN p.volume ELSE seen[p.service].limit
  ELSE IF p.volume # 0 /\ p.mode \in {"both", "volume_only"} THEN p.volume + Unused(p.service)
  ELSE p.volume

(* Mode reset extends from expire_at, if that is still to come.            *)
RenewedLeft(p) == IF p.mode = "volume_only" THEN 1 ELSE seen[p.service].left + 1

(* ... the new limit and expiry go to the panel, ...                       *)
RenewOnPanel(j) ==
  LET s == job[j].service
      o == row[s].order
  IN /\ At(j, "due")
     /\ ~Locked(s) /\ Waits(s)
     /\ account' = [account EXCEPT ![s].limit = RenewedLimit(bought[o]),
                                   ![s].left = RenewedLeft(bought[o])]
     /\ puts' = [puts EXCEPT ![o] = Counted(@)]
     /\ job' = [job EXCEPT ![j].pc = "put", ![j].order = o]
     /\ UNCHANGED <<orderVars, row, seen, faults, granted>>

(* ... the usage is reset, ...                                             *)
ResetUsage(j) ==
  /\ At(j, "put")
  /\ account' = [account EXCEPT ![job[j].service].used = 0]
  /\ MovesTo(j, "reset")
  /\ UNCHANGED <<orderVars, row, seen, faults, pastVars>>

(* ... and the account read back: our service is active, the row applied.  *)
MarkApplied(j) ==
  LET s == job[j].service
  IN /\ At(j, "reset")
     /\ seen' = [seen EXCEPT ![s] = Copy(account[s], "active")]
     /\ row' = [row EXCEPT ![s].applied = TRUE]
     /\ granted' = [granted EXCEPT ![row[s].order] = Counted(@)]
     /\ Ends(j)
     /\ UNCHANGED <<orderVars, account, faults, puts>>

(* A call fails or its answer is lost, or the worker dies: our rows roll   *)
(* back, and the message is given up or tried again, where fulfill_order   *)
(* skips a completed order only.                                           *)
Abort(j) ==
  /\ Fails
  /\ job[j] # None
  /\ \/ Ends(j)
     \/ /\ job[j].pc \in {"due", "put", "reset"}
        /\ MovesTo(j, "due")
     \/ /\ job[j].pc \notin {"due", "put", "reset"} /\ status[job[j].order] # "completed"
        /\ MovesTo(j, "fulfilling")
  /\ UNCHANGED <<orderVars, row, seen, account, pastVars>>
-----------------------------------------------------------------------------
(* sync_service_detail, of the beat or on demand.                          *)
Sync(s) ==
  /\ ~Locked(s)
  /\ seen' = [seen EXCEPT ![s] = MirrorOf(account[s])]
  /\ UNCHANGED <<orderVars, row, account, job, faults, pastVars>>

(* The customer uses up the volume.                                        *)
Traffic(s) ==
  /\ PanelStatus(account[s]) = "active" /\ account[s].limit # 0
  /\ account' = [account EXCEPT ![s].used = account[s].limit]
  /\ UNCHANGED <<orderVars, row, seen, job, faults, pastVars>>

(* An expiry that has passed counts as now (build_renew_payload).          *)
CycleEnds(s) ==
  /\ account[s].left > 0
  /\ account' = [account EXCEPT ![s].left = @ - 1]
  /\ seen' = [seen EXCEPT ![s].left = IF @ > 0 THEN @ - 1 ELSE 0]
  /\ UNCHANGED <<orderVars, row, job, faults, pastVars>>
-----------------------------------------------------------------------------
FulfilStep(j) ==
  \/ ScheduleRenewal(j) \/ RenewalConflict(j)
  \/ ReadLimit(j) \/ NothingToAdd(j) \/ AddVolume(j) \/ MirrorVolume(j)
  \/ CompleteFulfil(j)

ApplyStep(j) == SkipApply(j) \/ RenewOnPanel(j) \/ ResetUsage(j) \/ MarkApplied(j)

Next ==
  \/ \E o \in Order : Pay(o) \/ RetryProvision(o)
  \/ \E j \in Job : \/ \E o \in Order : StartFulfil(j, o)
                    \/ \E s \in Service : SendApply(j, s)
                    \/ FulfilStep(j) \/ ApplyStep(j)
                    \/ ProvisionFailed(j) \/ Abort(j)
  \/ \E s \in Service : Sync(s) \/ Traffic(s) \/ CycleEnds(s)

Spec == Init /\ [][Next]_vars

(* The beat sends its messages and syncs, and workers take them up.        *)
Fairness ==
  /\ \A o \in Order : WF_vars(\E j \in Job : StartFulfil(j, o))
  /\ \A s \in Service : WF_vars(\E j \in Job : SendApply(j, s)) /\ WF_vars(Sync(s))
  /\ \A j \in Job : WF_vars(FulfilStep(j)) /\ WF_vars(ApplyStep(j))

FairSpec == Spec /\ Fairness
-----------------------------------------------------------------------------
Ended(s) == PanelStatus(account[s]) # "active"

(* The order's renewal or volume is recorded as delivered, or its renewal  *)
(* is still queued.                                                        *)
Delivered(o) ==
  \/ granted[o] > 0
  \/ /\ bought[o].type = "renew"
     /\ row[bought[o].service] = [order |-> o, applied |-> FALSE]

(* A completed order got what it paid for: no second renewal, no second    *)
(* message and no failed attempt makes one drop out of the queue unseen    *)
(* (schedule_renewal: "never replace it").                                 *)
CompletedIsDelivered == \A o \in Order : status[o] = "completed" => Delivered(o)

(* What a renewal puts on the panel is enough for p.                       *)
Enough(p, limit) ==
  IF p.volume # 0 THEN limit >= p.volume ELSE p.mode # "reset" => limit = 0

(* When a renewal is recorded as applied the panel has at least the volume *)
(* it bought, also if volume was added at the same time                    *)
(* (apply_scheduled_renewal, add_service_data_limit).  A plan without      *)
(* limit gives none in mode reset (build_renew_payload).                   *)
AppliedIsOnPanel ==
  [][\A s \in Service : Waits(s) /\ row'[s].applied =>
       Enough(bought[row[s].order], account[s].limit)]_vars

(* A queued renewal does not leave its customer without a service: once    *)
(* the account has ended, in time or in volume, it is renewed              *)
(* (sync_all_services, apply_due_scheduled_renewals).                      *)
EndedIsRenewed == \A s \in Service : Waits(s) /\ Ended(s) ~> ~Waits(s) \/ ~Ended(s)

(* An order is delivered once: its volume is added once, its renewal       *)
(* applied once, however often its messages are delivered or retried.      *)
DeliveredOnce ==
  \A o \in Order : /\ granted[o] <= 1
                   /\ bought[o] # None /\ bought[o].type = "addon_volume" => puts[o] <= 1
-----------------------------------------------------------------------------
(* What the proofs add to the properties above.                            *)

(* An order that was paid has bought something.                            *)
BoughtInv == \A o \in Order : status[o] # "absent" => bought[o] # None

(* A renewal row is of a paid renewal of its service, and applied only     *)
(* when that is recorded.                                                  *)
RowInv ==
  \A s \in Service : row[s] # None =>
    /\ status[row[s].order] # "absent"
    /\ bought[row[s].order].type = "renew" /\ bought[row[s].order].service = s
    /\ row[s].applied => granted[row[s].order] > 0

(* A service is locked by one job at a time.                               *)
LockInv ==
  \A i, j \in Job :
    /\ job[i] # None /\ job[j] # None /\ job[i].service = job[j].service
    /\ job[i].pc \in Locking /\ job[j].pc \in Locking
    => i = j

(* What a job knows: its order, that its service's renewal still waits     *)
(* while it is being applied, and what it has put on the panel.            *)
FulfilInv ==
  \A j \in Job : job[j] # None /\ job[j].pc \in {"fulfilling", "read", "added", "done"} =>
    /\ job[j].order \in Order /\ status[job[j].order] # "absent"
    /\ job[j].service = bought[job[j].order].service
    /\ job[j].pc \in {"read", "added"} => bought[job[j].order].type = "addon_volume"
    /\ job[j].pc = "done" => Delivered(job[j].order)

ApplyInv ==
  \A j \in Job : job[j] # None /\ job[j].pc \in {"put", "reset"} =>
    /\ Waits(job[j].service)
    /\ Enough(bought[row[job[j].service].order], account[job[j].service].limit)

IInv == TypeOK /\ BoughtInv /\ RowInv /\ LockInv /\ FulfilInv /\ ApplyInv /\ CompletedIsDelivered
=============================================================================
