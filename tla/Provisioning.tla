---------------------------- MODULE Provisioning ----------------------------
(***************************************************************************)
(* How the order of a NEW service, once paid, becomes an account on the    *)
(* PasarGuard panel: the service row, the account of that name, and the    *)
(* fulfil_order task between them.  Panel accounts are known by NAME only; *)
(* the note caspintunel#<id> says whose they are.                          *)
(*                                                                         *)
(* The task reads its order once, without a lock, and keeps working from   *)
(* that copy (task[w]); provision_service locks the service row across its *)
(* panel calls, so each of its outcomes is one action.  The panel may be   *)
(* down, may lose a reply after doing the work, may refuse an account, and *)
(* other panel admins make accounts of their own.                          *)
(***************************************************************************)

CONSTANTS
  Order,        \* orders of new services
  User,         \* customers
  Name,         \* account names, on one panel
  Row,          \* ids of service rows (an id is reused only once nothing knows it)
  Worker,       \* Celery worker slots
  Foreign,      \* an account some other panel admin made
  None,         \* no row, no account, no name, an idle worker
  OnDemand,     \* a service is also synced when its customer or staff ask for it
  StaffRename,  \* staff may type another account name when they retry
  VoidActions   \* what staff may do with the service of a payment they delete

(* st: "linked" once the row has the account's subscription link; before   *)
(* that, the row is "pending" or was found missing and "disabled".         *)
Service == [name : Name, user : User, st : {"pending", "disabled", "linked"}]
Phase == {"unlinked", "found", "linked", "done", "taken", "refused"}
Task == [pc : Phase, order : Order, name : Name, svc : Row \cup {None}, blank : BOOLEAN]

ASSUME ProvisioningAssumption ==
  /\ None \notin Row \cup Name \cup User \cup Order \cup {Foreign}
  /\ None \notin Service /\ None \notin Task
  /\ Foreign \notin Row
  /\ OnDemand \in BOOLEAN /\ StaffRename \in BOOLEAN
  /\ VoidActions \subseteq {"disable", "delete"}

VARIABLES
  status,     \* Order.status; "absent" before the row exists
  buyer,      \* Order.user
  name,       \* Order.requested_account_name
  svc,        \* Order.service
  needsName,  \* Order.needs_new_name
  refused,    \* Order.provision_failed_at is set
  row,        \* the service table
  account,    \* the panel: who has the account of this name
  up,         \* the panel can be reached
  sent,       \* orders with a fulfill_order message not acknowledged yet
  task,       \* what each running fulfill_order knows
  typed       \* the new name a customer's request has checked for an order

orderVars == <<status, buyer, name, svc, needsName, refused>>
panelVars == <<account, up>>
taskVars  == <<sent, task, typed>>
vars      == <<orderVars, row, panelVars, taskVars>>

TypeOK ==
  /\ status \in [Order -> {"absent", "pending_payment", "paid", "completed", "cancelled"}]
  /\ buyer \in [Order -> User \cup {None}]
  /\ name \in [Order -> Name \cup {None}]
  /\ svc \in [Order -> Row \cup {None}]
  /\ needsName \in [Order -> BOOLEAN]
  /\ refused \in [Order -> BOOLEAN]
  /\ row \in [Row -> Service \cup {None}]
  /\ account \in [Name -> Row \cup {Foreign, None}]
  /\ up \in BOOLEAN
  /\ sent \subseteq Order
  /\ task \in [Worker -> Task \cup {None}]
  /\ typed \in [Order -> Name \cup {None}]

Init ==
  /\ status = [o \in Order |-> "absent"]
  /\ buyer = [o \in Order |-> None]
  /\ name = [o \in Order |-> None]
  /\ svc = [o \in Order |-> None]
  /\ needsName = [o \in Order |-> FALSE]
  /\ refused = [o \in Order |-> FALSE]
  /\ row = [i \in Row |-> None]
  /\ account = [n \in Name |-> None]
  /\ up = TRUE
  /\ sent = {}
  /\ task = [w \in Worker |-> None]
  /\ typed = [o \in Order |-> None]
-----------------------------------------------------------------------------
(* Definitions with a suffix are mutants: a plausible slip in the code of   *)
(* the definition they are named after.                                    *)

(* The rows of this account name. *)
Named(n) == {i \in Row : row[i] # None /\ row[i].name = n}

Linked(i) == row[i] # None /\ row[i].st = "linked"
Pending(i) == row[i] # None /\ row[i].st = "pending"

(* check_account_name: our rows, then the panel; a panel that cannot be    *)
(* asked does not block the sale.                                          *)
NameFree(n) == Named(n) = {} /\ (up => account[n] = None)

(* An id no row, panel note or running task knows. *)
FreshRow == {i \in Row : /\ row[i] = None
                         /\ \A n \in Name : account[n] # i
                         /\ \A w \in Worker : task[w] = None \/ task[w].svc # i}

Working(w, pc) == task[w] # None /\ task[w].pc = pc
MovesOn(w, pc) == task' = [task EXCEPT ![w].pc = pc]
Ends(w) == task' = [task EXCEPT ![w] = None]
Acknowledges(w) == Ends(w) /\ sent' = sent \ {task[w].order}
-----------------------------------------------------------------------------
(* create_order: the name is free when the invoice is made, not reserved.  *)
PlaceOrder(o, u, n) ==
  /\ status[o] = "absent"
  /\ NameFree(n)
  /\ status' = [status EXCEPT ![o] = "pending_payment"]
  /\ buyer' = [buyer EXCEPT ![o] = u]
  /\ name' = [name EXCEPT ![o] = n]
  /\ UNCHANGED <<svc, needsName, refused, row, panelVars, taskVars>>

(* mark_paid_and_fulfill *)
Pay(o) ==
  /\ status[o] = "pending_payment"
  /\ status' = [status EXCEPT ![o] = "paid"]
  /\ sent' = sent \cup {o}
  /\ UNCHANGED <<buyer, name, svc, needsName, refused, row, panelVars, task, typed>>

(* Another panel admin makes an account. *)
ForeignTakes(n) ==
  /\ account[n] = None
  /\ account' = [account EXCEPT ![n] = Foreign]
  /\ UNCHANGED <<orderVars, row, up, taskVars>>

PanelGoesDown == up /\ up' = FALSE /\ UNCHANGED <<orderVars, row, account, taskVars>>
PanelComesUp == ~up /\ up' = TRUE /\ UNCHANGED <<orderVars, row, account, taskVars>>
-----------------------------------------------------------------------------
RetryUnfulfilled_neverStarted(o) ==
  /\ status[o] = "paid" /\ ~needsName[o] /\ ~refused[o]
  /\ o \notin sent /\ svc[o] = None
  /\ sent' = sent \cup {o}
  /\ UNCHANGED <<orderVars, row, panelVars, task, typed>>

(* retry_unfulfilled_orders (beat): held orders are left to people.        *)
RetryUnfulfilled(o) ==
  /\ status[o] = "paid" /\ ~needsName[o] /\ ~refused[o]
  /\ o \notin sent
  /\ sent' = sent \cup {o}
  /\ UNCHANGED <<orderVars, row, panelVars, task, typed>>

(* fulfill_order reads the order and, through it, its service row.         *)
StartFulfil(w, o) ==
  /\ task[w] = None
  /\ o \in sent
  /\ status[o] \notin {"completed", "cancelled"}
  /\ task' = [task EXCEPT ![w] =
                [pc |-> IF svc[o] = None THEN "unlinked" ELSE "linked",
                 order |-> o, name |-> name[o], svc |-> svc[o],
                 blank |-> svc[o] # None /\ Pending(svc[o])]]
  /\ UNCHANGED <<orderVars, row, panelVars, sent, typed>>

SkipFulfil(o) ==
  /\ o \in sent
  /\ status[o] \in {"completed", "cancelled"}
  /\ sent' = sent \ {o}
  /\ UNCHANGED <<orderVars, row, panelVars, task, typed>>

FindRow_anyUser(w) ==
  /\ Working(w, "unlinked")
  /\ \E i \in Named(task[w].name) :
       task' = [task EXCEPT ![w].pc = "found", ![w].svc = i, ![w].blank = Pending(i)]
  /\ UNCHANGED <<orderVars, row, panelVars, sent, typed>>

(* _ensure_service finds a row of that name: the customer's own (an        *)
(* earlier attempt that died) is taken, anyone else's refuses the order.   *)
FindRow(w) ==
  /\ Working(w, "unlinked")
  /\ \E i \in Named(task[w].name) :
       IF row[i].user = buyer[task[w].order]
       THEN task' = [task EXCEPT ![w].pc = "found", ![w].svc = i, ![w].blank = Pending(i)]
       ELSE MovesOn(w, "refused")
  /\ UNCHANGED <<orderVars, row, panelVars, sent, typed>>

(* ... or makes one.                                                       *)
MakeRow(w) ==
  /\ Working(w, "unlinked")
  /\ Named(task[w].name) = {}
  /\ \E i \in FreshRow :
       /\ row' = [row EXCEPT ![i] = [name |-> task[w].name, user |-> buyer[task[w].order],
                                     st |-> "pending"]]
       /\ task' = [task EXCEPT ![w].pc = "found", ![w].svc = i, ![w].blank = TRUE]
  /\ UNCHANGED <<orderVars, panelVars, sent, typed>>

(* order.service is saved; the foreign key needs the row to be there.      *)
LinkRow(w) ==
  /\ Working(w, "found")
  /\ row[task[w].svc] # None
  /\ svc' = [svc EXCEPT ![task[w].order] = task[w].svc]
  /\ MovesOn(w, "linked")
  /\ UNCHANGED <<status, buyer, name, needsName, refused, row, panelVars, sent, typed>>
-----------------------------------------------------------------------------
(* apply_user_to_service: the row mirrors the panel's account.             *)
Mirrors(i) == row' = [row EXCEPT ![i].st = "linked"]

(* provision_service is about to ask the panel about row i.                *)
Provisioning(w, i) ==
  /\ Working(w, "linked") /\ task[w].svc = i
  /\ row[i] # None
  /\ up

(* Already provisioned: only mirrored again.                               *)
Resync(w) ==
  \E i \in Row :
    /\ Provisioning(w, i) /\ Linked(i)
    /\ MovesOn(w, "done")
    /\ UNCHANGED <<orderVars, row, panelVars, sent, typed>>

(* POST /api/user makes the account.                                       *)
CreateAccount(w) ==
  \E i \in Row :
    /\ Provisioning(w, i) /\ ~Linked(i)
    /\ account[row[i].name] = None
    /\ account' = [account EXCEPT ![row[i].name] = i]
    /\ Mirrors(i)
    /\ MovesOn(w, "done")
    /\ UNCHANGED <<orderVars, up, sent, typed>>

(* The panel made the account but its answer is lost: the transaction      *)
(* rolls back and the task is retried, or gave up.                         *)
ReplyLost(w) ==
  \E i \in Row :
    /\ Provisioning(w, i) /\ ~Linked(i)
    /\ account[row[i].name] = None
    /\ account' = [account EXCEPT ![row[i].name] = i]
    /\ Ends(w)
    /\ sent' \in {sent, sent \ {task[w].order}}
    /\ UNCHANGED <<orderVars, row, up, typed>>

Adopt_anyNote(w) ==
  \E i \in Row :
    /\ Provisioning(w, i) /\ ~Linked(i)
    /\ account[row[i].name] # None
    /\ Mirrors(i)
    /\ MovesOn(w, "done")
    /\ UNCHANGED <<orderVars, panelVars, sent, typed>>

(* 409, and the account has our note: an earlier attempt made it.          *)
Adopt(w) ==
  \E i \in Row :
    /\ Provisioning(w, i) /\ ~Linked(i)
    /\ account[row[i].name] = i
    /\ Mirrors(i)
    /\ MovesOn(w, "done")
    /\ UNCHANGED <<orderVars, panelVars, sent, typed>>

NameTaken_anyConflict(w) ==
  \E i \in Row :
    /\ Provisioning(w, i) /\ ~Linked(i)
    /\ account[row[i].name] # None
    /\ MovesOn(w, "taken")
    /\ UNCHANGED <<orderVars, row, panelVars, sent, typed>>

(* 409, and the account is someone else's: PanelNameTaken.                 *)
NameTaken(w) ==
  \E i \in Row :
    /\ Provisioning(w, i) /\ ~Linked(i)
    /\ account[row[i].name] \notin {None, i}
    /\ MovesOn(w, "taken")
    /\ UNCHANGED <<orderVars, row, panelVars, sent, typed>>

(* Any other refusal (422, credentials): PanelError.                       *)
PanelRefuses(w) ==
  \E i \in Row :
    /\ Provisioning(w, i)
    /\ MovesOn(w, "refused")
    /\ UNCHANGED <<orderVars, row, panelVars, sent, typed>>

(* _ask_for_new_name writes to the order as the task read it, and drops    *)
(* the row it had then if it was never provisioned and is no other order's.*)
AskForNewName(w) ==
  LET o == task[w].order
      i == task[w].svc
      drops == task[w].blank /\ \A p \in Order \ {o} : svc[p] # i
  IN
  /\ Working(w, "taken")
  /\ svc' = [svc EXCEPT ![o] = None]
  /\ row' = IF drops THEN [row EXCEPT ![i] = None] ELSE row
  /\ needsName' = [needsName EXCEPT ![o] = TRUE]
  /\ Acknowledges(w)
  /\ UNCHANGED <<status, buyer, name, refused, panelVars, typed>>

(* _provision_failed                                                       *)
ProvisionFailed(w) ==
  /\ Working(w, "refused")
  /\ refused' = [refused EXCEPT ![task[w].order] = TRUE]
  /\ Acknowledges(w)
  /\ UNCHANGED <<status, buyer, name, svc, needsName, row, panelVars, typed>>

(* The order is read again and completed, whatever its status is by now.   *)
Complete(w) ==
  /\ Working(w, "done")
  /\ status' = [status EXCEPT ![task[w].order] = "completed"]
  /\ refused' = [refused EXCEPT ![task[w].order] = FALSE]
  /\ Acknowledges(w)
  /\ UNCHANGED <<buyer, name, svc, needsName, row, panelVars, typed>>

(* The panel is down, the row is gone, or the worker dies: the message is  *)
(* delivered again or lost.                                                *)
Abort(w) ==
  /\ task[w] # None
  /\ Ends(w)
  /\ sent' \in {sent, sent \ {task[w].order}}
  /\ UNCHANGED <<orderVars, row, panelVars, typed>>
-----------------------------------------------------------------------------
(* rename_paid_order, up to its save: the order and the name are checked   *)
(* on a copy, and the panel is asked in between.                           *)
CheckNewName(o, n) ==
  /\ status[o] = "paid" /\ needsName[o]
  /\ typed[o] = None
  /\ NameFree(n)
  /\ typed' = [typed EXCEPT ![o] = n]
  /\ UNCHANGED <<orderVars, row, panelVars, sent, task>>

RenamePaidOrder(o) ==
  /\ typed[o] # None
  /\ name' = [name EXCEPT ![o] = typed[o]]
  /\ needsName' = [needsName EXCEPT ![o] = FALSE]
  /\ typed' = [typed EXCEPT ![o] = None]
  /\ sent' = sent \cup {o}
  /\ UNCHANGED <<status, buyer, svc, refused, row, panelVars, task>>

(* retry_provision, without another name ...                               *)
RetryProvision(o) ==
  /\ status[o] = "paid"
  /\ needsName' = [needsName EXCEPT ![o] = FALSE]
  /\ refused' = [refused EXCEPT ![o] = FALSE]
  /\ sent' = sent \cup {o}
  /\ UNCHANGED <<status, buyer, name, svc, row, panelVars, task, typed>>

(* ... and with one: order and row are locked and renamed together.        *)
RetryWithName(o, n) ==
  /\ StaffRename
  /\ status[o] = "paid" /\ n # name[o]
  /\ svc[o] # None => ~Linked(svc[o])
  /\ NameFree(n)
  /\ name' = [name EXCEPT ![o] = n]
  /\ row' = IF svc[o] = None THEN row
            ELSE [row EXCEPT ![svc[o]].name = n, ![svc[o]].st = "pending"]
  /\ needsName' = [needsName EXCEPT ![o] = FALSE]
  /\ refused' = [refused EXCEPT ![o] = FALSE]
  /\ sent' = sent \cup {o}
  /\ UNCHANGED <<status, buyer, svc, panelVars, task, typed>>
-----------------------------------------------------------------------------
(* sync_service_detail: the row mirrors the account of its name; without   *)
(* one it is disabled, unless a paid order is still waiting for it.        *)
Sync(i) ==
  /\ row[i] # None /\ up
  /\ IF account[row[i].name] # None THEN Mirrors(i)
     ELSE row' = [row EXCEPT ![i].st =
            IF Linked(i) THEN "linked"
            ELSE IF \E o \in Order : svc[o] = i /\ status[o] = "paid" THEN "pending"
            ELSE "disabled"]
  /\ UNCHANGED <<orderVars, panelVars, taskVars>>

(* sync_all_services (beat) skips the pending rows not built yet.          *)
SyncAll(i) == ~Pending(i) /\ Sync(i)

(* The customer's or the staff's "refresh" of one service skips nothing.   *)
Refresh(i) == OnDemand /\ Sync(i)

(* void_payment, disabling: the account of that name is disabled and the   *)
(* row mirrors it.                                                         *)
VoidDisable(o) ==
  /\ "disable" \in VoidActions
  /\ status[o] \in {"paid", "completed"}
  /\ svc[o] # None /\ up
  /\ status' = [status EXCEPT ![o] = "cancelled"]
  /\ IF account[row[svc[o]].name] # None THEN Mirrors(svc[o])
     ELSE row' = [row EXCEPT ![svc[o]].st = IF Linked(svc[o]) THEN "linked" ELSE "disabled"]
  /\ UNCHANGED <<buyer, name, svc, needsName, refused, panelVars, taskVars>>

(* void_payment, deleting: the account goes first; the row follows, unless *)
(* the panel fails to confirm and everything but the account rolls back.   *)
VoidDelete(o) ==
  /\ "delete" \in VoidActions
  /\ status[o] \in {"paid", "completed"}
  /\ svc[o] # None /\ up
  /\ account' = [account EXCEPT ![row[svc[o]].name] = None]
  /\ \/ /\ status' = [status EXCEPT ![o] = "cancelled"]
        /\ row' = [row EXCEPT ![svc[o]] = None]
        /\ svc' = [p \in Order |-> IF svc[p] = svc[o] THEN None ELSE svc[p]]
     \/ UNCHANGED <<status, row, svc>>
  /\ UNCHANGED <<buyer, name, needsName, refused, up, taskVars>>
-----------------------------------------------------------------------------
TaskStep(w) ==
  \/ FindRow(w) \/ MakeRow(w) \/ LinkRow(w)
  \/ Resync(w) \/ CreateAccount(w) \/ ReplyLost(w) \/ Adopt(w)
  \/ NameTaken(w) \/ PanelRefuses(w)
  \/ AskForNewName(w) \/ ProvisionFailed(w) \/ Complete(w) \/ Abort(w)

OrderStep(o) ==
  \/ \E u \in User, n \in Name : PlaceOrder(o, u, n)
  \/ Pay(o)
  \/ RetryUnfulfilled(o)
  \/ SkipFulfil(o)
  \/ \E w \in Worker : StartFulfil(w, o)
  \/ \E n \in Name : CheckNewName(o, n)
  \/ RenamePaidOrder(o)
  \/ RetryProvision(o)
  \/ \E n \in Name : RetryWithName(o, n)
  \/ VoidDisable(o)
  \/ VoidDelete(o)

Next ==
  \/ \E w \in Worker : TaskStep(w)
  \/ \E o \in Order : OrderStep(o)
  \/ \E i \in Row : SyncAll(i)
  \/ \E i \in Row : Refresh(i)
  \/ \E n \in Name : ForeignTakes(n)
  \/ PanelGoesDown
  \/ PanelComesUp

Spec == Init /\ [][Next]_vars

(* Messages are consumed and the beat runs.  A step of a task may be cut   *)
(* off by a crash, but not every time it is tried for ever.                *)
Fairness ==
  /\ \A o \in Order : WF_vars(RetryUnfulfilled(o))
  /\ \A o \in Order : WF_vars(\E w \in Worker : StartFulfil(w, o))
  /\ \A w \in Worker :
       /\ SF_vars(FindRow(w) \/ MakeRow(w))
       /\ SF_vars(LinkRow(w))
       /\ SF_vars(Resync(w) \/ CreateAccount(w) \/ Adopt(w) \/ NameTaken(w) \/ PanelRefuses(w))
       /\ SF_vars(AskForNewName(w) \/ ProvisionFailed(w) \/ Complete(w))

FairSpec == Spec /\ Fairness
-----------------------------------------------------------------------------
(* A service row gets linked only to the panel account made for that very  *)
(* row, whatever crashed, lost replies or name races came before           *)
(* (provision_service, created_for).                                       *)
LinksOwn ==
  [][\A i \in Row : row[i] # None /\ ~Linked(i) /\ Linked(i)' => account'[row'[i].name] = i]_vars

(* An account we made on the panel always has its service row, under the   *)
(* same name: no crash, lost reply or new name leaves one behind that      *)
(* nobody can find, renew or delete (_ask_for_new_name, provision_service).*)
NoOrphanAccount ==
  \A n \in Name : account[n] \in Row => row[account[n]] # None /\ row[account[n]].name = n

(* An order's service is a row of that customer, even when another         *)
(* customer's order for the same name was provisioned in between           *)
(* (_ensure_service: "do not cross-link").                                 *)
ServiceIsTheBuyers ==
  \A o \in Order : svc[o] # None => row[svc[o]] # None /\ row[svc[o]].user = buyer[o]

(* With the panel back for good, a paid order is delivered, cancelled, or  *)
(* held for a person who has to act on it (retry_unfulfilled_orders).      *)
PaidIsSettled ==
  <>[]up => \A o \in Order :
    status[o] = "paid" ~> \/ status[o] \in {"completed", "cancelled"}
                         \/ needsName[o] \/ refused[o]

(* A delivered service is never someone else's panel account, also when    *)
(* its row was refreshed while the order was being built (provision_service).*)
DeliveredIsOurs ==
  \A o \in Order : status[o] = "completed" /\ svc[o] # None => account[row[svc[o]].name] # Foreign
-----------------------------------------------------------------------------
(* What the proofs add to the properties above.                            *)

(* A placed order has a buyer and a name, whoever still works on it.       *)
OrderInv ==
  \A o \in Order :
    /\ status[o] # "absent" => buyer[o] \in User /\ name[o] \in Name
    /\ o \in sent \/ typed[o] # None \/ svc[o] # None => status[o] # "absent"

(* A task knows a placed order and, from "found" on, a row that is its     *)
(* buyer's while it exists.                                                *)
TaskInv ==
  \A w \in Worker : task[w] # None =>
    /\ status[task[w].order] # "absent"
    /\ task[w].pc \in {"found", "linked", "done", "taken"} => task[w].svc \in Row
    /\ task[w].svc # None /\ row[task[w].svc] # None
         => row[task[w].svc].user = buyer[task[w].order]

(* Only a sync on demand or a void disables a row that was never built.    *)
NoneDisabled ==
  ~OnDemand /\ "disable" \notin VoidActions =>
    \A i \in Row : row[i] # None => row[i].st # "disabled"

IInv == TypeOK /\ ServiceIsTheBuyers /\ OrderInv /\ TaskInv /\ NoneDisabled

(* With nobody renaming rows or deleting payments, a task that met a taken *)
(* name still meets it.                                                    *)
TakenInv ==
  \A w \in Worker : Working(w, "taken") /\ row[task[w].svc] # None
                     => account[row[task[w].svc].name] \notin {None, task[w].svc}
=============================================================================
