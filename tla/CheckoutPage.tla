---------------------------- MODULE CheckoutPage ----------------------------
(***************************************************************************)
(* The customer's payment page (src/frontend/user/src/pages/Checkout.jsx), *)
(* in one tab: the order form with its discount quote, the invoice and the *)
(* block it shows, the 8-second poll, the receipt upload, the new account  *)
(* name, and what survives a reload: the order in the URL and the one in   *)
(* localStorage.                                                           *)
(*                                                                         *)
(* Only what the page is told of an order matters: status, payment status, *)
(* `needs_new_name', whether the deadline passed.  The server changes the  *)
(* first two in every way module OrderLife knows, which is all that        *)
(* Checkout does (CheckoutProofs).  A request is handled by the server in  *)
(* one step and its answer, what the server saw then, arrives in a later   *)
(* one: also after the customer went on to another page of the app, which  *)
(* unmounts this one and leaves its calls running.                         *)
(***************************************************************************)
EXTENDS Naturals, FiniteSets

CONSTANTS
  Plan, Service,   \* what can be bought, what can be renewed
  None,       \* nothing chosen, no order, no quote, no answer
  MaxOrders,  \* bound: orders the customer places
  MaxPolls,   \* bound: calls and re-checks under way at once when another re-check is made
  MaxQuotes,  \* bound: quotes under way at once
  MaxLeft,    \* bound: calls and re-checks of pages already left
  MaxLoads,   \* bound: times the customer opens or reloads the page
  MaxMoves,   \* bound: what others do to the customer's orders, and losses of requests or answers
  Voiding     \* staff may void a payment and cancel its order

Order == 1..MaxOrders
Statuses == {"pending_payment", "paid", "completed", "rejected", "failed", "expired", "cancelled"}
PayStatuses == {"none", "pending", "approved", "rejected"}
Purchase == [plan : Plan, renew : Service \cup {None}]
Row == [status : Statuses, pay : PayStatuses, rename : BOOLEAN, item : Purchase]
Held == [id : Order, row : Row]    \* an order as the page holds it
(* ?order= and ?resume= (0 without), ?plan= and ?renew= *)
Url == [order : 0..MaxOrders, resume : 0..MaxOrders, plan : Plan \cup {None}, renew : Service \cup {None}]

(* A call under way: of the page on screen, of one the customer left for another page of the app,
   or of one that is gone with its tab; the URL it was made at (showOrder and restore read the URL
   of their own render), the order asked for or made, the body of a new order, the row answered. *)
Call == [kind : {"restore", "create", "receipt", "name"}, by : {"page", "left", "gone"}, from : Url,
         id : 0..MaxOrders, item : Purchase \cup {None}, st : {"sent", "read", "done", "refused"},
         got : Row \cup {None}]
Check == [id : Order, got : Row \cup {None}, by : {"page", "left"}]

ASSUME CheckoutPageAssumption ==
  /\ None \notin Plan \cup Service \cup Purchase \cup Row \cup Held
  /\ MaxOrders \in Nat /\ MaxPolls \in Nat /\ MaxQuotes \in Nat /\ MaxLoads \in Nat
  /\ MaxMoves \in Nat /\ MaxLeft \in Nat
  /\ Voiding \in BOOLEAN

VARIABLES
  server,   \* the customer's orders
  late,     \* orders whose unique amount's deadline has passed
  voided,   \* history: orders whose payment was voided
  moves,    \* what others and the network did so far
  url,      \* the URL of /checkout
  active,   \* the order kept in localStorage, id 0 for none; relic: an answer to a page left put it there
  page,     \* the page's own state
  polls,    \* re-checks under way: the order asked for, the answer (None while unread)
  quotes,   \* the purchases the quotes under way were asked for
  calls,    \* the other calls under way
  loads, mine, slipped   \* bound; history: the order the customer is on; a restore failed

vars == <<server, late, voided, moves, url, active, page, polls, quotes, calls, loads, mine, slipped>>
rows == <<server, late, voided>>
serverVars == <<rows, moves>>
told == <<mine, slipped>>

Placed == {o \in Order : server[o] # None}
Bare == [order |-> 0, resume |-> 0, plan |-> None, renew |-> None]
At(o) == [Bare EXCEPT !.order = o]
Asked(u) == IF u.order # 0 THEN u.order ELSE u.resume
Wanted == [plan |-> page.plan, renew |-> url.renew]

Nothing == [id |-> 0, relic |-> FALSE]
Mount == [at |-> "form", plan |-> None, quote |-> None, order |-> None, visible |-> TRUE]

Init ==
  /\ server = [o \in Order |-> None]
  /\ late = {} /\ voided = {} /\ moves = 0
  /\ url = Bare /\ active = Nothing
  /\ page = [Mount EXCEPT !.at = "closed"]
  /\ polls = {} /\ quotes = {} /\ calls = {}
  /\ loads = 0 /\ mine = 0 /\ slipped = FALSE

(***************************************************************************)
(* What the page shows                                                     *)
(***************************************************************************)
FINAL == {"completed", "rejected", "failed", "expired"}
Shown == page.order.row
Live == page.order # None /\ Shown.status \notin FINAL
Busy == \E c \in calls : c.by = "page"
Checks == {q \in polls : q.by = "page"}

(* The page does not wait for the server to call an unpaid order expired. *)
Expired ==
  \/ Shown.status = "expired"
  \/ /\ Shown.status = "pending_payment" /\ Shown.pay \notin {"pending", "approved"}
     /\ page.order.id \in late
Confirmed == Shown.pay = "approved" \/ Shown.status = "paid"
Pending == Shown.status = "pending_payment" /\ ~Expired /\ ~Confirmed
NeedsReceipt == Pending /\ Shown.pay \in {"none", "rejected"}

(* Mutant: a failed delivery is still said to be prepared. *)
BlocksFailedToo ==
  {b \in {"completed", "new_name", "preparing", "failed", "rejected", "expired", "pending"} :
     CASE b = "completed" -> Shown.status = "completed"
       [] b = "new_name"  -> Shown.status = "paid" /\ Shown.rename
       [] b = "preparing" -> Shown.status # "completed" /\ Confirmed /\ ~Shown.rename
       [] b = "failed"    -> Shown.status = "failed"
       [] b = "rejected"  -> Shown.status = "rejected"
       [] b = "expired"   -> Expired
       [] b = "pending"   -> Pending}

(* The blocks the invoice page shows, one for each thing it can tell.      *)
Blocks ==
  {b \in {"completed", "new_name", "preparing", "failed", "rejected", "expired", "pending"} :
     CASE b = "completed" -> Shown.status = "completed"
       [] b = "new_name"  -> Shown.status = "paid" /\ Shown.rename
       [] b = "preparing" -> Shown.status \notin {"completed", "failed"} /\ Confirmed /\ ~Shown.rename
       [] b = "failed"    -> Shown.status = "failed"
       [] b = "rejected"  -> Shown.status = "rejected"
       [] b = "expired"   -> Expired
       [] b = "pending"   -> Pending}

TypeOK ==
  /\ server \in [Order -> Row \cup {None}]
  /\ late \subseteq Order /\ voided \subseteq Order
  /\ url \in Url /\ mine \in 0..MaxOrders
  /\ active \in [id : 0..MaxOrders, relic : BOOLEAN]
  /\ page \in [at : {"closed", "restoring", "form", "invoice"}, plan : Plan \cup {None},
               quote : Purchase \cup {None}, visible : BOOLEAN, order : {None} \cup Held]
  /\ page.at = "invoice" <=> page.order # None
  /\ polls \subseteq Check /\ quotes \subseteq Purchase /\ calls \subseteq Call
  /\ moves \in 0..MaxMoves /\ loads \in 0..MaxLoads /\ slipped \in BOOLEAN

(***************************************************************************)
(* The order in the URL, in localStorage and on screen                     *)
(***************************************************************************)
Cleared(o) == IF active.id = o THEN Nothing ELSE active

(* The page p at the URL u: another purchase than before has no quote yet. *)
Retargeted(p, u) ==
  [p EXCEPT !.quote = IF p.plan = page.plan /\ u.renew = url.renew THEN @ ELSE None]

(* The order the page starts with: the URL's, or the one kept for the same purchase in time. *)
Resumed(u, a) ==
  IF Asked(u) # 0 THEN Asked(u)
  ELSE IF /\ a.id # 0 /\ a.id \notin late
          /\ u.plan \in {None, server[a.id].item.plan} /\ u.renew = server[a.id].item.renew
       THEN a.id ELSE 0

Send(kind, u, o, item) ==
  [kind |-> kind, by |-> "page", from |-> u, id |-> o, item |-> item, st |-> "sent", got |-> None]

(* The page is mounted at the URL u, with a kept in localStorage and the calls cs under way. *)
Mounts(u, a, cs) ==
  LET o == Resumed(u, a) IN
  /\ url' = u
  /\ page' = [Mount EXCEPT !.plan = u.plan, !.at = IF o # 0 THEN "restoring" ELSE "form"]
  /\ active' = IF o # 0 THEN a ELSE Nothing
  /\ calls' = cs \cup (IF o # 0 THEN {Send("restore", u, o, None)} ELSE {})
  /\ quotes' = {}

(* The app's links to the page: at an order (?order= or ?resume=), or for a purchase. *)
Links ==
  {u \in Url : /\ {u.order, u.resume} \subseteq {0} \cup Placed /\ 0 \in {u.order, u.resume}
               /\ Asked(u) # 0 => u.plan = None /\ u.renew = None}

(* The customer opens the page from the app or by a link. *)
Arrive ==
  /\ page.at = "closed" /\ loads < MaxLoads /\ loads' = loads + 1
  /\ \E u \in Links : Mounts(u, active, calls) /\ mine' = Asked(u)
  /\ slipped' = FALSE
  /\ UNCHANGED <<serverVars, polls>>

(* What is left of the calls when the tab goes: the server may still handle one, nobody hears it. *)
Unheard == {[c EXCEPT !.by = "gone"] : c \in {d \in calls : d.st \in {"sent", "read"} /\ d.kind # "restore"}}

Reload ==
  /\ page.at # "closed" /\ loads < MaxLoads /\ loads' = loads + 1
  /\ Mounts(url, active, Unheard)
  /\ mine' = IF mine # 0 THEN mine ELSE Asked(url)
  /\ polls' = {}
  /\ UNCHANGED <<serverVars, slipped>>

(* The customer goes on to another page of the app: the calls go on, but a re-check is ignored
   unless it is about the order last shown, and so is a receipt once the invoice was left. *)
Leave ==
  /\ page.at # "closed"
  /\ Cardinality(polls) + Cardinality(calls) <= MaxLeft
  /\ page' = [Mount EXCEPT !.at = "closed"]
  /\ url' = Bare /\ quotes' = {} /\ mine' = 0 /\ slipped' = FALSE
  /\ polls' = {[q EXCEPT !.by = "left"] :
                  q \in {r \in polls : r.by = "page" => page.order # None /\ page.order.id = r.id}}
  /\ calls' = {[c EXCEPT !.by = IF @ = "page"
                                THEN IF c.kind = "receipt" /\ page.order = None THEN "gone" ELSE "left"
                                ELSE @] : c \in calls}
  /\ UNCHANGED <<serverVars, active, loads>>

(* The tab is closed, or goes to another site. *)
Close ==
  /\ page.at # "closed" \/ polls # {} \/ calls # Unheard
  /\ page' = [Mount EXCEPT !.at = "closed"]
  /\ url' = Bare /\ quotes' = {} /\ mine' = 0 /\ slipped' = FALSE
  /\ polls' = {} /\ calls' = Unheard
  /\ UNCHANGED <<serverVars, active, loads>>

(***************************************************************************)
(* The answers of restore, of a new order and of a new name                *)
(***************************************************************************)
(* What the server answers to c; nobody waits for the answer to a call that is gone. *)
Answer(c, d) == calls' = (calls \ {c}) \cup (IF c.by = "gone" THEN {} ELSE {d})

OrderRead(c) ==
  /\ c.kind = "restore" /\ c.st = "sent"
  /\ Answer(c, [c EXCEPT !.st = "done", !.got = server[c.id]])
  /\ UNCHANGED <<serverVars, url, active, page, polls, quotes, loads, told>>

(* A request or its answer gets lost. *)
CallLost(c) ==
  /\ c.by # "gone" /\ c.st # "refused" /\ moves < MaxMoves /\ moves' = moves + 1
  /\ Answer(c, [c EXCEPT !.st = "refused", !.got = None])
  /\ UNCHANGED <<rows, url, active, page, polls, quotes, loads, told>>

(* Mutant: the invoice is not pinned to the URL. *)
PinsNever(c) == FALSE

(* showOrder puts the order into the URL, unless the URL it was called at has it already. *)
Pins(c) == c.from.order # c.id \/ c.from.resume # 0

(* ... and remembers it while it is unpaid. *)
KeptBy(c) ==
  IF c.got.status = "pending_payment" THEN [id |-> c.id, relic |-> c.by = "left"] ELSE Cleared(c.id)

Answered(c) == c.kind # "receipt" /\ c.st = "done"

ShowOrder(c) ==
  LET u == IF Pins(c) THEN At(c.id) ELSE url IN
  /\ c.by = "page" /\ Answered(c)
  /\ url' = u
  /\ page' = Retargeted([page EXCEPT !.at = "invoice", !.order = [id |-> c.id, row |-> c.got]], u)
  /\ active' = KeptBy(c)
  /\ mine' = IF c.kind = "name" THEN mine ELSE c.id
  /\ slipped' = (slipped /\ ~Pins(c))
  /\ calls' = calls \ {c}
  /\ UNCHANGED <<serverVars, polls, quotes, loads>>

(* setSp by a page that was left brings the customer back to /checkout, which is mounted anew
   unless it is on screen already. *)
Returns(c, u, a) ==
  IF page.at = "closed"
  THEN Mounts(u, a, calls \ {c}) /\ mine' = Asked(u)
  ELSE /\ url' = u /\ page' = Retargeted(page, u) /\ active' = a
       /\ calls' = calls \ {c}
       /\ UNCHANGED <<quotes, mine>>

Stays(c, a) == active' = a /\ calls' = calls \ {c} /\ UNCHANGED <<url, page, quotes, mine>>

(* The answer to a page already left: nothing is shown, the rest of showOrder is done. *)
ShowOrderLeft(c) ==
  /\ c.by = "left" /\ Answered(c)
  /\ IF Pins(c) THEN Returns(c, At(c.id), KeptBy(c)) ELSE Stays(c, KeptBy(c))
  /\ UNCHANGED <<serverVars, polls, loads, slipped>>

(* restore's catch: whatever the error was, the order is forgotten. *)
RestoreFails(c) ==
  LET u == [c.from EXCEPT !.order = 0, !.resume = 0] IN
  /\ c.kind = "restore" /\ c.st = "refused"
  /\ \/ /\ c.by = "page"
        /\ active' = Cleared(c.id) /\ calls' = calls \ {c}
        /\ url' = IF Asked(c.from) # 0 THEN u ELSE url
        /\ page' = Retargeted([page EXCEPT !.at = "form"], url')
        /\ UNCHANGED <<quotes, mine>>
     \/ /\ c.by = "left"
        /\ IF Asked(c.from) # 0 THEN Returns(c, u, Cleared(c.id)) ELSE Stays(c, Cleared(c.id))
  /\ slipped' = (page.at # "closed")
  /\ UNCHANGED <<serverVars, polls, loads>>

(***************************************************************************)
(* The form: choosing, the discount quote, the order                       *)
(***************************************************************************)
(* Choosing another plan or volume drops the quote. *)
Choose(p) ==
  /\ page.at = "form" /\ p # page.plan
  /\ page' = [page EXCEPT !.plan = p, !.quote = None]
  /\ UNCHANGED <<serverVars, url, active, polls, quotes, calls, loads, told>>

(* applyCode: Enter asks even while a quote is on its way. *)
ApplyCode ==
  /\ page.at = "form" /\ page.plan # None /\ Cardinality(quotes) < MaxQuotes
  /\ quotes' = quotes \cup {Wanted}
  /\ UNCHANGED <<serverVars, url, active, page, polls, calls, loads, told>>

QuoteArrives(p) ==
  /\ quotes' = quotes \ {p}
  /\ \E q \in {p, None} : page' = [page EXCEPT !.quote = q]    \* the price, or the code is refused
  /\ UNCHANGED <<serverVars, url, active, polls, calls, loads, told>>

CreateOrder ==
  /\ page.at = "form" /\ page.plan # None /\ ~Busy
  /\ calls' = calls \cup {Send("create", url, 0, Wanted)}
  /\ UNCHANGED <<serverVars, url, active, page, polls, quotes, loads, told>>

Unpaid(o) == server[o].status = "pending_payment" /\ server[o].pay = "none"
Stale == {o \in Placed : server[o].status = "pending_payment" /\ o \in late /\ server[o].pay # "pending"}

(* create_order on the server: the stale reservations expire; the pending order of the same purchase
   again, or a new one, which may replace unpaid ones (another discount code, the same code). *)
OrderPlaced(c) ==
  /\ c.kind = "create" /\ c.st = "sent"
  /\ \E o \in Order :
       \/ /\ o \in Placed \ late /\ server[o].item = c.item
          /\ server[o].status = "pending_payment" /\ server[o].pay \in {"none", "pending"}
          /\ server' = [x \in Order |-> IF x \in Stale THEN [server[x] EXCEPT !.status = "expired"] ELSE server[x]]
          /\ Answer(c, [c EXCEPT !.st = "done", !.id = o, !.got = server[o]])
       \/ LET new == [status |-> "pending_payment", pay |-> "none", rename |-> FALSE, item |-> c.item] IN
          /\ o \notin Placed /\ \A x \in Order \ Placed : o <= x
          /\ \E drop \in SUBSET {x \in Placed : Unpaid(x)} :
               server' = [x \in Order |-> IF x = o THEN new
                                         ELSE IF x \in Stale \cup drop THEN [server[x] EXCEPT !.status = "expired"]
                                         ELSE server[x]]
          /\ Answer(c, [c EXCEPT !.st = "done", !.id = o, !.got = new])
  /\ UNCHANGED <<late, voided, moves, url, active, page, polls, quotes, loads, told>>

(* The server's refusal, for whatever reason (name taken, code refused, a renewal waiting ...). *)
Refused(c) ==
  /\ c.kind # "restore" /\ c.st \in {"sent", "read"}
  /\ Answer(c, [c EXCEPT !.st = "refused"])
  /\ UNCHANGED <<serverVars, url, active, page, polls, quotes, loads, told>>

(* A refused order or name shows the reason; the form is usable again. *)
PostRefused(c) ==
  /\ c.kind \in {"create", "name"} /\ c.st = "refused"
  /\ calls' = calls \ {c}
  /\ UNCHANGED <<serverVars, url, active, page, polls, quotes, loads, told>>

(* startOver: back to the form of the same purchase; the old reservation lapses. *)
StartOver ==
  LET u == [Bare EXCEPT !.plan = Shown.item.plan, !.renew = Shown.item.renew] IN
  /\ page.at = "invoice" /\ Blocks \cap {"rejected", "expired", "pending"} # {}
  /\ active' = Cleared(page.order.id)
  /\ page' = Retargeted([page EXCEPT !.at = "form", !.order = None, !.plan = u.plan], u)
  /\ url' = u /\ mine' = 0 /\ slipped' = FALSE
  /\ UNCHANGED <<serverVars, polls, quotes, calls, loads>>

(***************************************************************************)
(* Re-checking the order                                                   *)
(***************************************************************************)
Recheck == [id |-> page.order.id, got |-> None, by |-> "page"]
Ask(cs) == Cardinality(polls) + Cardinality(cs) < MaxPolls /\ polls' = polls \cup {Recheck}

(* The 8-second poll of a live order in a visible tab, or «refresh». *)
Poll ==
  /\ page.at = "invoice" /\ Live /\ page.visible
  /\ Recheck \notin polls
  /\ Ask(calls)
  /\ UNCHANGED <<serverVars, url, active, page, quotes, calls, loads, told>>

Hide ==
  /\ page.at = "invoice" /\ page.visible
  /\ page' = [page EXCEPT !.visible = FALSE]
  /\ UNCHANGED <<serverVars, url, active, polls, quotes, calls, loads, told>>

(* Coming back re-checks at once, whatever the status is. *)
Show ==
  /\ page.at = "invoice" /\ ~page.visible
  /\ page' = [page EXCEPT !.visible = TRUE]
  /\ Ask(calls)
  /\ UNCHANGED <<serverVars, url, active, quotes, calls, loads, told>>

PollRead(q) ==
  /\ q.got = None
  /\ polls' = (polls \ {q}) \cup {[q EXCEPT !.got = server[q.id]]}
  /\ UNCHANGED <<serverVars, url, active, page, quotes, calls, loads, told>>

(* Mutants: a re-check leaves a closed order in localStorage; only an unpaid order is redrawn. *)
RefreshedForgetful(q) ==
  IF page.order # None /\ page.order.id = q.id
  THEN page' = [page EXCEPT !.order = [id |-> q.id, row |-> q.got]] /\ UNCHANGED active
  ELSE UNCHANGED <<page, active>>

RefreshedWhileUnpaid(q) ==
  IF page.order # None /\ page.order.id = q.id /\ Shown.status = "pending_payment"
  THEN /\ page' = [page EXCEPT !.order = [id |-> q.id, row |-> q.got]]
       /\ active' = IF q.got.status # "pending_payment" THEN Cleared(q.id) ELSE active
  ELSE UNCHANGED <<page, active>>

(* refreshOrder's answer, ignored when the page has moved on to another order. *)
Refreshed(q) ==
  IF page.order # None /\ page.order.id = q.id
  THEN /\ page' = [page EXCEPT !.order = [id |-> q.id, row |-> q.got]]
       /\ active' = IF q.got.status # "pending_payment" THEN Cleared(q.id) ELSE active
  ELSE UNCHANGED <<page, active>>

PollArrives(q) ==
  /\ q.got # None
  /\ polls' = polls \ {q}
  /\ IF q.by = "page" THEN Refreshed(q)
     ELSE active' = (IF q.got.status # "pending_payment" THEN Cleared(q.id) ELSE active) /\ UNCHANGED page
  /\ UNCHANGED <<serverVars, url, quotes, calls, loads, told>>

PollLost(q) ==
  /\ moves < MaxMoves /\ moves' = moves + 1
  /\ polls' = polls \ {q}
  /\ UNCHANGED <<rows, url, active, page, quotes, calls, loads, told>>

(***************************************************************************)
(* The receipt and the new account name                                    *)
(***************************************************************************)
UploadReceipt ==
  /\ page.at = "invoice" /\ NeedsReceipt /\ ~Busy
  /\ calls' = calls \cup {Send("receipt", url, page.order.id, None)}
  /\ UNCHANGED <<serverVars, url, active, page, polls, quotes, loads, told>>

(* submit_receipt looks at the order; by the time the photo is stored it may have changed. *)
ReceiptChecked(c) ==
  /\ c.kind = "receipt" /\ c.st = "sent"
  /\ server[c.id].status = "pending_payment" /\ c.id \notin late
  /\ calls' = (calls \ {c}) \cup {[c EXCEPT !.st = "read"]}
  /\ UNCHANGED <<serverVars, url, active, page, polls, quotes, loads, told>>

ReceiptSaved(c) ==
  /\ c.kind = "receipt" /\ c.st = "read"
  /\ server' = [server EXCEPT ![c.id].pay = "pending"]
  /\ Answer(c, [c EXCEPT !.st = "done"])
  /\ UNCHANGED <<late, voided, moves, url, active, page, polls, quotes, loads, told>>

(* Saved or refused: the page re-checks the order it shows by now, if any. *)
ReceiptAnswered(c) ==
  /\ c.kind = "receipt" /\ c.st \in {"done", "refused"}
  /\ IF c.by = "left" THEN polls' = polls \cup {[id |-> c.id, got |-> None, by |-> "left"]}
     ELSE IF page.order # None THEN Ask(calls \ {c}) ELSE UNCHANGED polls
  /\ calls' = calls \ {c}
  /\ UNCHANGED <<serverVars, url, active, page, quotes, loads, told>>

SendNewName ==
  /\ page.at = "invoice" /\ "new_name" \in Blocks /\ ~Busy
  /\ calls' = calls \cup {Send("name", url, page.order.id, None)}
  /\ UNCHANGED <<serverVars, url, active, page, polls, quotes, loads, told>>

(* rename_paid_order: accepted while the order still waits for a name. *)
NewNameHandled(c) ==
  LET r == [server[c.id] EXCEPT !.rename = FALSE] IN
  /\ c.kind = "name" /\ c.st = "sent"
  /\ server[c.id].status = "paid" /\ server[c.id].rename
  /\ server' = [server EXCEPT ![c.id] = r]
  /\ Answer(c, [c EXCEPT !.st = "done", !.got = r])
  /\ UNCHANGED <<late, voided, moves, url, active, page, polls, quotes, loads, told>>

(***************************************************************************)
(* The server's side: time, payments, staff, fulfilment                    *)
(***************************************************************************)
(* Seen by the page, the orders on the server live as OrderLife says.      *)
Life == INSTANCE OrderLife WITH
  status <- [o \in Order |-> IF server[o] = None THEN "absent" ELSE server[o].status],
  pay <- [o \in Order |-> IF server[o] = None THEN "none" ELSE server[o].pay],
  touched <- voided
LifeSpec == Life!Spec

(* The deadline passes. *)
DeadlinePasses(o) ==
  /\ server[o].status = "pending_payment" /\ o \notin late
  /\ late' = late \cup {o}
  /\ UNCHANGED <<server, voided>>

(* Deposits, staff, receipts sent through the bot, other tabs, the beat and the tasks. *)
Decided(o, s, p) ==
  /\ o \notin voided
  /\ Life!Becomes(server[o].status, server[o].pay, o \in late, s, p)
  /\ server' = [server EXCEPT ![o].status = s, ![o].pay = p]
  /\ UNCHANGED <<late, voided>>

(* A task that read the order as paid finds its name taken and asks for a new one. *)
AsksNewName(o) ==
  /\ server[o].status \in {"paid", "completed", "failed"} /\ ~server[o].rename
  /\ server' = [server EXCEPT ![o].rename = TRUE]
  /\ UNCHANGED <<late, voided>>

(* The bot's new name, or a retry by staff. *)
NameSettled(o) ==
  /\ server[o].status = "paid" /\ server[o].rename
  /\ server' = [server EXCEPT ![o].rename = FALSE]
  /\ UNCHANGED <<late, voided>>

(* Staff delete the payment, and may bring the order back as anything. *)
Voids(o) ==
  /\ Voiding /\ (server[o].pay # "none" \/ o \in voided)
  /\ \E s \in Statuses, p \in PayStatuses : server' = [server EXCEPT ![o].status = s, ![o].pay = p]
  /\ voided' = voided \cup {o}
  /\ UNCHANGED late

ServerMoves(o) ==
  /\ o \in Placed /\ moves < MaxMoves /\ moves' = moves + 1
  /\ \/ DeadlinePasses(o) \/ AsksNewName(o) \/ NameSettled(o) \/ Voids(o)
     \/ \E s \in Statuses, p \in PayStatuses : Decided(o, s, p)
  /\ UNCHANGED <<url, active, page, polls, quotes, calls, loads, told>>

-----------------------------------------------------------------------------
Handled(c) == OrderRead(c) \/ OrderPlaced(c) \/ ReceiptChecked(c) \/ ReceiptSaved(c) \/ NewNameHandled(c) \/ Refused(c)
Arrives(c) == ShowOrder(c) \/ ShowOrderLeft(c) \/ RestoreFails(c) \/ PostRefused(c) \/ ReceiptAnswered(c)

Next ==
  \/ Arrive \/ Reload \/ Leave \/ Close
  \/ \E p \in Plan : Choose(p)
  \/ \E p \in quotes : QuoteArrives(p)
  \/ ApplyCode \/ CreateOrder \/ StartOver
  \/ \E c \in calls : Handled(c) \/ Arrives(c) \/ CallLost(c)
  \/ Poll \/ Hide \/ Show
  \/ \E q \in polls : PollRead(q) \/ PollArrives(q) \/ PollLost(q)
  \/ UploadReceipt \/ SendNewName
  \/ \E o \in Order : ServerMoves(o)

Spec == Init /\ [][Next]_vars

(* The browser's timer fires, the server reads and answers arrive; nothing is
   assumed of customers, staff or payments. *)
FairSpec ==
  /\ Spec
  /\ WF_vars(Poll) /\ WF_vars(\E q \in polls : PollRead(q)) /\ WF_vars(\E q \in polls : PollArrives(q))
  /\ WF_vars(\E c \in calls : Handled(c)) /\ WF_vars(\E c \in calls : Arrives(c))
-----------------------------------------------------------------------------
(* The invoice page shows exactly one of its blocks, whichever copy of the order it holds: the
   customer is never told two things at once (pay and wait, failed and preparing), and never
   nothing.  (A cancelled order is an exception, see CancelledIsNotPrepared.) *)
OneBlock ==
  page.at = "invoice" /\ page.order.id \notin voided => Cardinality(Blocks) = 1

(* localStorage never offers an order the page knows is no longer waiting for its payment, so
   opening /checkout for a new purchase does not bring a finished one back; unless the answer to a
   page already left put it there (SavedIsOpenAlways). *)
SavedIsOpen ==
  page.at = "invoice" /\ Shown.status # "pending_payment" /\ active.id = page.order.id => active.relic

(* Reloading brings the customer's own invoice back, unless it was given up or a request failed. *)
ReloadKeepsInvoice ==
  page.at = "form" /\ mine # 0 => slipped

(* What the server decided of the order on screen is shown at last, in whatever order the answers
   of overlapping re-checks arrive, unless the tab stays hidden, the customer leaves, or the page
   took an earlier decision for the last one.  (Others act on the order MaxMoves times.) *)
StatusCatchesUp ==
  \A o \in Order :
    [](page.at = "invoice" /\ page.order.id = o /\ page.visible /\ server[o].status \in FINAL
       => <>(\/ page.at # "invoice" \/ ~page.visible \/ page.order.id # o
             \/ Shown.status = server[o].status \/ (~Live /\ Checks = {})))

(* "reopened /checkout for the same purchase while an order is still reserved -> resume it"
   (Checkout.jsx:113): what is kept for that is no order the page knows to be decided. *)
SavedIsOpenAlways ==
  page.at = "invoice" /\ Shown.status # "pending_payment" => active.id # page.order.id

(* "background poll while the order can still change and the tab is visible" (Checkout.jsx:151): an
   expired or rejected order can still be paid by a late deposit or approved by staff. *)
PollsWhileItCanChange ==
  page.at = "invoice" /\ page.visible /\ ~Live /\ Shown.status # server[page.order.id].status
    => \E q \in polls : q.id = page.order.id

(* "a quote belongs to one purchase: changing the plan / volume asks again" (Checkout.jsx:191). *)
QuoteFits == page.at = "form" => page.quote \in {None, Wanted}

(* "The pending order the customer is paying for survives reloads and tab switches"
   (Checkout.jsx:14): opening the page at an unpaid order ends at that order. *)
InvoiceSurvivesReload ==
  page.at = "form" /\ mine \in Placed => server[mine].status # "pending_payment"

(* A cancelled order is never shown as one being prepared. *)
CancelledIsNotPrepared ==
  page.at = "invoice" /\ Shown.status = "cancelled" => "preparing" \notin Blocks
=============================================================================
