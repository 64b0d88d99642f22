------------------------- MODULE CheckoutPageProofs -------------------------
(***************************************************************************)
(* What the payment page promises, for any number of orders, purchases,    *)
(* calls, re-checks, losses and visits.                                    *)
(*                                                                         *)
(* The page shows copies of orders of different ages, so what must hold of *)
(* an order on the server (Sound) must hold of every copy: on screen and   *)
(* in each answer under way, those to pages already left included.         *)
(***************************************************************************)
EXTENDS CheckoutPage, FiniteSetTheorems, TLAPS

PageType == [at : {"closed", "restoring", "form", "invoice"}, plan : Plan \cup {None},
             quote : Purchase \cup {None}, visible : BOOLEAN, order : {None} \cup Held]
Kept == [id : 0..MaxOrders, relic : BOOLEAN]

(* What the server says of an order and of its payment belongs together. *)
Sound(r) == Life!Sound(r.status, r.pay)
Fits(o, r) == o \in voided \/ Sound(r)

RowInv == \A o \in Order : server[o] # None => Fits(o, server[o])

(* Whatever the page, its URL and localStorage refer to exists. *)
GoodUrl(u) == {u.order, u.resume} \subseteq {0} \cup Placed
PageInv ==
  /\ GoodUrl(url) /\ active.id \in {0} \cup Placed
  /\ page.order # None => server[page.order.id] # None /\ Fits(page.order.id, page.order.row)

(* ... and so does what is asked for and answered. *)
GoodCheck(q) == server[q.id] # None /\ (q.got # None => Fits(q.id, q.got))
GoodCall(c) ==
  /\ c.kind # "create" \/ c.st = "done" => c.id \in Placed
  /\ c.kind = "create" => c.item # None
  /\ Answered(c) => c.got # None
  /\ c.got # None => Fits(c.id, c.got)
AskedInv == (\A q \in polls : GoodCheck(q)) /\ (\A c \in calls : GoodCall(c))

(* The page has one call of its own at a time; while it asks for its first order it shows none, and
   the order in the URL it was asked from is still there, unless a failure took it away. *)
Own(c) == c.by = "page"
First(c) == Own(c) /\ c.kind \in {"create", "restore"}
Alone ==
  /\ \A c, d \in calls : Own(c) /\ Own(d) => c = d
  /\ \A c \in calls : Own(c) => page.at # "closed"
  /\ \A c \in calls : First(c) => page.order = None /\ (c.from.order = 0 \/ slipped \/ Asked(url) # 0)

(* The invoice the customer is on can be found again. *)
UrlInv ==
  /\ mine # 0 => slipped \/ (Asked(url) # 0 /\ page.at # "form")
  /\ page.at = "closed" => mine = 0

IInv == TypeOK /\ RowInv /\ PageInv /\ AskedInv /\ Alone /\ SavedIsOpen /\ UrlInv
-----------------------------------------------------------------------------
LEMMA PageInit == CheckoutPageAssumption /\ Init => IInv
<1> SUFFICES ASSUME CheckoutPageAssumption, Init PROVE IInv
  OBVIOUS
<1>1. page.order = None /\ page.at = "closed" /\ page \in PageType
  BY DEF Init, Mount, PageType
<1>2. TypeOK
  <2>1. url \in Url /\ mine \in 0..MaxOrders /\ active \in Kept
    BY DEF Init, Bare, Nothing, Url, Kept, CheckoutPageAssumption
  <2>2. moves \in 0..MaxMoves /\ loads \in 0..MaxLoads
    BY DEF Init, CheckoutPageAssumption
  <2>5. slipped \in BOOLEAN
    BY DEF Init
  <2>3. server \in [Order -> Row \cup {None}]
    BY DEF Init
  <2>4. late = {} /\ voided = {} /\ polls = {} /\ quotes = {} /\ calls = {}
    BY DEF Init
  <2> QED BY <1>1, <2>1, <2>2, <2>3, <2>4, <2>5 DEF TypeOK, PageType, Kept
<1>3. RowInv /\ PageInv /\ AskedInv /\ Alone /\ SavedIsOpen /\ UrlInv
  BY <1>1 DEF Init, Bare, Nothing, RowInv, PageInv, GoodUrl, AskedInv, Alone, SavedIsOpen, UrlInv
<1> QED BY <1>2, <1>3 DEF IInv

(* Nothing that is said of the server changes while the page alone acts. *)
LEMMA FitsKept ==
  ASSUME voided' = voided
  PROVE  \A o, r : Fits(o, r)' <=> Fits(o, r)
BY DEF Fits, Sound, Life!Sound, Life!Settled

LEMMA GoodKept ==
  ASSUME server' = server, voided' = voided
  PROVE  /\ \A c : GoodCall(c)' <=> GoodCall(c)
         /\ \A q : GoodCheck(q)' <=> GoodCheck(q)
         /\ \A u : GoodUrl(u)' <=> GoodUrl(u)
         /\ Placed' = Placed
<1>1. Placed' = Placed
  BY DEF Placed
<1>2. \A u : GoodUrl(u)' <=> GoodUrl(u)
  BY <1>1 DEF GoodUrl
<1>3. \A q : GoodCheck(q)' <=> GoodCheck(q)
  BY FitsKept DEF GoodCheck
<1>4. \A c : GoodCall(c)' <=> GoodCall(c)
  BY <1>1, FitsKept DEF GoodCall, Answered
<1> QED BY <1>1, <1>2, <1>3, <1>4

(* A call is answered, or ends: the others and what the page shows stay. *)
LEMMA AloneKept ==
  ASSUME Alone, NEW c \in calls, NEW d, d.by = c.by, d.kind = c.kind, d.from = c.from,
         calls' \subseteq (calls \ {c}) \cup {d}, UNCHANGED <<page, url, slipped>>
  PROVE  Alone'
<1>1. \A e \in calls' : e \in calls \ {c} \/ e = d
  OBVIOUS
<1>2. /\ Own(d) <=> Own(c)
      /\ First(d) <=> First(c)
  BY DEF Own, First
<1>3. \A e, f \in calls' : Own(e) /\ Own(f) => e = f
  BY <1>1, <1>2 DEF Alone
<1>4. \A e \in calls' : Own(e) => page.at # "closed"
  BY <1>1, <1>2 DEF Alone
<1>5. \A e \in calls' : First(e) => page.order = None /\ (e.from.order = 0 \/ slipped \/ Asked(url) # 0)
  BY <1>1, <1>2 DEF Alone
<1> QED BY <1>3, <1>4, <1>5 DEF Alone, Own, First, Asked

LEMMA AloneFewer ==
  ASSUME Alone, calls' \subseteq calls, UNCHANGED <<page, url, slipped>>
  PROVE  Alone'
BY DEF Alone, Own, First, Asked

(* Only calls, re-checks and quotes begin, end or are answered. *)
LEMMA AskedStep ==
  ASSUME CheckoutPageAssumption, IInv,
         UNCHANGED <<server, late, voided, url, active, page, loads, mine, slipped>>,
         moves' \in 0..MaxMoves, quotes' \subseteq Purchase,
         polls' \subseteq Check, \A q \in polls' : GoodCheck(q),
         calls' \subseteq Call, \A c \in calls' : GoodCall(c), Alone'
  PROVE  IInv'
<1>1. TypeOK'
  BY DEF IInv, TypeOK
<1>2. RowInv' /\ PageInv' /\ AskedInv'
  BY FitsKept, GoodKept DEF IInv, RowInv, PageInv, AskedInv
<1>3. SavedIsOpen' /\ UrlInv'
  BY DEF IInv, SavedIsOpen, Shown, UrlInv, Asked
<1> QED BY <1>1, <1>2, <1>3 DEF IInv

(* One call c becomes d, or ends. *)
LEMMA CallStep ==
  ASSUME CheckoutPageAssumption, IInv, NEW c \in calls, NEW d \in Call,
         d.by = c.by, d.kind = c.kind, d.from = c.from, GoodCall(d),
         calls' \subseteq (calls \ {c}) \cup {d}, moves' \in 0..MaxMoves,
         UNCHANGED <<server, late, voided, url, active, page, polls, quotes, loads, mine, slipped>>
  PROVE  IInv'
<1>1. Alone'
  BY AloneKept DEF IInv
<1>2. calls' \subseteq Call /\ \A e \in calls' : GoodCall(e)
  BY DEF IInv, TypeOK, AskedInv
<1>3. /\ quotes' \subseteq Purchase /\ polls' \subseteq Check
      /\ \A q \in polls' : GoodCheck(q)
  BY DEF IInv, TypeOK, AskedInv
<1> QED BY <1>1, <1>2, <1>3, AskedStep
-----------------------------------------------------------------------------
(* Opening, reloading and leaving the page. *)
LEMMA ResumedPlaced ==
  ASSUME NEW u, NEW a, GoodUrl(u), a.id \in {0} \cup Placed
  PROVE  /\ Resumed(u, a) \in {0} \cup Placed
         /\ Asked(u) # 0 => Resumed(u, a) # 0
BY DEF Resumed, Asked, GoodUrl

LEMMA MountStep ==
  ASSUME CheckoutPageAssumption, IInv, NEW u \in Url, NEW a \in Kept, NEW cs \in SUBSET Call,
         GoodUrl(u), a.id \in {0} \cup Placed, \A c \in cs : GoodCall(c) /\ ~Own(c),
         Mounts(u, a, cs), UNCHANGED <<server, late, voided>>, polls' \subseteq polls,
         moves' \in 0..MaxMoves, loads' \in 0..MaxLoads, slipped' \in BOOLEAN, mine' \in 0..MaxOrders,
         mine' # 0 => slipped' \/ Asked(u) # 0
  PROVE  IInv'
<1> DEFINE o == Resumed(u, a)
           new == Send("restore", u, o, None)
<1>1. o \in {0} \cup Placed /\ (Asked(u) # 0 => o # 0)
  BY ResumedPlaced
<1>2. Placed \subseteq 1..MaxOrders /\ 0 \notin Placed
  BY DEF Placed, Order
<1>3. /\ url' = u /\ quotes' = {}
      /\ page' = [Mount EXCEPT !.plan = u.plan, !.at = IF o # 0 THEN "restoring" ELSE "form"]
      /\ active' = (IF o # 0 THEN a ELSE Nothing)
      /\ calls' = cs \cup (IF o # 0 THEN {new} ELSE {})
  BY DEF Mounts
<1> HIDE DEF o
<1>4. page' \in PageType /\ page'.order = None /\ page'.at \in {"restoring", "form"}
      /\ (o # 0 => page'.at = "restoring")
  BY <1>3 DEF Mount, PageType, Url
<1>5. o # 0 => /\ new \in Call /\ new.by = "page" /\ new.kind = "restore" /\ new.from = u /\ new.id = o
               /\ new.got = None /\ new.st = "sent"
  BY <1>1, <1>2 DEF Send, Call, CheckoutPageAssumption
<1> HIDE DEF new
<1>6. TypeOK'
  <2>1. active' \in Kept
    BY <1>3 DEF Nothing, Kept, CheckoutPageAssumption
  <2>2. calls' \subseteq Call
    BY <1>3, <1>5
  <2>3. page'.at = "invoice" <=> page'.order # None
    BY <1>4
  <2>4. polls' \subseteq Check /\ quotes' \subseteq Purchase
    BY <1>3 DEF IInv, TypeOK
  <2> QED BY <1>3, <1>4, <2>1, <2>2, <2>3, <2>4 DEF IInv, TypeOK, PageType, Kept
<1>7. RowInv'
  BY FitsKept DEF IInv, RowInv
<1>8. PageInv'
  BY <1>3, <1>4, GoodKept DEF PageInv, Nothing
<1>9. AskedInv'
  <2>1. o # 0 => GoodCall(new)
    BY <1>1, <1>5 DEF GoodCall, Answered
  <2>2. \A c \in calls' : GoodCall(c)
    BY <1>3, <2>1
  <2>3. \A q \in polls' : GoodCheck(q)
    BY DEF IInv, AskedInv
  <2> QED BY <2>2, <2>3, GoodKept DEF AskedInv
<1>10. Alone'
  <2>1. \A c \in calls' : Own(c) => o # 0 /\ c = new
    BY <1>3
  <2>2. o # 0 => page'.order = None /\ page'.at # "closed" /\ (new.from.order = 0 \/ Asked(u) # 0)
    BY <1>4, <1>5 DEF Asked
  <2> QED BY <1>3, <2>1, <2>2 DEF Alone, Own, First, Asked
<1>11. SavedIsOpen' /\ UrlInv'
  BY <1>1, <1>3, <1>4 DEF SavedIsOpen, UrlInv, Asked
<1> QED BY <1>6, <1>7, <1>8, <1>9, <1>10, <1>11 DEF IInv

(* What remains when the page is closed is none of its own. *)
LEMMA ClosedStep ==
  ASSUME CheckoutPageAssumption, IInv, page' = [Mount EXCEPT !.at = "closed"], url' = Bare, quotes' = {},
         mine' = 0, slipped' = FALSE, UNCHANGED <<server, late, voided, moves, active, loads>>,
         polls' \subseteq Check, \A q \in polls' : GoodCheck(q),
         calls' \subseteq Call, \A c \in calls' : GoodCall(c) /\ ~Own(c)
  PROVE  IInv'
<1>1. page' \in PageType /\ page'.order = None /\ page'.at = "closed"
  BY DEF Mount, PageType
<1>2. TypeOK'
  <2>1. url' \in Url /\ mine' \in 0..MaxOrders
    BY DEF Bare, Url, CheckoutPageAssumption
  <2> QED BY <1>1, <2>1 DEF IInv, TypeOK, PageType
<1>3. RowInv' /\ AskedInv'
  BY FitsKept, GoodKept DEF IInv, RowInv, AskedInv
<1>4. PageInv'
  BY <1>1, GoodKept DEF IInv, PageInv, GoodUrl, Bare
<1>5. Alone' /\ SavedIsOpen' /\ UrlInv'
  BY <1>1 DEF Alone, Own, First, SavedIsOpen, UrlInv
<1> QED BY <1>2, <1>3, <1>4, <1>5 DEF IInv

LEMMA UnheardGood ==
  ASSUME IInv
  PROVE  Unheard \subseteq Call /\ \A c \in Unheard : GoodCall(c) /\ ~Own(c)
<1> SUFFICES ASSUME NEW d \in calls PROVE LET c == [d EXCEPT !.by = "gone"] IN c \in Call /\ GoodCall(c) /\ ~Own(c)
  BY DEF Unheard
<1> DEFINE c == [d EXCEPT !.by = "gone"]
<1>1. d \in Call /\ GoodCall(d)
  BY DEF IInv, TypeOK, AskedInv
<1>2. c \in Call /\ c.by = "gone" /\ c.kind = d.kind /\ c.st = d.st /\ c.id = d.id /\ c.item = d.item /\ c.got = d.got
  BY <1>1 DEF Call
<1> HIDE DEF c
<1>3. GoodCall(c) /\ ~Own(c)
  BY <1>1, <1>2 DEF GoodCall, Answered, Own
<1> QED BY <1>2, <1>3 DEF c

LEMMA VisitStep ==
  ASSUME CheckoutPageAssumption, IInv, Arrive \/ Reload \/ Leave \/ Close
  PROVE  IInv'
<1> USE DEF serverVars, rows
<1>1. CASE Arrive
  <2>1. PICK u \in Links : Mounts(u, active, calls) /\ mine' = Asked(u)
    BY <1>1 DEF Arrive
  <2>2. u \in Url /\ GoodUrl(u)
    BY DEF Links, GoodUrl
  <2>3. active \in Kept /\ active.id \in {0} \cup Placed /\ calls \in SUBSET Call
    BY DEF IInv, TypeOK, PageInv, Kept
  <2>4. \A c \in calls : GoodCall(c) /\ ~Own(c)
    BY <1>1 DEF Arrive, IInv, AskedInv, Alone
  <2>5. Asked(u) \in 0..MaxOrders
    BY <2>2 DEF Asked, Url
  <2>6. loads' \in 0..MaxLoads /\ moves' \in 0..MaxMoves
    BY <1>1 DEF Arrive, IInv, TypeOK, CheckoutPageAssumption
  <2>7. slipped' = FALSE /\ polls' = polls /\ UNCHANGED <<server, late, voided>>
    BY <1>1 DEF Arrive
  <2>8. mine' \in 0..MaxOrders /\ (mine' # 0 => Asked(u) # 0)
    BY <2>1, <2>5
  <2> QED BY <2>1, <2>2, <2>3, <2>4, <2>6, <2>7, <2>8, MountStep
<1>2. CASE Reload
  <2>1. url \in Url /\ GoodUrl(url) /\ active \in Kept /\ active.id \in {0} \cup Placed
    BY DEF IInv, TypeOK, PageInv, Kept
  <2>2. Asked(url) \in 0..MaxOrders
    BY <2>1 DEF Asked, Url
  <2>3. Mounts(url, active, Unheard) /\ mine' = (IF mine # 0 THEN mine ELSE Asked(url)) /\ polls' = {}
        /\ UNCHANGED <<server, late, voided>>
    BY <1>2 DEF Reload
  <2>4. loads' \in 0..MaxLoads /\ moves' \in 0..MaxMoves /\ slipped' = slipped /\ slipped \in BOOLEAN
    BY <1>2 DEF Reload, IInv, TypeOK, CheckoutPageAssumption
  <2>5. mine' \in 0..MaxOrders /\ (mine' # 0 => slipped' \/ Asked(url) # 0)
    BY <2>2, <2>3, <2>4 DEF IInv, TypeOK, UrlInv
  <2> QED BY <2>1, <2>3, <2>4, <2>5, UnheardGood, MountStep
<1>3. CASE Leave
  <2>1. \A q \in polls' : \E r \in polls : q = [r EXCEPT !.by = "left"]
    BY <1>3 DEF Leave
  <2>2. polls' \subseteq Check /\ \A q \in polls' : GoodCheck(q)
    <3> SUFFICES ASSUME NEW q \in polls' PROVE q \in Check /\ GoodCheck(q)
      OBVIOUS
    <3>1. PICK r \in polls : q = [r EXCEPT !.by = "left"]
      BY <2>1
    <3>2. r \in Check /\ GoodCheck(r)
      BY DEF IInv, TypeOK, AskedInv
    <3>3. q \in Check /\ q.id = r.id /\ q.got = r.got
      BY <3>1, <3>2 DEF Check
    <3> QED BY <3>2, <3>3 DEF GoodCheck
  <2>3. \A c \in calls' : \E d \in calls : \E b \in {"left", "gone", d.by} :
          c = [d EXCEPT !.by = b] /\ (d.by = "page" => b # "page")
    BY <1>3 DEF Leave
  <2>4. calls' \subseteq Call /\ \A c \in calls' : GoodCall(c) /\ ~Own(c)
    <3> SUFFICES ASSUME NEW c \in calls' PROVE c \in Call /\ GoodCall(c) /\ ~Own(c)
      OBVIOUS
    <3>1. PICK d \in calls : \E b \in {"left", "gone", d.by} : c = [d EXCEPT !.by = b] /\ (d.by = "page" => b # "page")
      BY <2>3
    <3>2. PICK b \in {"left", "gone", d.by} : c = [d EXCEPT !.by = b] /\ (d.by = "page" => b # "page")
      BY <3>1
    <3>3. d \in Call /\ GoodCall(d)
      BY DEF IInv, TypeOK, AskedInv
    <3>4. b \in {"left", "gone"}
      BY <3>2, <3>3 DEF Call
    <3>5. /\ c \in Call /\ c.by = b /\ c.kind = d.kind /\ c.st = d.st /\ c.id = d.id
          /\ c.item = d.item /\ c.got = d.got
      BY <3>2, <3>3, <3>4 DEF Call
    <3> QED BY <3>3, <3>4, <3>5 DEF GoodCall, Answered, Own
  <2> QED BY <1>3, <2>2, <2>4, ClosedStep DEF Leave
<1>4. CASE Close
  BY <1>4, UnheardGood, ClosedStep DEF Close
<1> QED BY <1>1, <1>2, <1>3, <1>4
-----------------------------------------------------------------------------
(* Answers that are shown, at the page or at one that was left. *)
LEMMA RetargetType ==
  ASSUME NEW p \in PageType, NEW u, NEW q, q = Retargeted(p, u)
  PROVE  q \in PageType /\ q.at = p.at /\ q.plan = p.plan /\ q.order = p.order /\ q.visible = p.visible
BY DEF Retargeted, PageType

LEMMA KeptType ==
  ASSUME CheckoutPageAssumption, IInv, NEW c \in calls, NEW a, a = Cleared(c.id) \/ (Answered(c) /\ a = KeptBy(c))
  PROVE  /\ a \in Kept /\ a.id \in {0} \cup Placed
         /\ a = active \/ a = Nothing \/ (a.relic <=> c.by = "left")
         /\ c.id # 0 /\ a.id = c.id => Answered(c) /\ c.got.status = "pending_payment"
<1>1. active \in Kept /\ active.id \in {0} \cup Placed /\ c \in Call /\ GoodCall(c)
  BY DEF IInv, TypeOK, PageInv, AskedInv, Kept
<1>2. Nothing \in Kept /\ Nothing.id = 0
  BY DEF Nothing, Kept, CheckoutPageAssumption
<1>3. CASE a = Cleared(c.id)
  BY <1>1, <1>2, <1>3 DEF Cleared
<1>4. CASE Answered(c) /\ a = KeptBy(c) /\ c.got.status = "pending_payment"
  <2>1. c.id \in Placed /\ c.id \in 0..MaxOrders
    BY <1>1, <1>4 DEF GoodCall, Answered, Call
  <2>2. a = [id |-> c.id, relic |-> c.by = "left"]
    BY <1>4 DEF KeptBy
  <2>3. a.id = c.id /\ (a.relic <=> c.by = "left") /\ a.relic \in BOOLEAN
    BY <2>2, Zenon
  <2>4. a \in Kept
    BY <2>1, <2>2 DEF Kept
  <2> QED BY <1>4, <2>1, <2>3, <2>4
<1>5. CASE Answered(c) /\ a = KeptBy(c) /\ c.got.status # "pending_payment"
  BY <1>1, <1>2, <1>5 DEF Cleared, KeptBy
<1> QED BY <1>3, <1>4, <1>5

(* Only what the page shows and remembers changes. *)
LEMMA PageStep ==
  ASSUME CheckoutPageAssumption, IInv, UNCHANGED <<server, late, voided>>,
         polls' \subseteq Check, \A q \in polls' : GoodCheck(q),
         calls' \subseteq calls, moves' \in 0..MaxMoves, loads' \in 0..MaxLoads, slipped' \in BOOLEAN,
         mine' \in 0..MaxOrders, quotes' \subseteq Purchase,
         page' \in PageType, page'.at = "invoice" <=> page'.order # None,
         page'.order # None => server[page'.order.id] # None /\ Fits(page'.order.id, page'.order.row),
         url' \in Url, GoodUrl(url'), active' \in Kept, active'.id \in {0} \cup Placed,
         Alone', SavedIsOpen', UrlInv'
  PROVE  IInv'
<1>1. TypeOK'
  <2>1. calls' \subseteq Call
    BY DEF IInv, TypeOK
  <2>2. server' \in [Order -> Row \cup {None}] /\ late' \subseteq Order /\ voided' \subseteq Order
    BY DEF IInv, TypeOK
  <2> QED BY <2>1, <2>2 DEF TypeOK, PageType, Kept
<1>2. RowInv' /\ AskedInv'
  BY FitsKept, GoodKept DEF IInv, RowInv, AskedInv
<1>3. PageInv'
  BY FitsKept, GoodKept DEF PageInv
<1> QED BY <1>1, <1>2, <1>3 DEF IInv

LEMMA ShowStep ==
  ASSUME CheckoutPageAssumption, IInv, NEW c \in calls, ShowOrder(c)
  PROVE  IInv'
<1> DEFINE o == c.id
           held == [id |-> o, row |-> c.got]
<1>u. PICK u : u = IF Pins(c) THEN At(o) ELSE url
  OBVIOUS
<1>1. /\ Own(c) /\ Answered(c) /\ c \in Call /\ GoodCall(c) /\ url' = u
      /\ page' = Retargeted([page EXCEPT !.at = "invoice", !.order = held], u)
      /\ active' = KeptBy(c) /\ mine' = (IF c.kind = "name" THEN mine ELSE o)
      /\ slipped' = (slipped /\ ~Pins(c)) /\ calls' = calls \ {c}
      /\ UNCHANGED <<server, late, voided, moves, polls, quotes, loads>>
  BY <1>u DEF ShowOrder, Own, IInv, TypeOK, AskedInv, serverVars, rows
<1>2. o \in Placed /\ o \in Order /\ o # 0 /\ c.got \in Row /\ Fits(o, c.got) /\ o \in 0..MaxOrders
  BY <1>1 DEF GoodCall, Answered, Placed, Order, Call
<1>3. held \in Held /\ held # None /\ held.id = o /\ held.row = c.got
  BY <1>2 DEF Held, CheckoutPageAssumption
<1> HIDE DEF held, o
<1>4. page' \in PageType /\ page'.at = "invoice" /\ page'.order = held
  <2>1. [page EXCEPT !.at = "invoice", !.order = held] \in PageType
        /\ [page EXCEPT !.at = "invoice", !.order = held].at = "invoice"
        /\ [page EXCEPT !.at = "invoice", !.order = held].order = held
    BY <1>3 DEF IInv, TypeOK, PageType
  <2> QED BY <1>1, <2>1, RetargetType
<1>5. url' \in Url /\ GoodUrl(url') /\ (Pins(c) => Asked(url') # 0) /\ (~Pins(c) => url' = url)
  <2>1. CASE Pins(c)
    BY <1>u, <1>1, <1>2, <2>1 DEF At, Bare, Url, GoodUrl, Asked, CheckoutPageAssumption
  <2>2. CASE ~Pins(c)
    BY <1>u, <1>1, <2>2 DEF IInv, TypeOK, PageInv
  <2> QED BY <2>1, <2>2
<1>6. /\ active' \in Kept /\ active'.id \in {0} \cup Placed
      /\ active'.id = o => c.got.status = "pending_payment"
  BY <1>1, <1>2, KeptType DEF o
<1>7. SavedIsOpen'
  BY <1>3, <1>4, <1>6 DEF SavedIsOpen, Shown
<1>8. Alone'
  BY <1>1 DEF Alone, Own, First, IInv
<1>9. UrlInv'
  <2>1. CASE Pins(c)
    BY <1>4, <1>5, <2>1 DEF UrlInv, Asked
  <2>2. CASE ~Pins(c) /\ c.kind # "name"
    <3>1. First(c) /\ c.from.order # 0
      BY <1>1, <1>2, <2>2 DEF First, Own, Pins, Answered, Call, o
    <3>2. slipped \/ Asked(url) # 0
      BY <3>1 DEF IInv, Alone
    <3> QED BY <1>1, <1>4, <1>5, <2>2, <3>2 DEF UrlInv, Asked
  <2>3. CASE ~Pins(c) /\ c.kind = "name"
    BY <1>1, <1>4, <1>5, <2>3 DEF UrlInv, Asked, IInv
  <2> QED BY <2>1, <2>2, <2>3
<1>10. /\ polls' \subseteq Check /\ quotes' \subseteq Purchase /\ \A q \in polls' : GoodCheck(q)
       /\ moves' \in 0..MaxMoves /\ loads' \in 0..MaxLoads /\ slipped' \in BOOLEAN /\ mine' \in 0..MaxOrders
  BY <1>1, <1>2 DEF IInv, TypeOK, AskedInv
<1>11. page'.order # None => server[page'.order.id] # None /\ Fits(page'.order.id, page'.order.row)
  BY <1>2, <1>3, <1>4 DEF Placed
<1> QED BY <1>1, <1>3, <1>4, <1>5, <1>6, <1>7, <1>8, <1>9, <1>10, <1>11, PageStep

(* An answer of a page that was left: u is where it leads, a what it remembers. *)
LEMMA ReturnStep ==
  ASSUME CheckoutPageAssumption, IInv, NEW c \in calls, ~Own(c), NEW u \in Url, GoodUrl(u), NEW a \in Kept,
         a.id \in {0} \cup Placed, a = active \/ a = Nothing \/ a.relic, Returns(c, u, a) \/ Stays(c, a),
         UNCHANGED <<server, late, voided, moves, polls, loads>>, slipped' \in BOOLEAN,
         page.at # "closed" => slipped' \/ (slipped' = slipped /\ (Stays(c, a) \/ Asked(u) # 0))
  PROVE  IInv'
<1>1. loads' \in 0..MaxLoads /\ moves' \in 0..MaxMoves /\ calls \ {c} \in SUBSET Call
      /\ \A d \in calls \ {c} : GoodCall(d)
  BY DEF IInv, TypeOK, AskedInv
<1>2. CASE page.at = "closed" /\ Returns(c, u, a)
  <2>1. Mounts(u, a, calls \ {c}) /\ mine' = Asked(u)
    BY <1>2 DEF Returns
  <2>2. \A d \in calls \ {c} : ~Own(d)
    BY <1>2 DEF IInv, Alone
  <2>3. Asked(u) \in 0..MaxOrders
    BY DEF Asked, Url
  <2> QED BY <1>1, <2>1, <2>2, <2>3, MountStep
<1>3. CASE Stays(c, a) \/ page.at # "closed"
  <2>1. page \in PageType /\ url \in Url /\ GoodUrl(url) /\ slipped \in BOOLEAN /\ mine \in 0..MaxOrders
        /\ (page.at = "invoice" <=> page.order # None)
    BY DEF IInv, TypeOK, PageInv, PageType
  <2>2. /\ page' = page \/ page' = Retargeted(page, u)
        /\ active' = a /\ calls' = calls \ {c} /\ UNCHANGED <<quotes, mine>>
        /\ url' = u \/ (Stays(c, a) /\ url' = url)
    BY <1>3 DEF Returns, Stays
  <2>3. page' \in PageType /\ page'.at = page.at /\ page'.order = page.order
    BY <2>1, <2>2, RetargetType
  <2>4. SavedIsOpen'
    <3>1. CASE a = active
      BY <2>2, <2>3, <3>1 DEF IInv, SavedIsOpen, Shown
    <3>2. CASE a = Nothing
      <4>1. page.order # None => page.order.id # 0
        BY <2>1 DEF PageType, Held, Order
      <4> QED BY <2>1, <2>2, <2>3, <3>2, <4>1 DEF SavedIsOpen, Nothing
    <3>3. CASE a.relic
      BY <2>2, <3>3 DEF SavedIsOpen
    <3> QED BY <3>1, <3>2, <3>3
  <2>5. CASE page.at = "closed"
    <3>1. mine = 0 /\ \A d \in calls : ~Own(d)
      BY <2>5 DEF IInv, UrlInv, Alone
    <3>2. Alone' /\ UrlInv'
      BY <2>2, <2>3, <2>5, <3>1 DEF Alone, Own, First, UrlInv
    <3>3. quotes' \subseteq Purchase /\ polls' \subseteq Check /\ \A q \in polls' : GoodCheck(q)
      BY <2>2 DEF IInv, TypeOK, AskedInv
    <3> QED BY <1>1, <2>1, <2>2, <2>3, <2>4, <3>2, <3>3, PageStep DEF IInv, PageInv
  <2>6. CASE page.at # "closed"
    <3>1. slipped' \/ (slipped' = slipped /\ (url' = url \/ Asked(url') # 0))
      BY <2>2, <2>6 DEF Asked, Stays
    <3>2. Alone'
      <4>1. \A d \in calls : First(d) => page.order = None /\ (d.from.order = 0 \/ slipped \/ Asked(url) # 0)
        BY DEF IInv, Alone
      <4>2. \A d \in calls' : First(d) => page'.order = None /\ (d.from.order = 0 \/ slipped' \/ Asked(url') # 0)
        BY <2>2, <2>3, <3>1, <4>1
      <4>3. \A d, e \in calls' : Own(d) /\ Own(e) => d = e
        BY <2>2 DEF IInv, Alone
      <4> QED BY <2>3, <2>6, <4>2, <4>3 DEF Alone, Own, First, Asked
    <3>3. UrlInv'
      BY <2>2, <2>3, <2>6, <3>1 DEF IInv, UrlInv, Asked
    <3>4. quotes' \subseteq Purchase /\ polls' \subseteq Check /\ \A q \in polls' : GoodCheck(q)
      BY <2>2 DEF IInv, TypeOK, AskedInv
    <3> QED BY <1>1, <2>1, <2>2, <2>3, <2>4, <3>2, <3>3, <3>4, PageStep DEF IInv, PageInv
  <2> QED BY <2>5, <2>6
<1> QED BY <1>2, <1>3

LEMMA LeftStep ==
  ASSUME CheckoutPageAssumption, IInv, NEW c \in calls, ShowOrderLeft(c)
  PROVE  IInv'
<1>1. /\ c.by = "left" /\ ~Own(c) /\ Answered(c) /\ c \in Call /\ GoodCall(c)
      /\ UNCHANGED <<server, late, voided, moves, polls, loads>> /\ slipped' = slipped /\ slipped \in BOOLEAN
  BY DEF ShowOrderLeft, Own, IInv, TypeOK, AskedInv, serverVars, rows
<1>2. c.id \in Placed /\ c.id \in 0..MaxOrders /\ c.id # 0
  BY <1>1 DEF GoodCall, Answered, Placed, Order, Call
<1>3. PICK a : a = KeptBy(c)
  OBVIOUS
<1>4. a \in Kept /\ a.id \in {0} \cup Placed /\ (a = active \/ a = Nothing \/ a.relic)
  BY <1>1, <1>3, KeptType
<1>5. PICK u : u = At(c.id)
  OBVIOUS
<1>6. u \in Url /\ GoodUrl(u) /\ Asked(u) # 0
  BY <1>2, <1>5 DEF At, Bare, Url, GoodUrl, Asked, CheckoutPageAssumption
<1>7. Returns(c, u, a) \/ Stays(c, a)
  BY <1>3, <1>5 DEF ShowOrderLeft
<1> QED BY <1>1, <1>4, <1>6, <1>7, ReturnStep

LEMMA RestoreStep ==
  ASSUME CheckoutPageAssumption, IInv, NEW c \in calls, RestoreFails(c)
  PROVE  IInv'
<1>1. /\ c \in Call /\ GoodCall(c) /\ c.kind = "restore" /\ c.id \in Placed /\ c.id # 0
      /\ UNCHANGED <<server, late, voided, moves, polls, loads>> /\ slipped' = (page.at # "closed")
  <2>1. c \in Call /\ GoodCall(c)
    BY DEF IInv, TypeOK, AskedInv
  <2> QED BY <2>1 DEF RestoreFails, GoodCall, Placed, Order, serverVars, rows
<1>2. PICK u : u = [c.from EXCEPT !.order = 0, !.resume = 0]
  OBVIOUS
<1>3. u \in Url /\ GoodUrl(u)
  <2>1. c.from \in Url /\ 0 \in 0..MaxOrders
    BY <1>1 DEF Call, CheckoutPageAssumption
  <2>2. u \in Url /\ u.order = 0 /\ u.resume = 0
    BY <1>2, <2>1 DEF Url
  <2> QED BY <2>2 DEF GoodUrl
<1>4. PICK a : a = Cleared(c.id)
  OBVIOUS
<1>5. a \in Kept /\ a.id \in {0} \cup Placed /\ (a = active \/ a = Nothing)
  BY <1>4, KeptType DEF Cleared
<1>6. CASE c.by = "left"
  <2>1. Returns(c, u, a) \/ Stays(c, a)
    BY <1>2, <1>4, <1>6 DEF RestoreFails
  <2>2. ~Own(c)
    BY <1>6 DEF Own
  <2> QED BY <1>1, <1>3, <1>5, <2>1, <2>2, ReturnStep
<1>7. CASE c.by = "page"
  <2>1. /\ active' = a /\ calls' = calls \ {c} /\ url' \in {u, url} /\ UNCHANGED <<quotes, mine>>
        /\ page' = Retargeted([page EXCEPT !.at = "form"], url')
    BY <1>2, <1>4, <1>7 DEF RestoreFails
  <2>2. page.at # "closed" /\ page.order = None /\ page \in PageType
    BY <1>1, <1>7 DEF IInv, Alone, Own, First, TypeOK, PageType
  <2>3. [page EXCEPT !.at = "form"] \in PageType /\ [page EXCEPT !.at = "form"].at = "form"
        /\ [page EXCEPT !.at = "form"].order = None
    BY <2>2 DEF PageType
  <2>4. page' \in PageType /\ page'.at = "form" /\ page'.order = None
    BY <2>1, <2>3, RetargetType
  <2>5. slipped' = TRUE
    BY <1>1, <2>2
  <2>6. Alone'
    BY <1>7, <2>1 DEF IInv, Alone, Own, First
  <2>7. SavedIsOpen' /\ UrlInv'
    BY <2>4, <2>5 DEF SavedIsOpen, UrlInv
  <2>8. url' \in Url /\ GoodUrl(url')
    BY <1>3, <2>1 DEF IInv, TypeOK, PageInv
  <2>9. /\ polls' \subseteq Check /\ quotes' \subseteq Purchase /\ \A q \in polls' : GoodCheck(q)
        /\ moves' \in 0..MaxMoves /\ loads' \in 0..MaxLoads /\ mine' \in 0..MaxOrders
    BY <1>1, <2>1 DEF IInv, TypeOK, AskedInv
  <2> QED BY <1>1, <1>5, <2>1, <2>4, <2>5, <2>6, <2>7, <2>8, <2>9, PageStep
<1> QED BY <1>6, <1>7 DEF RestoreFails
-----------------------------------------------------------------------------
(* A call is read, refused or lost, or its refusal is shown. *)
LEMMA AnswerStep ==
  ASSUME CheckoutPageAssumption, IInv, NEW c \in calls,
         OrderRead(c) \/ ReceiptChecked(c) \/ Refused(c) \/ CallLost(c) \/ PostRefused(c)
  PROVE  IInv'
<1>1. c \in Call /\ GoodCall(c) /\ moves \in 0..MaxMoves
  BY DEF IInv, TypeOK, AskedInv
<1>2. CASE OrderRead(c)
  <2> DEFINE d == [c EXCEPT !.st = "done", !.got = server[c.id]]
  <2>1. c.id \in Placed /\ server[c.id] \in Row /\ server[c.id] # None /\ Fits(c.id, server[c.id])
    BY <1>1, <1>2 DEF OrderRead, GoodCall, Placed, IInv, TypeOK, RowInv
  <2>2. /\ d \in Call /\ d.by = c.by /\ d.kind = c.kind /\ d.from = c.from /\ d.id = c.id /\ d.st = "done"
        /\ d.got = server[c.id] /\ d.item = c.item
    BY <1>1, <2>1 DEF Call
  <2>3. calls' \subseteq (calls \ {c}) \cup {d}
        /\ UNCHANGED <<server, late, voided, url, active, page, polls, quotes, loads, mine, slipped, moves>>
    BY <1>2 DEF OrderRead, Answer, serverVars, rows, told
  <2> HIDE DEF d
  <2>4. GoodCall(d)
    BY <1>1, <2>1, <2>2 DEF GoodCall, Answered
  <2> QED BY <1>1, <2>2, <2>3, <2>4, CallStep
<1>3. CASE ReceiptChecked(c) \/ Refused(c) \/ CallLost(c)
  <2>1. PICK d : /\ \/ d = [c EXCEPT !.st = "read"] /\ c.kind = "receipt"
                    \/ d = [c EXCEPT !.st = "refused"]
                    \/ d = [c EXCEPT !.st = "refused", !.got = None]
                 /\ calls' \subseteq (calls \ {c}) \cup {d} /\ moves' \in 0..MaxMoves
                 /\ UNCHANGED <<server, late, voided, url, active, page, polls, quotes, loads, mine, slipped>>
    <3>1. CASE ReceiptChecked(c)
      BY <1>1, <3>1 DEF ReceiptChecked, serverVars, rows, told
    <3>2. CASE Refused(c)
      BY <1>1, <3>2 DEF Refused, Answer, serverVars, rows, told
    <3>3. CASE CallLost(c)
      BY <1>1, <3>3 DEF CallLost, Answer, rows, told, CheckoutPageAssumption
    <3> QED BY <1>3, <3>1, <3>2, <3>3
  <2>2. /\ d \in Call /\ d.by = c.by /\ d.kind = c.kind /\ d.from = c.from /\ d.id = c.id /\ d.item = c.item
        /\ d.st = "refused" \/ (d.st = "read" /\ d.kind = "receipt")
        /\ d.got = c.got \/ d.got = None
    BY <1>1, <2>1 DEF Call
  <2>3. GoodCall(d)
    BY <1>1, <2>2 DEF GoodCall, Answered
  <2> QED BY <2>1, <2>2, <2>3, CallStep
<1>4. CASE PostRefused(c)
  <2>1. calls' \subseteq (calls \ {c}) \cup {c}
        /\ UNCHANGED <<server, late, voided, url, active, page, polls, quotes, loads, mine, slipped, moves>>
    BY <1>4 DEF PostRefused, serverVars, rows, told
  <2> QED BY <1>1, <2>1, CallStep
<1> QED BY <1>2, <1>3, <1>4

(* The page sends a call of its own. *)
LEMMA SendStep ==
  ASSUME CheckoutPageAssumption, IInv, ~Busy, NEW c \in Call, GoodCall(c), page.at # "closed",
         First(c) => page.order = None /\ c.from = url, calls' = calls \cup {c},
         UNCHANGED <<server, late, voided, moves, url, active, page, polls, quotes, loads, mine, slipped>>
  PROVE  IInv'
<1>1. \A d \in calls : ~Own(d)
  BY DEF Busy, Own
<1>2. \A d \in calls' : Own(d) => d = c
  BY <1>1
<1>3. \A d, e \in calls' : Own(d) /\ Own(e) => d = e
  BY <1>2
<1>4. \A d \in calls' : First(d) => d = c
  BY <1>2 DEF First
<1>5. First(c) => c.from.order = 0 \/ Asked(url) # 0
  BY DEF Asked
<1>6. \A d \in calls' : First(d) => page.order = None /\ (d.from.order = 0 \/ slipped \/ Asked(url) # 0)
  BY <1>4, <1>5
<1>7. Alone'
  BY <1>3, <1>6 DEF Alone, Own, First, Asked
<1>8. calls' \subseteq Call /\ \A d \in calls' : GoodCall(d)
  BY DEF IInv, TypeOK, AskedInv
<1>9. /\ polls' \subseteq Check /\ quotes' \subseteq Purchase /\ moves' \in 0..MaxMoves
      /\ \A q \in polls' : GoodCheck(q)
  BY DEF IInv, TypeOK, AskedInv
<1> QED BY <1>7, <1>8, <1>9, AskedStep

LEMMA SendsStep ==
  ASSUME CheckoutPageAssumption, IInv, CreateOrder \/ UploadReceipt \/ SendNewName
  PROVE  IInv'
<1>1. page \in PageType /\ (page.at = "invoice" <=> page.order # None) /\ url \in Url
  BY DEF IInv, TypeOK, PageType
<1>2. 0 \in 0..MaxOrders
  BY DEF CheckoutPageAssumption
<1>3. CASE CreateOrder
  <2> DEFINE c == Send("create", url, 0, Wanted)
  <2>1. Wanted \in Purchase /\ Wanted # None
    <3>1. Wanted \in Purchase
      BY <1>1, <1>3 DEF CreateOrder, Wanted, Purchase, PageType, Url
    <3> QED BY <3>1 DEF CheckoutPageAssumption
  <2> HIDE DEF Wanted
  <2>2. /\ c \in Call /\ c.kind = "create" /\ c.from = url /\ c.item = Wanted /\ c.st = "sent" /\ c.got = None
    BY <1>1, <1>2, <2>1 DEF Send, Call
  <2>3. page.at = "form" /\ page.order = None /\ ~Busy /\ calls' = calls \cup {c}
        /\ UNCHANGED <<server, late, voided, moves, url, active, page, polls, quotes, loads, mine, slipped>>
    BY <1>1, <1>3 DEF CreateOrder, serverVars, rows, told
  <2> HIDE DEF c
  <2>4. GoodCall(c)
    BY <2>1, <2>2 DEF GoodCall, Answered
  <2> QED BY <2>2, <2>3, <2>4, SendStep
<1>4. CASE UploadReceipt \/ SendNewName
  <2>1. PICK k \in {"receipt", "name"} : calls' = calls \cup {Send(k, url, page.order.id, None)}
    BY <1>4 DEF UploadReceipt, SendNewName
  <2> DEFINE c == Send(k, url, page.order.id, None)
  <2>2. page.at = "invoice" /\ page.order # None /\ ~Busy
        /\ UNCHANGED <<server, late, voided, moves, url, active, page, polls, quotes, loads, mine, slipped>>
    BY <1>1, <1>4 DEF UploadReceipt, SendNewName, serverVars, rows, told
  <2>3. page.order.id \in Order /\ page.order.id \in Placed /\ page.order.id \in 0..MaxOrders
    BY <1>1, <2>2 DEF PageType, Held, IInv, PageInv, Placed, Order, CheckoutPageAssumption
  <2>4. c \in Call /\ c.kind = k /\ c.id = page.order.id /\ c.st = "sent" /\ c.got = None
    BY <1>1, <2>3 DEF Send, Call
  <2>5. calls' = calls \cup {c}
    BY <2>1
  <2> HIDE DEF c
  <2>6. GoodCall(c) /\ ~First(c)
    BY <2>3, <2>4 DEF GoodCall, Answered, First
  <2> QED BY <2>2, <2>4, <2>5, <2>6, SendStep
<1> QED BY <1>3, <1>4
-----------------------------------------------------------------------------
(* The form: choosing, quotes, starting over. *)
LEMMA FormStep ==
  ASSUME CheckoutPageAssumption, IInv,
         \/ \E p \in Plan : Choose(p)
         \/ \E p \in quotes : QuoteArrives(p)
         \/ ApplyCode \/ StartOver
  PROVE  IInv'
<1>1. /\ page \in PageType /\ (page.at = "invoice" <=> page.order # None) /\ url \in Url /\ GoodUrl(url)
      /\ active \in Kept /\ active.id \in {0} \cup Placed /\ polls \subseteq Check /\ quotes \subseteq Purchase
      /\ moves \in 0..MaxMoves /\ loads \in 0..MaxLoads /\ slipped \in BOOLEAN /\ mine \in 0..MaxOrders
      /\ page.order # None => server[page.order.id] # None /\ Fits(page.order.id, page.order.row)
  BY DEF IInv, TypeOK, PageInv, PageType, Kept
<1>2. \A q \in polls : GoodCheck(q)
  BY DEF IInv, AskedInv
<1>3. CASE (\E p \in Plan : Choose(p)) \/ (\E p \in quotes : QuoteArrives(p))
  <2>1. /\ UNCHANGED <<server, late, voided, moves, url, active, polls, calls, loads, mine, slipped>>
        /\ quotes' \subseteq quotes
        /\ \/ \E p \in Plan : page' = [page EXCEPT !.plan = p, !.quote = None]
           \/ \E p \in quotes \cup {None} : page' = [page EXCEPT !.quote = p]
    BY <1>3 DEF Choose, QuoteArrives, serverVars, rows, told
  <2>2. page' \in PageType /\ page'.order = page.order /\ page'.at = page.at
    BY <1>1, <2>1 DEF PageType
  <2>3. SavedIsOpen' /\ UrlInv' /\ Alone'
    BY <2>1, <2>2 DEF IInv, SavedIsOpen, Shown, UrlInv, Asked, Alone, Own, First
  <2>4. quotes' \subseteq Purchase /\ calls' \subseteq calls
    BY <1>1, <2>1
  <2> QED BY <1>1, <1>2, <2>1, <2>2, <2>3, <2>4, PageStep
<1>4. CASE ApplyCode
  <2>1. Wanted \in Purchase
    BY <1>1, <1>4 DEF ApplyCode, Wanted, Purchase, PageType, Url
  <2>2. UNCHANGED <<server, late, voided, moves, url, active, page, polls, calls, loads, mine, slipped>>
        /\ quotes' \subseteq Purchase
    BY <1>1, <1>4, <2>1 DEF ApplyCode, serverVars, rows, told
  <2>3. Alone' /\ calls' \subseteq Call /\ \A c \in calls' : GoodCall(c)
    BY <2>2, AloneFewer DEF IInv, TypeOK, AskedInv
  <2> QED BY <1>1, <1>2, <2>2, <2>3, AskedStep
<1>5. CASE StartOver
  <2>1. page.order \in Held /\ page.order # None /\ page.order.row.item \in Purchase
    BY <1>1, <1>5 DEF StartOver, PageType, Held, Row
  <2>2. PICK u : u = [Bare EXCEPT !.plan = page.order.row.item.plan, !.renew = page.order.row.item.renew]
    OBVIOUS
  <2>3. u \in Url /\ GoodUrl(u) /\ u.plan \in Plan
    <3>1. page.order.row.item.plan \in Plan /\ page.order.row.item.renew \in Service \cup {None}
      BY <2>1 DEF Purchase
    <3>2. /\ u.order = 0 /\ u.resume = 0 /\ u.plan = page.order.row.item.plan
          /\ u = [order |-> 0, resume |-> 0, plan |-> page.order.row.item.plan, renew |-> page.order.row.item.renew]
      BY <2>2 DEF Bare
    <3>3. u \in Url
      BY <3>1, <3>2 DEF Url, CheckoutPageAssumption
    <3> QED BY <3>1, <3>2, <3>3 DEF GoodUrl
  <2>4. /\ UNCHANGED <<server, late, voided, moves, polls, quotes, calls, loads>>
        /\ active' \in {active, Nothing} /\ url' = u /\ mine' = 0 /\ slipped' = FALSE
        /\ page' = Retargeted([page EXCEPT !.at = "form", !.order = None, !.plan = u.plan], u)
    BY <1>5, <2>2 DEF StartOver, Cleared, Shown, serverVars, rows
  <2>5. [page EXCEPT !.at = "form", !.order = None, !.plan = u.plan] \in PageType
        /\ [page EXCEPT !.at = "form", !.order = None, !.plan = u.plan].at = "form"
        /\ [page EXCEPT !.at = "form", !.order = None, !.plan = u.plan].order = None
    BY <1>1, <2>3 DEF PageType
  <2>6. page' \in PageType /\ page'.at = "form" /\ page'.order = None
    BY <2>4, <2>5, RetargetType
  <2>7. Nothing \in Kept /\ Nothing.id = 0 /\ 0 \in 0..MaxOrders
    BY DEF Nothing, Kept, CheckoutPageAssumption
  <2>8. \A c \in calls : ~First(c)
    BY <2>1 DEF IInv, Alone
  <2>9. Alone'
    BY <2>4, <2>6, <2>8 DEF IInv, Alone, Own, First
  <2>10. SavedIsOpen' /\ UrlInv'
    BY <2>4, <2>6 DEF SavedIsOpen, UrlInv
  <2>11. active' \in Kept /\ active'.id \in {0} \cup Placed
    BY <1>1, <2>4, <2>7
  <2>12. mine' \in 0..MaxOrders /\ slipped' \in BOOLEAN /\ calls' \subseteq calls
    BY <2>4, <2>7
  <2>13. url' \in Url /\ GoodUrl(url') /\ quotes' \subseteq Purchase
    BY <1>1, <2>3, <2>4
  <2> QED BY <1>1, <1>2, <2>4, <2>6, <2>9, <2>10, <2>11, <2>12, <2>13, PageStep
<1> QED BY <1>3, <1>4, <1>5
-----------------------------------------------------------------------------
(* Re-checking the order: answers of any age arrive in any order. *)
LEMMA CheckGood ==
  ASSUME IInv, page.order # None
  PROVE  Recheck \in Check /\ GoodCheck(Recheck)
BY DEF IInv, TypeOK, PageInv, Recheck, Check, Held, GoodCheck

LEMMA PollStep ==
  ASSUME CheckoutPageAssumption, IInv,
         \/ Poll \/ Hide \/ Show
         \/ \E q \in polls : PollRead(q) \/ PollArrives(q) \/ PollLost(q)
         \/ \E c \in calls : ReceiptAnswered(c)
  PROVE  IInv'
<1>1. /\ page \in PageType /\ (page.at = "invoice" <=> page.order # None) /\ url \in Url /\ GoodUrl(url)
      /\ active \in Kept /\ active.id \in {0} \cup Placed /\ polls \subseteq Check /\ quotes \subseteq Purchase
      /\ moves \in 0..MaxMoves /\ loads \in 0..MaxLoads /\ slipped \in BOOLEAN /\ mine \in 0..MaxOrders
      /\ page.order # None => server[page.order.id] # None /\ Fits(page.order.id, page.order.row)
  BY DEF IInv, TypeOK, PageInv, PageType, Kept
<1>2. (\A q \in polls : GoodCheck(q)) /\ calls \subseteq Call /\ \A c \in calls : GoodCall(c)
  BY DEF IInv, TypeOK, AskedInv
<1>3. CASE Poll
  <2>1. UNCHANGED <<server, late, voided, moves, url, active, page, quotes, calls, loads, mine, slipped>>
        /\ polls' \subseteq polls \cup {Recheck} /\ page.order # None
    BY <1>1, <1>3 DEF Poll, Ask, serverVars, rows, told
  <2>2. polls' \subseteq Check /\ \A q \in polls' : GoodCheck(q)
    BY <1>1, <1>2, <2>1, CheckGood
  <2>3. Alone'
    BY <2>1, AloneFewer DEF IInv
  <2> QED BY <1>1, <1>2, <2>1, <2>2, <2>3, AskedStep
<1>4. CASE Hide \/ Show
  <2>1. /\ UNCHANGED <<server, late, voided, moves, url, active, quotes, calls, loads, mine, slipped>>
        /\ polls' \subseteq polls \cup {Recheck} /\ page.order # None
        /\ \E b \in BOOLEAN : page' = [page EXCEPT !.visible = b]
    BY <1>1, <1>4 DEF Hide, Show, Ask, serverVars, rows, told
  <2>2. polls' \subseteq Check /\ \A q \in polls' : GoodCheck(q)
    BY <1>1, <1>2, <2>1, CheckGood
  <2>3. page' \in PageType /\ page'.order = page.order /\ page'.at = page.at
    BY <1>1, <2>1 DEF PageType
  <2>4. SavedIsOpen' /\ UrlInv' /\ Alone'
    BY <2>1, <2>3 DEF IInv, SavedIsOpen, Shown, UrlInv, Asked, Alone, Own, First
  <2> QED BY <1>1, <2>1, <2>2, <2>3, <2>4, PageStep
<1>5. ASSUME NEW q \in polls, PollRead(q) \/ PollLost(q) PROVE IInv'
  <2> DEFINE r == [q EXCEPT !.got = server[q.id]]
  <2>1. q \in Check /\ server[q.id] # None /\ server[q.id] \in Row /\ Fits(q.id, server[q.id])
    BY <1>1, <1>2 DEF GoodCheck, Check, IInv, TypeOK, RowInv
  <2>2. r \in Check /\ r.id = q.id /\ r.got = server[q.id]
    BY <2>1 DEF Check
  <2>3. /\ UNCHANGED <<server, late, voided, url, active, page, quotes, calls, loads, mine, slipped>>
        /\ polls' \subseteq polls \cup {r} /\ moves' \in 0..MaxMoves
    BY <1>1, <1>5 DEF PollRead, PollLost, serverVars, rows, told, CheckoutPageAssumption
  <2> HIDE DEF r
  <2>4. GoodCheck(r)
    BY <2>1, <2>2 DEF GoodCheck
  <2>5. polls' \subseteq Check /\ \A x \in polls' : GoodCheck(x)
    BY <1>1, <1>2, <2>2, <2>3, <2>4
  <2>6. Alone'
    BY <2>3, AloneFewer DEF IInv
  <2> QED BY <1>1, <1>2, <2>3, <2>5, <2>6, AskedStep
<1>6. ASSUME NEW c \in calls, ReceiptAnswered(c) PROVE IInv'
  <2> DEFINE r == [id |-> c.id, got |-> None, by |-> "left"]
  <2>1. c.id \in Placed /\ c.id \in Order
    BY <1>2, <1>6 DEF ReceiptAnswered, GoodCall, Placed
  <2>2. r \in Check /\ r.id = c.id /\ r.got = None
    BY <2>1 DEF Check
  <2>3. /\ UNCHANGED <<server, late, voided, url, active, page, quotes, moves, loads, mine, slipped>>
        /\ calls' \subseteq calls
        /\ polls' \subseteq polls \cup {r} \/ (page.order # None /\ polls' \subseteq polls \cup {Recheck})
    BY <1>6 DEF ReceiptAnswered, Ask, serverVars, rows, told
  <2> HIDE DEF r
  <2>4. GoodCheck(r)
    BY <2>1, <2>2 DEF GoodCheck, Placed
  <2>5. polls' \subseteq Check /\ \A x \in polls' : GoodCheck(x)
    BY <1>1, <1>2, <2>2, <2>3, <2>4, CheckGood
  <2>6. Alone' /\ calls' \subseteq Call /\ \A x \in calls' : GoodCall(x)
    BY <1>2, <2>3, AloneFewer DEF IInv
  <2> QED BY <1>1, <2>3, <2>5, <2>6, AskedStep
<1>7. ASSUME NEW q \in polls, PollArrives(q) PROVE IInv'
  <2> DEFINE held == [id |-> q.id, row |-> q.got]
  <2>1. q \in Check /\ q.got \in Row /\ Fits(q.id, q.got) /\ server[q.id] # None /\ q.id \in Order
    BY <1>1, <1>2, <1>7 DEF PollArrives, GoodCheck, Check
  <2>2. held \in Held /\ held # None /\ held.id = q.id /\ held.row = q.got
    BY <2>1 DEF Held, CheckoutPageAssumption
  <2>3. /\ UNCHANGED <<server, late, voided, moves, url, quotes, calls, loads, mine, slipped>>
        /\ polls' \subseteq polls /\ active' \in {active, Cleared(q.id)}
        /\ \/ page' = page
           \/ /\ page.order # None /\ page.order.id = q.id
              /\ page' = [page EXCEPT !.order = held]
              /\ q.got.status # "pending_payment" => active' = Cleared(q.id)
    BY <1>7 DEF PollArrives, Refreshed, serverVars, rows, told
  <2> HIDE DEF held
  <2>4. page' \in PageType /\ page'.at = page.at /\ (page'.order = page.order \/ page'.order = held)
        /\ (page'.order # None <=> page.order # None)
    BY <1>1, <2>2, <2>3 DEF PageType
  <2>5. active' \in {active, Nothing} /\ Nothing \in Kept /\ Nothing.id = 0
    BY <2>3 DEF Cleared, Nothing, Kept, CheckoutPageAssumption
  <2>6. Alone'
    <3>1. \A d \in calls : First(d) => page'.order = None
      BY <2>4 DEF IInv, Alone
    <3> QED BY <2>3, <2>4, <3>1 DEF IInv, Alone, Own, First, Asked
  <2>7. UrlInv'
    BY <2>3, <2>4 DEF IInv, UrlInv, Asked
  <2>8. SavedIsOpen'
    <3>1. page.order # None => page.order.id # 0
      BY <1>1 DEF PageType, Held, Order
    <3>2. CASE page' = page
      BY <2>5, <3>1, <3>2, <1>1 DEF IInv, SavedIsOpen, Shown
    <3>3. CASE page' # page
      <4>1. page'.order = held /\ (q.got.status # "pending_payment" => active' = Cleared(q.id)) /\ q.id # 0
        BY <1>1, <2>1, <2>2, <2>3, <3>3 DEF PageType, Order
      <4> QED BY <2>2, <4>1 DEF SavedIsOpen, Shown, Cleared, Nothing
    <3> QED BY <3>2, <3>3
  <2>9. page'.order # None => server[page'.order.id] # None /\ Fits(page'.order.id, page'.order.row)
    BY <1>1, <2>1, <2>2, <2>4
  <2>10. active' \in Kept /\ active'.id \in {0} \cup Placed
    BY <1>1, <2>5
  <2>11. polls' \subseteq Check /\ \A x \in polls' : GoodCheck(x)
    BY <1>1, <1>2, <2>3
  <2> QED BY <1>1, <2>3, <2>4, <2>6, <2>7, <2>8, <2>9, <2>10, <2>11, PageStep
<1> QED BY <1>3, <1>4, <1>5, <1>6, <1>7
-----------------------------------------------------------------------------
(* The server changes its rows, and answers at most one call. *)
LEMMA ServerChanges ==
  ASSUME CheckoutPageAssumption, IInv, server' \in [Order -> Row \cup {None}],
         late' \subseteq Order, voided' \subseteq Order, voided \subseteq voided', moves' \in 0..MaxMoves,
         \A x \in Order : server[x] # None => server'[x] # None,
         \A x \in Order : server'[x] # None => x \in voided' \/ Sound(server'[x]),
         calls' \subseteq Call, \A c \in calls' : c \in calls \/ GoodCall(c)', Alone',
         UNCHANGED <<url, active, page, polls, quotes, loads, mine, slipped>>
  PROVE  IInv'
<1>1. \A o, r : Fits(o, r) => Fits(o, r)'
  BY DEF Fits, Sound, Life!Sound, Life!Settled
<1>2. Placed \subseteq Placed'
  BY DEF Placed
<1>3. TypeOK'
  BY DEF IInv, TypeOK
<1>4. RowInv'
  BY DEF RowInv, Fits, Sound, Life!Sound, Life!Settled
<1>5. PageInv'
  <2>1. page \in PageType
    BY DEF IInv, TypeOK, PageType
  <2>2. page.order # None => page.order.id \in Order
    BY <2>1 DEF PageType, Held
  <2>3. GoodUrl(url)' /\ active'.id \in {0} \cup Placed'
    BY <1>2 DEF IInv, PageInv, GoodUrl
  <2>4. page'.order # None => server'[page'.order.id] # None /\ Fits(page.order.id, page.order.row)'
    BY <1>1, <2>2 DEF IInv, PageInv
  <2> QED BY <2>3, <2>4 DEF PageInv
<1>6. \A c \in calls : GoodCall(c)'
  <2> SUFFICES ASSUME NEW c \in calls PROVE GoodCall(c)'
    OBVIOUS
  <2>1. GoodCall(c)
    BY DEF IInv, AskedInv
  <2> QED BY <1>1, <1>2, <2>1 DEF GoodCall, Answered
<1>7. \A q \in polls : GoodCheck(q)'
  <2> SUFFICES ASSUME NEW q \in polls PROVE GoodCheck(q)'
    OBVIOUS
  <2>1. GoodCheck(q) /\ q.id \in Order
    BY DEF IInv, AskedInv, TypeOK, Check
  <2> QED BY <1>1, <2>1 DEF GoodCheck
<1>8. AskedInv'
  BY <1>6, <1>7 DEF AskedInv
<1>9. SavedIsOpen' /\ UrlInv'
  BY DEF IInv, SavedIsOpen, Shown, UrlInv, Asked
<1> QED BY <1>3, <1>4, <1>5, <1>8, <1>9 DEF IInv

(* What may become of an untouched order is sound again. *)
LEMMA BecomesSound ==
  ASSUME NEW s \in Statuses, NEW p \in PayStatuses, NEW l, NEW t \in Statuses, NEW q \in PayStatuses,
         Life!Sound(s, p), Life!Becomes(s, p, l, t, q)
  PROVE  Life!Sound(t, q)
BY DEF Statuses, PayStatuses, Life!Sound, Life!Becomes, Life!Open, Life!Payable, Life!Settled

(* One row is rewritten as r. *)
LEMMA Rewritten ==
  ASSUME CheckoutPageAssumption, IInv, NEW o \in Order, server[o] # None, NEW r \in Row,
         server' = [server EXCEPT ![o] = r]
  PROVE  /\ server' \in [Order -> Row \cup {None}] /\ server'[o] = r /\ r # None
         /\ \A x \in Order \ {o} : server'[x] = server[x]
         /\ \A x \in Order : server[x] # None <=> server'[x] # None
<1>1. r # None
  BY DEF CheckoutPageAssumption
<1> QED BY <1>1 DEF IInv, TypeOK

(* create_order: what it may do to each row, and the order it answers. *)
LEMMA PlacedRows ==
  ASSUME CheckoutPageAssumption, IInv, NEW c \in calls, OrderPlaced(c)
  PROVE  /\ server' \in [Order -> Row \cup {None}]
         /\ \A x \in Order :
              \/ server'[x] = server[x]
              \/ /\ server[x] = None /\ server'[x] \in Row /\ server'[x] # None
                 /\ server'[x].status = "pending_payment" /\ server'[x].pay = "none"
              \/ /\ server[x] \in Row /\ server[x] # None /\ server[x].status = "pending_payment"
                 /\ server[x].pay = "none" \/ (x \in late /\ server[x].pay # "pending")
                 /\ server'[x] \in Row /\ server'[x] # None
                 /\ server'[x].status = "expired" /\ server'[x].pay = server[x].pay
         /\ \E o \in Order, row \in Row : /\ server'[o] # None /\ Fits(o, row)
                                          /\ Answer(c, [c EXCEPT !.st = "done", !.id = o, !.got = row])
<1> DEFINE Lapsed(r) == [r EXCEPT !.status = "expired"]
           new == [status |-> "pending_payment", pay |-> "none", rename |-> FALSE, item |-> c.item]
<1>1. \A x \in Placed : server[x] \in Row /\ server[x] # None
  BY DEF Placed, IInv, TypeOK
<1>2. \A x \in Placed : /\ Lapsed(server[x]) \in Row /\ Lapsed(server[x]).status = "expired"
                        /\ Lapsed(server[x]).pay = server[x].pay
  BY <1>1 DEF Row, Statuses
<1>3. \A r \in Row : r # None
  BY DEF CheckoutPageAssumption
<1> HIDE DEF Lapsed
<1>4. CASE \E o \in Order :
             /\ o \in Placed \ late
             /\ server' = [x \in Order |-> IF x \in Stale THEN [server[x] EXCEPT !.status = "expired"] ELSE server[x]]
             /\ Answer(c, [c EXCEPT !.st = "done", !.id = o, !.got = server[o]])
  <2>1. PICK o \in Order :
             /\ o \in Placed \ late
             /\ server' = [x \in Order |-> IF x \in Stale THEN Lapsed(server[x]) ELSE server[x]]
             /\ Answer(c, [c EXCEPT !.st = "done", !.id = o, !.got = server[o]])
    BY <1>4 DEF Lapsed
  <2>2. \A x \in Stale : /\ x \in Placed /\ x \in late /\ server[x].pay # "pending"
                         /\ server[x].status = "pending_payment"
    BY DEF Stale
  <2>3. server' \in [Order -> Row \cup {None}]
    BY <1>2, <2>1, <2>2 DEF IInv, TypeOK
  <2>4. server'[o] = server[o] /\ Fits(o, server[o]) /\ server[o] \in Row /\ server[o] # None
    BY <1>1, <2>1, <2>2 DEF IInv, RowInv
  <2>5. \A x \in Order : \/ x \in Stale /\ server'[x] = Lapsed(server[x])
                         \/ server'[x] = server[x]
    BY <2>1
  <2>6. \A x \in Order :
              \/ server'[x] = server[x]
              \/ /\ server[x] \in Row /\ server[x] # None /\ server[x].status = "pending_payment"
                 /\ server[x].pay = "none" \/ (x \in late /\ server[x].pay # "pending")
                 /\ server'[x] \in Row /\ server'[x] # None
                 /\ server'[x].status = "expired" /\ server'[x].pay = server[x].pay
    BY <1>1, <1>2, <1>3, <2>2, <2>5
  <2> QED BY <2>1, <2>3, <2>4, <2>6
<1>5. CASE \E o \in Order :
             /\ o \notin Placed
             /\ \E drop \in SUBSET {x \in Placed : Unpaid(x)} :
                  server' = [x \in Order |-> IF x = o THEN new
                                            ELSE IF x \in Stale \cup drop THEN [server[x] EXCEPT !.status = "expired"]
                                            ELSE server[x]]
             /\ Answer(c, [c EXCEPT !.st = "done", !.id = o, !.got = new])
  <2>2. c.item \in Purchase
    BY DEF OrderPlaced, IInv, TypeOK, AskedInv, GoodCall, Call
  <2>3. new \in Row /\ new # None /\ new.status = "pending_payment" /\ new.pay = "none"
    BY <1>3, <2>2 DEF Row, Statuses, PayStatuses
  <2> HIDE DEF new
  <2>4. PICK o \in Order :
             /\ o \notin Placed
             /\ \E drop \in SUBSET {x \in Placed : Unpaid(x)} :
                  server' = [x \in Order |-> IF x = o THEN new
                                            ELSE IF x \in Stale \cup drop THEN Lapsed(server[x]) ELSE server[x]]
             /\ Answer(c, [c EXCEPT !.st = "done", !.id = o, !.got = new])
    BY <1>5 DEF Lapsed
  <2>5. PICK drop \in SUBSET {x \in Placed : Unpaid(x)} :
                  server' = [x \in Order |-> IF x = o THEN new
                                            ELSE IF x \in Stale \cup drop THEN Lapsed(server[x]) ELSE server[x]]
    BY <2>4
  <2>6. \A x \in Stale \cup drop : /\ x \in Placed /\ server[x].status = "pending_payment"
                                   /\ server[x].pay = "none" \/ (x \in late /\ server[x].pay # "pending")
    BY DEF Stale, Unpaid
  <2>7. server' \in [Order -> Row \cup {None}]
    BY <1>2, <2>3, <2>5, <2>6 DEF IInv, TypeOK
  <2>8. server'[o] = new /\ server[o] = None
    BY <2>4, <2>5 DEF Placed
  <2>9. Fits(o, new)
    BY <2>3 DEF Fits, Sound, Life!Sound
  <2>10. \A x \in Order : \/ x \in Stale \cup drop /\ server'[x] = Lapsed(server[x])
                          \/ server'[x] = server[x]
                          \/ x = o
    BY <2>5
  <2>11. \A x \in Order :
              \/ server'[x] = server[x]
              \/ /\ server[x] = None /\ server'[x] \in Row /\ server'[x] # None
                 /\ server'[x].status = "pending_payment" /\ server'[x].pay = "none"
              \/ /\ server[x] \in Row /\ server[x] # None /\ server[x].status = "pending_payment"
                 /\ server[x].pay = "none" \/ (x \in late /\ server[x].pay # "pending")
                 /\ server'[x] \in Row /\ server'[x] # None
                 /\ server'[x].status = "expired" /\ server'[x].pay = server[x].pay
    BY <1>1, <1>2, <1>3, <2>3, <2>6, <2>8, <2>10
  <2> QED BY <2>3, <2>4, <2>7, <2>8, <2>9, <2>11
<1> QED BY <1>4, <1>5 DEF OrderPlaced

(* The server places an order, saves a receipt, takes a new name. *)
LEMMA HandledStep ==
  ASSUME CheckoutPageAssumption, IInv, NEW c \in calls, OrderPlaced(c) \/ ReceiptSaved(c) \/ NewNameHandled(c)
  PROVE  IInv'
<1>1. c \in Call /\ GoodCall(c) /\ Order \subseteq 0..MaxOrders
      /\ moves \in 0..MaxMoves /\ late \subseteq Order /\ voided \subseteq Order
  BY DEF IInv, TypeOK, AskedInv, Order, CheckoutPageAssumption
<1>2. UNCHANGED <<late, voided, moves, url, active, page, polls, quotes, loads, mine, slipped>>
  BY DEF OrderPlaced, ReceiptSaved, NewNameHandled, told
<1>3. \A x \in Order : server[x] # None => x \in voided \/ Sound(server[x])
  BY DEF IInv, RowInv, Fits
<1>4. ASSUME NEW o \in Order, NEW row \in Row \cup {None}, NEW d,
             d = [c EXCEPT !.st = "done", !.id = o, !.got = row], server'[o] # None,
             row # None => Fits(o, row), row = None => c.kind = "receipt",
             Answer(c, d), server' \in [Order -> Row \cup {None}],
             \A x \in Order : server[x] # None => server'[x] # None,
             \A x \in Order : server'[x] # None => x \in voided' \/ Sound(server'[x])
      PROVE  IInv'
  <2>1. /\ d \in Call /\ d.by = c.by /\ d.kind = c.kind /\ d.from = c.from /\ d.id = o /\ d.st = "done"
        /\ d.got = row /\ d.item = c.item
    BY <1>1, <1>4 DEF Call
  <2>2. calls' \subseteq (calls \ {c}) \cup {d}
    BY <1>4 DEF Answer
  <2>3. Alone'
    BY <1>2, <2>1, <2>2, AloneKept DEF IInv
  <2>4. GoodCall(d)'
    <3>1. o \in Placed'
      BY <1>4 DEF Placed
    <3>2. row # None => Fits(d.id, d.got)'
      BY <1>2, <1>4, <2>1, FitsKept
    <3> QED BY <1>1, <1>4, <2>1, <3>1, <3>2 DEF GoodCall, Answered
  <2>5. calls' \subseteq Call /\ \A e \in calls' : e \in calls \/ GoodCall(e)'
    BY <2>1, <2>2, <2>4 DEF IInv, TypeOK
  <2> QED BY <1>1, <1>2, <1>4, <2>3, <2>5, ServerChanges
<1>5. CASE OrderPlaced(c)
  <2>1. PICK o \in Order, row \in Row : /\ server'[o] # None /\ Fits(o, row)
                                        /\ Answer(c, [c EXCEPT !.st = "done", !.id = o, !.got = row])
    BY <1>5, PlacedRows
  <2>2. \A x \in Order : server[x] # None => server'[x] # None
    BY <1>5, PlacedRows
  <2>3. ASSUME NEW x \in Order, server'[x] # None PROVE x \in voided' \/ Sound(server'[x])
    <3>1. CASE server'[x] = server[x]
      BY <1>2, <1>3, <2>3, <3>1
    <3>2. CASE server[x] = None /\ server'[x].status = "pending_payment" /\ server'[x].pay = "none"
      BY <3>2 DEF Sound, Life!Sound
    <3>3. CASE /\ server[x] # None /\ server[x].status = "pending_payment"
               /\ server'[x].status = "expired" /\ server'[x].pay = server[x].pay
      BY <1>2, <1>3, <3>3 DEF Sound, Life!Sound, Life!Settled
    <3> QED BY <1>5, <3>1, <3>2, <3>3, PlacedRows
  <2>4. server' \in [Order -> Row \cup {None}] /\ row # None
    BY <1>5, PlacedRows DEF CheckoutPageAssumption
  <2> QED BY <1>4, <2>1, <2>2, <2>3, <2>4
<1>6. CASE ReceiptSaved(c) \/ NewNameHandled(c)
  <2>1. c.id \in Order /\ server[c.id] # None /\ server[c.id] \in Row
        /\ (c.id \in voided \/ Sound(server[c.id]))
    BY <1>1, <1>3, <1>6 DEF ReceiptSaved, NewNameHandled, GoodCall, Placed, IInv, TypeOK
  <2>2. PICK r \in Row : /\ server' = [server EXCEPT ![c.id] = r] /\ r.status = server[c.id].status
                         /\ \/ r.pay = "pending" /\ c.kind = "receipt" /\ Answer(c, [c EXCEPT !.st = "done"])
                            \/ r.pay = server[c.id].pay /\ Answer(c, [c EXCEPT !.st = "done", !.got = r])
    <3>1. CASE ReceiptSaved(c)
      <4> DEFINE r == [server[c.id] EXCEPT !.pay = "pending"]
      <4>1. r \in Row /\ r.status = server[c.id].status /\ r.pay = "pending"
        BY <2>1 DEF Row, PayStatuses
      <4>2. server' = [server EXCEPT ![c.id] = r]
        BY <3>1 DEF ReceiptSaved
      <4> QED BY <3>1, <4>1, <4>2 DEF ReceiptSaved
    <3>2. CASE NewNameHandled(c)
      <4> DEFINE r == [server[c.id] EXCEPT !.rename = FALSE]
      <4>1. r \in Row /\ r.status = server[c.id].status /\ r.pay = server[c.id].pay
        BY <2>1 DEF Row
      <4> QED BY <3>2, <4>1 DEF NewNameHandled
    <3> QED BY <1>6, <3>1, <3>2
  <2>3. c.id \in voided \/ Sound(r)
    BY <2>1, <2>2 DEF Sound, Life!Sound, Row, Statuses
  <2>4. /\ server' \in [Order -> Row \cup {None}] /\ server'[c.id] = r /\ r # None
        /\ \A x \in Order \ {c.id} : server'[x] = server[x]
        /\ \A x \in Order : server[x] # None <=> server'[x] # None
    BY <2>1, <2>2, Rewritten
  <2>5. \A x \in Order : server'[x] # None => x \in voided' \/ Sound(server'[x])
    BY <1>2, <1>3, <2>3, <2>4
  <2>6. Fits(c.id, r) /\ (c.got # None => Fits(c.id, c.got)) /\ c.got \in Row \cup {None}
    BY <1>1, <2>3 DEF Fits, GoodCall, Call
  <2>7. /\ [c EXCEPT !.st = "done"] = [c EXCEPT !.st = "done", !.id = c.id, !.got = c.got]
        /\ [c EXCEPT !.st = "done", !.got = r] = [c EXCEPT !.st = "done", !.id = c.id, !.got = r]
    BY <1>1 DEF Call
  <2>8. CASE c.kind = "receipt" /\ Answer(c, [c EXCEPT !.st = "done"])
    BY <1>4, <2>1, <2>4, <2>5, <2>6, <2>7, <2>8
  <2>9. CASE Answer(c, [c EXCEPT !.st = "done", !.got = r])
    BY <1>4, <2>1, <2>4, <2>5, <2>6, <2>7, <2>9
  <2> QED BY <2>2, <2>8, <2>9
<1> QED BY <1>5, <1>6

(* What others do to an order. *)
LEMMA ServerStep ==
  ASSUME CheckoutPageAssumption, IInv, NEW o \in Order, ServerMoves(o)
  PROVE  IInv'
<1>1. server[o] # None /\ server[o] \in Row /\ (o \in voided \/ Sound(server[o]))
  BY DEF ServerMoves, Placed, IInv, TypeOK, RowInv, Fits
<1>2. /\ UNCHANGED <<url, active, page, polls, quotes, calls, loads, mine, slipped>>
      /\ moves < MaxMoves /\ moves' = moves + 1
  BY DEF ServerMoves, told
<1>3. moves' \in 0..MaxMoves
  BY <1>2 DEF IInv, TypeOK, CheckoutPageAssumption
<1>4. calls' \subseteq Call /\ (\A c \in calls' : c \in calls \/ GoodCall(c)') /\ Alone'
  BY <1>2, AloneFewer DEF IInv, TypeOK
<1>5. \A x \in Order : server[x] # None => x \in voided \/ Sound(server[x])
  BY DEF IInv, RowInv, Fits
<1>6. late \subseteq Order /\ voided \subseteq Order
  BY DEF IInv, TypeOK
<1>7. ASSUME NEW r \in Row, server' = [server EXCEPT ![o] = r], late' = late, voided \subseteq voided',
             voided' \subseteq Order, o \in voided' \/ Sound(r)
      PROVE  IInv'
  <2>1. /\ server' \in [Order -> Row \cup {None}] /\ server'[o] = r /\ r # None
        /\ \A x \in Order \ {o} : server'[x] = server[x]
        /\ \A x \in Order : server[x] # None <=> server'[x] # None
    BY <1>1, <1>7, Rewritten
  <2>2. \A x \in Order : server'[x] # None => x \in voided' \/ Sound(server'[x])
    BY <1>5, <1>7, <2>1
  <2> QED BY <1>2, <1>3, <1>4, <1>6, <1>7, <2>1, <2>2, ServerChanges
<1> DEFINE Moved(s, p) == [server[o] EXCEPT !.status = s, !.pay = p]
           Renamed(b) == [server[o] EXCEPT !.rename = b]
<1>8. \A s \in Statuses, p \in PayStatuses :
        Moved(s, p) \in Row /\ Moved(s, p).status = s /\ Moved(s, p).pay = p
  BY <1>1 DEF Row
<1>9. \A b \in BOOLEAN : /\ Renamed(b) \in Row
                        /\ Renamed(b).status = server[o].status /\ Renamed(b).pay = server[o].pay
  BY <1>1 DEF Row
<1>10. CASE DeadlinePasses(o)
  <2>1. server' = server /\ voided' = voided /\ late' \subseteq Order
    BY <1>6, <1>10 DEF DeadlinePasses
  <2>2. server' \in [Order -> Row \cup {None}]
    BY <2>1 DEF IInv, TypeOK
  <2> QED BY <1>2, <1>3, <1>4, <1>5, <1>6, <2>1, <2>2, ServerChanges
<1>11. CASE AsksNewName(o) \/ NameSettled(o)
  <2>1. PICK b \in BOOLEAN : server' = [server EXCEPT ![o] = Renamed(b)]
    BY <1>11 DEF AsksNewName, NameSettled
  <2>2. PICK r : r = Renamed(b)
    OBVIOUS
  <2>3. r \in Row /\ r.status = server[o].status /\ r.pay = server[o].pay /\ server' = [server EXCEPT ![o] = r]
    BY <1>9, <2>1, <2>2
  <2>4. late' = late /\ voided' = voided
    BY <1>11 DEF AsksNewName, NameSettled
  <2>5. o \in voided' \/ Sound(r)
    BY <1>1, <2>3, <2>4 DEF Sound
  <2> QED BY <1>6, <1>7, <2>3, <2>4, <2>5
<1>12. ASSUME NEW s \in Statuses, NEW p \in PayStatuses, Decided(o, s, p) PROVE IInv'
  <2>1. PICK r : r = Moved(s, p)
    OBVIOUS
  <2>2. PICK l : l = (o \in late)
    OBVIOUS
  <2>3. r \in Row /\ r.status = s /\ r.pay = p
    BY <1>8, <2>1
  <2>4. /\ server' = [server EXCEPT ![o] = r] /\ voided' = voided /\ late' = late
        /\ o \notin voided /\ Life!Becomes(server[o].status, server[o].pay, l, s, p)
    BY <1>12, <2>1, <2>2 DEF Decided
  <2>5. /\ server[o].status \in Statuses /\ server[o].pay \in PayStatuses
        /\ Life!Sound(server[o].status, server[o].pay)
    BY <1>1, <2>4 DEF Row, Sound
  <2>6. Sound(r)
    BY <2>3, <2>4, <2>5, BecomesSound DEF Sound
  <2> QED BY <1>6, <1>7, <2>3, <2>4, <2>6
<1>13. CASE Voids(o)
  <2>1. PICK s \in Statuses, p \in PayStatuses : server' = [server EXCEPT ![o] = Moved(s, p)]
    BY <1>13 DEF Voids
  <2>2. PICK r : r = Moved(s, p)
    OBVIOUS
  <2>3. r \in Row /\ server' = [server EXCEPT ![o] = r]
    BY <1>8, <2>1, <2>2
  <2>4. voided' = voided \cup {o} /\ late' = late
    BY <1>13 DEF Voids
  <2> QED BY <1>6, <1>7, <2>3, <2>4
<1> QED BY <1>10, <1>11, <1>12, <1>13 DEF ServerMoves
-----------------------------------------------------------------------------
LEMMA NextStep == CheckoutPageAssumption /\ IInv /\ [Next]_vars => IInv'
<1> SUFFICES ASSUME CheckoutPageAssumption, IInv, [Next]_vars PROVE IInv'
  OBVIOUS
<1>1. ASSUME NEW c \in calls, Handled(c) PROVE IInv'
  BY <1>1, AnswerStep, HandledStep DEF Handled
<1>2. ASSUME NEW c \in calls, Arrives(c) \/ CallLost(c) PROVE IInv'
  BY <1>2, ShowStep, LeftStep, RestoreStep, AnswerStep, PollStep DEF Arrives
<1>3. CASE Next
  BY <1>1, <1>2, <1>3, VisitStep, FormStep, SendsStep, PollStep, ServerStep DEF Next
<1>4. CASE UNCHANGED vars
  <2>1. UNCHANGED <<server, late, voided, moves, url, active, page, polls, quotes, calls, loads, mine, slipped>>
    BY <1>4 DEF vars
  <2>2. Alone'
    BY <2>1, AloneFewer DEF IInv
  <2>3. /\ calls' \subseteq Call /\ (\A c \in calls' : GoodCall(c)) /\ polls' \subseteq Check
        /\ (\A q \in polls' : GoodCheck(q)) /\ quotes' \subseteq Purchase /\ moves' \in 0..MaxMoves
    BY <2>1 DEF IInv, TypeOK, AskedInv
  <2> QED BY <2>1, <2>2, <2>3, AskedStep
<1> QED BY <1>3, <1>4

(* The page, its URL, what it keeps and every answer under way stay in step, whatever the order of
   visits, answers (those to pages already left included) and the server's changes
   (Checkout.jsx 22-160). *)
THEOREM PageInvariant == Spec => []IInv
BY PageInit, NextStep, CheckoutPageAssumption, PTL DEF Spec

(* A copy of an order falls under exactly one of the blocks. *)
LEMMA SoundShowsOne ==
  ASSUME page.order # None, Sound(page.order.row), page.order \in Held
  PROVE  \E b : Blocks = {b}
<1>1. Shown = page.order.row /\ Shown.rename \in BOOLEAN /\ Shown.status \in Statuses
  BY DEF Shown, Held, Row
<1> DEFINE st == Shown.status
<1>2. CASE st = "completed"
  <2>1. Blocks = {"completed"}
    BY <1>1, <1>2 DEF Blocks, Sound, Life!Sound, Life!Settled, Expired, Confirmed, Pending
  <2> QED BY <2>1
<1>3. CASE st = "paid" /\ Shown.rename
  <2>1. Blocks = {"new_name"}
    BY <1>1, <1>3 DEF Blocks, Sound, Life!Sound, Life!Settled, Expired, Confirmed, Pending
  <2> QED BY <2>1
<1>4. CASE st = "paid" /\ ~Shown.rename
  <2>1. Blocks = {"preparing"}
    BY <1>1, <1>4 DEF Blocks, Sound, Life!Sound, Life!Settled, Expired, Confirmed, Pending
  <2> QED BY <2>1
<1>5. CASE st = "failed"
  <2>1. Blocks = {"failed"}
    BY <1>1, <1>5 DEF Blocks, Sound, Life!Sound, Life!Settled, Expired, Confirmed, Pending
  <2> QED BY <2>1
<1>6. CASE st = "rejected"
  <2>1. Blocks = {"rejected"}
    BY <1>1, <1>6 DEF Blocks, Sound, Life!Sound, Life!Settled, Expired, Confirmed, Pending
  <2> QED BY <2>1
<1>7. CASE st = "expired" \/ (st = "pending_payment" /\ Expired)
  <2>1. Blocks = {"expired"}
    BY <1>1, <1>7 DEF Blocks, Sound, Life!Sound, Life!Settled, Expired, Confirmed, Pending
  <2> QED BY <2>1
<1>8. CASE st = "pending_payment" /\ ~Expired
  <2>1. Blocks = {"pending"}
    BY <1>1, <1>8 DEF Blocks, Sound, Life!Sound, Life!Settled, Confirmed, Pending
  <2> QED BY <2>1
<1> QED BY <1>1, <1>2, <1>3, <1>4, <1>5, <1>6, <1>7, <1>8 DEF Sound, Life!Sound, Statuses

(* The invoice page tells the customer exactly one thing (Checkout.jsx 428-611). *)
THEOREM PageOneBlock == Spec => []OneBlock
<1>1. IInv => OneBlock
  <2> SUFFICES ASSUME IInv, page.at = "invoice", page.order.id \notin voided PROVE Cardinality(Blocks) = 1
    BY DEF OneBlock
  <2>1. page.order \in Held /\ page.order # None /\ Sound(page.order.row)
    BY DEF IInv, TypeOK, PageInv, Fits
  <2>2. \E b : Blocks = {b}
    BY <2>1, SoundShowsOne
  <2> QED BY <2>2, FS_Singleton
<1> QED BY <1>1, PageInvariant, PTL

(* An order the page knows to be decided is kept in localStorage only by the answer to a page already
   left, in whatever order the answers come (Checkout.jsx 22-38, 77-104, 123-135). *)
THEOREM PageSavedIsOpen == Spec => []SavedIsOpen
<1>1. IInv => SavedIsOpen
  BY DEF IInv
<1> QED BY <1>1, PageInvariant, PTL

(* A reload brings the customer's own invoice back unless a request failed (Checkout.jsx 77-120). *)
THEOREM PageReloadKeepsInvoice == Spec => []ReloadKeepsInvoice
<1>1. IInv => ReloadKeepsInvoice
  BY DEF IInv, UrlInv, ReloadKeepsInvoice
<1> QED BY <1>1, PageInvariant, PTL
-----------------------------------------------------------------------------
(* An order's statuses as OrderLife sees them. *)
LifeStatus(o) == IF server[o] = None THEN "absent" ELSE server[o].status
LifePay(o) == IF server[o] = None THEN "none" ELSE server[o].pay

(* Only orders that exist are voided. *)
VoidedExist == voided \subseteq Placed

(* A row that stays does not move, and neither do the orders beside it. *)
LEMMA StillMoves ==
  ASSUME NEW o \in Order, server'[o] = server[o]
  PROVE  Life!Moves(o)
BY DEF Life!Moves

LEMMA PlacedMoves ==
  ASSUME NEW o \in Order, LifeStatus(o) = "absent", LifeStatus(o)' = "pending_payment", LifePay(o)' = "none"
  PROVE  Life!Moves(o)
BY DEF Life!Moves, LifeStatus, LifePay

LEMMA DecidedMoves ==
  ASSUME NEW o \in Order, LifeStatus(o) # "absent",
         Life!Becomes(LifeStatus(o), LifePay(o), o \in late, LifeStatus(o)', LifePay(o)')
  PROVE  Life!Moves(o) \/ o \in voided'
BY DEF Life!Moves, LifeStatus, LifePay

LEMMA VoidedMoves ==
  ASSUME NEW o \in Order, o \in voided', LifeStatus(o) # "absent", LifeStatus(o)' # "absent"
  PROVE  Life!Moves(o)
BY DEF Life!Moves, LifeStatus, LifePay

(* What remains of OrderLife's step once every order moves as it says. *)
LEMMA AllMove ==
  ASSUME CheckoutPageAssumption, IInv, TypeOK', VoidedExist, late \subseteq late', voided \subseteq voided',
         \A o \in voided' : o \in voided \/ server[o] # None,
         \A o \in Order : Life!Moves(o)
  PROVE  Life!Next
<1>1. \A o \in Order : server'[o] # None => server'[o] \in Row
  BY DEF TypeOK
<1>2. \A o \in Order : server[o] # None => server[o] \in Row
  BY DEF IInv, TypeOK
<1>3. [o \in Order |-> LifeStatus(o)'] \in [Order -> Life!Statuses]
  BY <1>1 DEF LifeStatus, Row, Statuses, Life!Statuses
<1>4. [o \in Order |-> LifePay(o)'] \in [Order -> Life!PayStatuses]
  BY <1>1 DEF LifePay, Row, PayStatuses, Life!PayStatuses
<1>5. voided' \subseteq {o \in Order : LifeStatus(o) # "absent"}
  BY <1>2 DEF TypeOK, VoidedExist, Placed, LifeStatus, Row, Statuses
<1>6. late' \subseteq Order
  BY DEF TypeOK
<1> QED BY <1>3, <1>4, <1>5, <1>6 DEF Life!Next, LifeStatus, LifePay

LEMMA ExistKept ==
  ASSUME CheckoutPageAssumption, IInv, TypeOK', VoidedExist, voided \subseteq voided',
         \A o \in voided' : o \in voided \/ server[o] # None,
         \A o \in Order : server[o] # None => server'[o] # None
  PROVE  VoidedExist'
BY DEF VoidedExist, Placed, TypeOK

(* The server's step on one order, as OrderLife allows it. *)
LEMMA LifeServer ==
  ASSUME CheckoutPageAssumption, IInv, TypeOK', VoidedExist, NEW o \in Order, ServerMoves(o)
  PROVE  Life!Next /\ VoidedExist'
<1>1. server[o] \in Row /\ server[o] # None
  BY DEF ServerMoves, Placed, IInv, TypeOK
<1>2. /\ LifeStatus(o) = server[o].status /\ LifePay(o) = server[o].pay
      /\ LifeStatus(o) # "absent"
  BY <1>1 DEF LifeStatus, LifePay, Row, Statuses
<1> DEFINE Goal == /\ \A x \in Order \ {o} : server'[x] = server[x]
                   /\ server'[o] # None
                   /\ late \subseteq late' /\ voided' \in {voided, voided \cup {o}}
                   /\ Life!Moves(o)
<1>3. ASSUME DeadlinePasses(o) PROVE Goal
  BY <1>1, <1>3, StillMoves DEF DeadlinePasses
<1>4. ASSUME AsksNewName(o) \/ NameSettled(o) PROVE Goal
  <2>1. PICK b \in BOOLEAN : server' = [server EXCEPT ![o] = [server[o] EXCEPT !.rename = b]]
    BY <1>4 DEF AsksNewName, NameSettled
  <2>2. [server[o] EXCEPT !.rename = b] \in Row
        /\ [server[o] EXCEPT !.rename = b].status = server[o].status
        /\ [server[o] EXCEPT !.rename = b].pay = server[o].pay
    BY <1>1 DEF Row
  <2>3. server'[o] = [server[o] EXCEPT !.rename = b] /\ \A x \in Order \ {o} : server'[x] = server[x]
    BY <2>1 DEF IInv, TypeOK
  <2>4. LifeStatus(o)' = LifeStatus(o) /\ LifePay(o)' = LifePay(o) /\ server'[o] # None
    BY <1>1, <2>2, <2>3 DEF LifeStatus, LifePay, CheckoutPageAssumption
  <2>5. Life!Moves(o)
    BY <2>4 DEF Life!Moves, LifeStatus, LifePay
  <2> QED BY <1>4, <2>3, <2>4, <2>5 DEF AsksNewName, NameSettled
<1>5. ASSUME NEW s \in Statuses, NEW p \in PayStatuses,
             server' = [server EXCEPT ![o] = [server[o] EXCEPT !.status = s, !.pay = p]]
      PROVE  /\ server'[o] # None /\ \A x \in Order \ {o} : server'[x] = server[x]
             /\ LifeStatus(o)' = s /\ LifePay(o)' = p
  <2>1. [server[o] EXCEPT !.status = s, !.pay = p] \in Row
        /\ [server[o] EXCEPT !.status = s, !.pay = p].status = s
        /\ [server[o] EXCEPT !.status = s, !.pay = p].pay = p
    BY <1>1 DEF Row
  <2>2. server'[o] = [server[o] EXCEPT !.status = s, !.pay = p]
        /\ \A x \in Order \ {o} : server'[x] = server[x]
    BY <1>5 DEF IInv, TypeOK
  <2> QED BY <2>1, <2>2 DEF LifeStatus, LifePay, CheckoutPageAssumption
<1>6. ASSUME NEW s \in Statuses, NEW p \in PayStatuses, Decided(o, s, p) PROVE Goal
  <2>1. server' = [server EXCEPT ![o] = [server[o] EXCEPT !.status = s, !.pay = p]]
    BY <1>6 DEF Decided
  <2>2. /\ server'[o] # None /\ \A x \in Order \ {o} : server'[x] = server[x]
        /\ LifeStatus(o)' = s /\ LifePay(o)' = p
    BY <1>5, <2>1
  <2>3. o \notin voided' /\ Life!Becomes(LifeStatus(o), LifePay(o), o \in late, LifeStatus(o)', LifePay(o)')
    BY <1>2, <1>6, <2>2 DEF Decided
  <2>4. Life!Moves(o)
    BY <1>2, <2>3, DecidedMoves
  <2> QED BY <1>6, <2>2, <2>4 DEF Decided
<1>7. ASSUME Voids(o) PROVE Goal
  <2>1. PICK s \in Statuses, p \in PayStatuses :
          server' = [server EXCEPT ![o] = [server[o] EXCEPT !.status = s, !.pay = p]]
    BY <1>7 DEF Voids
  <2>2. /\ server'[o] # None /\ \A x \in Order \ {o} : server'[x] = server[x]
        /\ LifeStatus(o)' = s /\ s # "absent"
    BY <1>5, <2>1 DEF Statuses
  <2>3. voided' = voided \cup {o} /\ late' = late
    BY <1>7 DEF Voids
  <2>4. Life!Moves(o)
    BY <1>2, <2>2, <2>3, VoidedMoves
  <2> QED BY <2>2, <2>3, <2>4
<1>8. Goal
  BY <1>3, <1>4, <1>6, <1>7 DEF ServerMoves
<1> HIDE DEF Goal
<1>9. \A x \in Order : Life!Moves(x)
  BY <1>8, StillMoves DEF Goal
<1>10. /\ late \subseteq late' /\ voided \subseteq voided'
       /\ \A x \in voided' : x \in voided \/ server[x] # None
       /\ \A x \in Order : server[x] # None => server'[x] # None
  BY <1>1, <1>8 DEF Goal
<1> QED BY <1>9, <1>10, AllMove, ExistKept

(* The server's answers: an order is placed, a receipt saved, a name changed. *)
LEMMA LifeAnswer ==
  ASSUME CheckoutPageAssumption, IInv, TypeOK', VoidedExist, NEW c \in calls,
         OrderPlaced(c) \/ ReceiptSaved(c) \/ NewNameHandled(c)
  PROVE  Life!Next /\ VoidedExist'
<1>1. UNCHANGED <<late, voided>>
  BY DEF OrderPlaced, ReceiptSaved, NewNameHandled
<1> DEFINE Goal == /\ \A x \in Order : server[x] # None => server'[x] # None
                   /\ \A x \in Order : Life!Moves(x)
<1>2. \A x \in Order : server[x] # None => server[x] \in Row
  BY DEF IInv, TypeOK
<1>3. ASSUME OrderPlaced(c) PROVE Goal
  <2>1. \A x \in Order : server[x] # None => server'[x] # None
    BY <1>3, PlacedRows
  <2>2. ASSUME NEW x \in Order PROVE Life!Moves(x)
    <3>1. CASE server'[x] = server[x]
      BY <3>1, StillMoves
    <3>2. CASE /\ server[x] = None /\ server'[x] # None
               /\ server'[x].status = "pending_payment" /\ server'[x].pay = "none"
      <4>1. LifeStatus(x) = "absent" /\ LifeStatus(x)' = "pending_payment" /\ LifePay(x)' = "none"
        BY <3>2 DEF LifeStatus, LifePay
      <4> QED BY <4>1, PlacedMoves
    <3>3. CASE /\ server[x] # None /\ server[x].status = "pending_payment"
               /\ server[x].pay = "none" \/ (x \in late /\ server[x].pay # "pending")
               /\ server'[x] # None /\ server'[x].status = "expired" /\ server'[x].pay = server[x].pay
      <4>1. /\ LifeStatus(x) = "pending_payment" /\ LifeStatus(x)' = "expired" /\ LifePay(x)' = LifePay(x)
            /\ LifePay(x) = "none" \/ (x \in late /\ LifePay(x) # "pending")
        BY <3>3 DEF LifeStatus, LifePay
      <4>2. Life!Becomes(LifeStatus(x), LifePay(x), x \in late, LifeStatus(x)', LifePay(x)')
        BY <4>1 DEF Life!Becomes
      <4>3. LifeStatus(x) # "absent" /\ LifeStatus(x)' # "absent"
        BY <4>1
      <4> QED BY <4>2, <4>3, DecidedMoves, VoidedMoves
    <3> QED BY <1>3, <3>1, <3>2, <3>3, PlacedRows
  <2> QED BY <2>1, <2>2
<1>4. ASSUME ReceiptSaved(c) \/ NewNameHandled(c) PROVE Goal
  <2>0. PICK o \in Order : o = c.id /\ server[o] # None
    BY <1>4 DEF ReceiptSaved, NewNameHandled, IInv, AskedInv, GoodCall, Placed
  <2>1. server[o] \in Row
    BY <1>2, <2>0
  <2>2. PICK r \in Row : /\ server' = [server EXCEPT ![o] = r] /\ r.status = server[o].status
                         /\ r.pay = "pending" \/ r.pay = server[o].pay
    <3>1. CASE ReceiptSaved(c)
      <4> DEFINE r == [server[o] EXCEPT !.pay = "pending"]
      <4>1. r \in Row /\ r.status = server[o].status /\ r.pay = "pending"
        BY <2>1 DEF Row, PayStatuses
      <4>2. server' = [server EXCEPT ![o] = r]
        BY <3>1, <2>0 DEF ReceiptSaved
      <4> QED BY <4>1, <4>2
    <3>2. CASE NewNameHandled(c)
      <4> DEFINE r == [server[o] EXCEPT !.rename = FALSE]
      <4>1. r \in Row /\ r.status = server[o].status /\ r.pay = server[o].pay
        BY <2>1 DEF Row
      <4> QED BY <3>2, <2>0, <4>1 DEF NewNameHandled
    <3> QED BY <1>4, <3>1, <3>2
  <2>3. /\ server'[o] = r /\ r # None
        /\ \A x \in Order \ {o} : server'[x] = server[x]
        /\ \A x \in Order : server[x] # None <=> server'[x] # None
    BY <2>0, <2>2, Rewritten
  <2>4. /\ LifeStatus(o)' = LifeStatus(o) /\ (LifePay(o)' = "pending" \/ LifePay(o)' = LifePay(o))
        /\ LifeStatus(o) # "absent"
    BY <2>0, <2>1, <2>2, <2>3 DEF LifeStatus, LifePay, Row, Statuses
  <2>5. Life!Moves(o)
    <3>1. CASE LifePay(o)' = LifePay(o)
      BY <2>4, <3>1 DEF Life!Moves, LifeStatus, LifePay
    <3>2. CASE LifePay(o)' = "pending"
      <4>1. Life!Becomes(LifeStatus(o), LifePay(o), o \in late, LifeStatus(o)', LifePay(o)')
        BY <2>4, <3>2 DEF Life!Becomes
      <4>2. LifeStatus(o)' # "absent"
        BY <2>4
      <4> QED BY <2>4, <4>1, <4>2, DecidedMoves, VoidedMoves
    <3> QED BY <2>4, <3>1, <3>2
  <2> QED BY <2>3, <2>5, StillMoves
<1>5. Goal
  BY <1>3, <1>4
<1> HIDE DEF Goal
<1> QED BY <1>1, <1>5, AllMove, ExistKept DEF Goal

(* The page itself leaves the server's rows alone. *)
LEMMA LifeStep ==
  ASSUME CheckoutPageAssumption, IInv, TypeOK', VoidedExist, [Next]_vars
  PROVE  [Life!Next]_(Life!lifeVars) /\ VoidedExist'
<1> USE DEF serverVars, rows
<1>1. CASE UNCHANGED <<server, late, voided>>
  BY <1>1 DEF Life!lifeVars, VoidedExist, Placed
<1>2. CASE \E c \in calls : OrderPlaced(c) \/ ReceiptSaved(c) \/ NewNameHandled(c)
  BY <1>2, LifeAnswer
<1>3. CASE \E o \in Order : ServerMoves(o)
  BY <1>3, LifeServer
<1>4. CASE Reload \/ Arrive \/ Leave \/ Close
  BY <1>1, <1>4 DEF Reload, Arrive, Leave, Close
<1>5. CASE \/ \E p \in Plan : Choose(p)
           \/ \E p \in quotes : QuoteArrives(p)
           \/ ApplyCode \/ CreateOrder \/ StartOver
  BY <1>1, <1>5 DEF Choose, QuoteArrives, ApplyCode, CreateOrder, StartOver
<1>6. CASE \/ Poll \/ Hide \/ Show
           \/ \E q \in polls : PollRead(q) \/ PollArrives(q) \/ PollLost(q)
  BY <1>1, <1>6 DEF Poll, Hide, Show, PollRead, PollArrives, PollLost
<1>7. CASE UploadReceipt \/ SendNewName
  BY <1>1, <1>7 DEF UploadReceipt, SendNewName
<1>8. CASE \E c \in calls : OrderRead(c) \/ ReceiptChecked(c) \/ Refused(c) \/ Arrives(c) \/ CallLost(c)
  <2>1. CASE \E c \in calls : OrderRead(c) \/ ReceiptChecked(c) \/ Refused(c) \/ CallLost(c)
    BY <1>1, <2>1 DEF OrderRead, ReceiptChecked, Refused, CallLost
  <2>2. CASE \E c \in calls : Arrives(c)
    BY <1>1, <2>2 DEF Arrives, ShowOrder, ShowOrderLeft, RestoreFails, PostRefused, ReceiptAnswered
  <2> QED BY <1>8, <2>1, <2>2
<1>9. CASE UNCHANGED vars
  BY <1>1, <1>9 DEF vars
<1>10. CASE \E c \in calls : Handled(c)
  BY <1>2, <1>8, <1>10 DEF Handled
<1> QED BY <1>3, <1>4, <1>5, <1>6, <1>7, <1>8, <1>9, <1>10 DEF Next

(* What the page is written against is what OrderLife allows, and Checkout is shown to do no more
   (CheckoutProofs): the page's theorems hold with the real server behind it. *)
THEOREM PageImplementsLife == Spec => LifeSpec
<1>1. Init => Life!Init /\ VoidedExist
  BY DEF Init, Life!Init, VoidedExist
<1>2. IInv => TypeOK
  BY DEF IInv
<1>3. CheckoutPageAssumption /\ IInv /\ TypeOK' /\ VoidedExist /\ [Next]_vars
        => [Life!Next]_(Life!lifeVars) /\ VoidedExist'
  BY LifeStep
<1> QED BY <1>1, <1>2, <1>3, PageInvariant, CheckoutPageAssumption, PTL DEF Spec, LifeSpec, Life!Spec
=============================================================================
