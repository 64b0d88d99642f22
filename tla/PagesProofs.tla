---------------------------- MODULE PagesProofs ----------------------------
(***************************************************************************)
(* Proofs about Pages, for every catalogue of pages and operations, any    *)
(* choices, any changes of this person and of others, and any bounds.      *)
(***************************************************************************)
EXTENDS Pages, TLAPS

(* Reads whose answer the page will show. *)
Active(q) == ~Dropped(q)

(* The rows on screen are those of the choice now made and know what was confirmed. *)
Good == shown # None /\ shown.of = {wanted} /\ acked \subseteq shown.seen

(* What an operation under way shows already and takes back if it is refused. *)
Phantom == IF Under /\ call.op.then = "undo" THEN {call.c} ELSE {}
Optimistic == \E o \in page.ops : o.then = "optimistic"
Clean == Optimistic \/ shown.seen \subseteq done \cup Phantom

(* Answers know only what was done, one read is the newest, and a page that shows every answer has
   one read at a time as long as nothing could cross. *)
ReadInv ==
  /\ \A q \in reads : q.got # None => q.got \subseteq done
  /\ \A q, r \in reads : q.newest /\ r.newest => q = r
  /\ ~crossed /\ page.late = "shown" => \A q, r \in reads : q = r

(* The operation is one of the page, what is asked about shows nothing at once, and its answer knows
   what was confirmed, itself included. *)
CallInv ==
  /\ acked \subseteq done
  /\ call # None =>
       /\ call.op \in page.ops
       /\ call.st \in {"asking", "asked"} => ~AtOnce(call.op)
       /\ call.st = "done" => call.c \in done /\ acked \cup {call.c} \subseteq call.got /\ call.got \subseteq done

(* While an operation that changes the rows by itself is under way nothing is read, and what is
   shown at once stays on screen. *)
DrawInv ==
  ~crossed /\ Redraws(call) =>
    /\ reads = {}
    /\ AtOnce(call.op) => shown # None /\ call.c \in shown.seen

(* Whatever answer will be shown is one of the choice now made and knows what was confirmed; with
   none to come, the rows are right already. *)
SettleInv ==
  ~crossed /\ ~timer =>
    /\ \A q \in reads : Active(q) => /\ q.f = wanted
                                     /\ q.got # None => acked \subseteq q.got
                                     /\ q.more => Good
    /\ (\A q \in reads : ~Active(q)) => failed \/ (Good /\ Clean)

IInv == TypeOK /\ ReadInv /\ CallInv /\ DrawInv /\ SettleInv
-----------------------------------------------------------------------------
LEMMA PageType ==
  ASSUME PagesAssumption, TypeOK
  PROVE  /\ page \in ListPage /\ page.ops \subseteq Operation
         /\ \A o \in page.ops : AtOnce(o) => o.asks = "none"
         /\ page.late \in {"shown", "dropped"} /\ page.by \in {"none", "pick", "pause", "hop"}
BY DEF PagesAssumption, TypeOK, ListPage

(* A read that starts is the newest and the only one that is not an older one. *)
LEMMA ReadStarts ==
  ASSUME TypeOK, ReadInv, NEW f \in Filter, NEW more \in BOOLEAN, NEW stale \in BOOLEAN,
         StartRead(f, more, stale)
  PROVE  LET new == [f |-> f, newest |-> TRUE, more |-> more, got |-> None] IN
         /\ reads' \subseteq Read /\ new \in reads' /\ crossed' \in BOOLEAN
         /\ \A q \in reads' : q.newest => q = new
         /\ \A q \in reads' : q.got # None => q.got \subseteq done
         /\ ~crossed' => /\ ~stale /\ ~Redraws(call)
                         /\ page.late = "shown" => reads = {} /\ reads' = {new}
                         /\ more => ~crossed /\ ~failed /\ reads = {}
<1> DEFINE new == [f |-> f, newest |-> TRUE, more |-> more, got |-> None]
           older == {[q EXCEPT !.newest = FALSE] : q \in reads}
<1>1. reads' = older \cup {new}
  BY DEF StartRead
<1>2. new \in Read /\ new \in reads'
  BY <1>1 DEF Read
<1>3. ASSUME NEW q \in reads
      PROVE  LET p == [q EXCEPT !.newest = FALSE] IN p \in Read /\ p.newest = FALSE /\ p.got = q.got
  BY DEF TypeOK, Read
<1>4. \A p \in older : p \in Read /\ p.newest = FALSE /\ \E q \in reads : p.got = q.got
  BY <1>3
<1>5. \A q \in reads' : q.newest => q = new
  BY <1>1, <1>4
<1>6. \A q \in reads' : q.got # None => q.got \subseteq done
  BY <1>1, <1>4 DEF ReadInv
<1>7. crossed' = \/ stale \/ Redraws(call)
                 \/ crossed /\ (more \/ reads # {})
                 \/ reads # {} /\ (more \/ page.late = "shown")
                 \/ more /\ failed
  BY DEF StartRead
<1>8. crossed' \in BOOLEAN
  BY <1>7
<1>9. ~crossed' => /\ ~stale /\ ~Redraws(call)
                   /\ page.late = "shown" => reads = {}
                   /\ more => ~crossed /\ ~failed /\ reads = {}
  BY <1>7, Zenon
<1>10. reads = {} => reads' = {new}
  BY <1>1
<1> QED BY <1>1, <1>2, <1>4, <1>5, <1>6, <1>8, <1>9, <1>10

(* Such a read is what the page waits for, if it is one of the choice now made. *)
LEMMA ReadStartsInv ==
  ASSUME PagesAssumption, TypeOK, ReadInv, NEW f \in Filter, NEW more \in BOOLEAN, NEW stale \in BOOLEAN,
         StartRead(f, more, stale), page' = page, done' = done,
         ~crossed' /\ ~timer' => f = wanted',
         ~crossed' /\ ~timer' /\ more => Good'
  PROVE  ReadInv' /\ SettleInv'
<1> DEFINE new == [f |-> f, newest |-> TRUE, more |-> more, got |-> None]
<1>1. /\ reads' \subseteq Read /\ new \in reads'
      /\ \A q \in reads' : q.newest => q = new
      /\ \A q \in reads' : q.got # None => q.got \subseteq done
      /\ ~crossed' => (page.late = "shown" => reads' = {new})
  BY ReadStarts
<1>2. page.late \in {"shown", "dropped"}
  BY PageType
<1>3. ReadInv'
  BY <1>1 DEF ReadInv
<1>4. ASSUME ~crossed', NEW q \in reads', Active(q)' PROVE q = new
  BY <1>1, <1>2, <1>4 DEF Active, Dropped
<1>5. Active(new)'
  BY DEF Active, Dropped
<1>6. ASSUME ~crossed', ~timer', NEW q \in reads', Active(q)'
      PROVE  q.f = wanted' /\ q.got = None /\ (q.more => Good')
  BY <1>4, <1>6
<1>7. SettleInv'
  BY <1>1, <1>5, <1>6 DEF SettleInv
<1> QED BY <1>3, <1>7
-----------------------------------------------------------------------------
LEMMA InitIInv == PagesAssumption /\ Init => IInv
<1> SUFFICES ASSUME PagesAssumption, Init PROVE IInv
  OBVIOUS
<1> DEFINE first == [f |-> First, newest |-> TRUE, more |-> FALSE, got |-> None]
<1>1. reads = {first} /\ first \in Read
  BY DEF Init, Read, PagesAssumption
<1>2. TypeOK
  BY <1>1 DEF TypeOK, Init, PagesAssumption
<1>3. ReadInv /\ CallInv
  BY <1>1 DEF ReadInv, CallInv, Init
<1>4. DrawInv
  BY DEF DrawInv, Redraws, Init
<1>5. Active(first)
  BY DEF Active, Dropped
<1>6. SettleInv
  BY <1>1, <1>5 DEF SettleInv, Init
<1> QED BY <1>2, <1>3, <1>4, <1>6 DEF IInv

(* What a read that starts leaves to show of a step that does nothing else to the rows. *)
LEMMA StartsIInv ==
  ASSUME PagesAssumption, IInv, NEW f \in Filter, NEW more \in BOOLEAN,
         StartRead(f, more, FALSE), UNCHANGED <<page, done, call, acked>>,
         wanted' \in Filter, timer' \in BOOLEAN, shown' = None \/ shown' \in Rows,
         owed' \in BOOLEAN, event' \in BOOLEAN, failed' \in BOOLEAN, picks' \in Nat, fails' \in Nat,
         ~crossed' /\ ~timer' => f = wanted',
         ~crossed' /\ ~timer' /\ more => Good'
  PROVE  IInv'
<1>1. TypeOK /\ ReadInv /\ CallInv
  BY DEF IInv
<1>2. reads' \subseteq Read /\ crossed' \in BOOLEAN /\ (~crossed' => ~Redraws(call))
  BY <1>1, ReadStarts
<1>3. TypeOK'
  BY <1>1, <1>2 DEF TypeOK
<1>4. ReadInv' /\ SettleInv'
  BY <1>1, ReadStartsInv
<1>5. CallInv'
  BY <1>1 DEF CallInv
<1>6. Redraws(call)' = Redraws(call)
  BY DEF Redraws
<1>7. DrawInv'
  BY <1>2, <1>6 DEF DrawInv
<1> QED BY <1>3, <1>4, <1>5, <1>7 DEF IInv

LEMMA ChooseIInv == ASSUME PagesAssumption, IInv, NEW f \in Filter, Choose(f) PROVE IInv'
<1>1. /\ UNCHANGED <<page, done, call, owed, event, failed, fails, acked>>
      /\ wanted' = f /\ picks' = picks + 1 /\ (shown' = None \/ shown' = shown)
  BY DEF Choose
<1> picks' \in Nat /\ (shown' = None \/ shown' \in Rows)
  BY <1>1 DEF IInv, TypeOK
<1>2. CASE page.by = "pause"
  <2>1. timer' = TRUE /\ UNCHANGED <<reads, shown, crossed>>
    BY <1>2 DEF Choose
  <2>2. TypeOK'
    BY <1>1, <2>1 DEF IInv, TypeOK
  <2>3. ReadInv' /\ CallInv'
    BY <1>1, <2>1 DEF IInv, ReadInv, CallInv
  <2>4. DrawInv'
    BY <1>1, <2>1 DEF IInv, DrawInv, Redraws
  <2>5. SettleInv'
    BY <2>1 DEF SettleInv
  <2> QED BY <2>2, <2>3, <2>4, <2>5 DEF IInv
<1>3. CASE page.by # "pause"
  <2>1. StartRead(f, FALSE, FALSE) /\ timer' = timer
    BY <1>3 DEF Choose
  <2> QED BY <1>1, <2>1, StartsIInv DEF IInv, TypeOK
<1> QED BY <1>2, <1>3

LEMMA TypedIInv == ASSUME PagesAssumption, IInv, Typed PROVE IInv'
<1>1. /\ UNCHANGED <<page, wanted, done, call, owed, event, failed, picks, fails, acked>>
      /\ timer' = FALSE /\ StartRead(wanted, FALSE, FALSE) /\ (shown' = None \/ shown' \in Rows)
  BY DEF Typed, IInv, TypeOK
<1> QED BY <1>1, StartsIInv DEF IInv, TypeOK

LEMMA HeardPollIInv == ASSUME PagesAssumption, IInv, Heard \/ Poll PROVE IInv'
<1>1. /\ UNCHANGED <<page, wanted, timer, shown, done, call, owed, failed, picks, fails, acked>>
      /\ event' \in BOOLEAN /\ StartRead(wanted, FALSE, FALSE)
  BY DEF Heard, Poll, IInv, TypeOK
<1> QED BY <1>1, StartsIInv DEF IInv, TypeOK

(* If nothing crosses, more rows are asked for when the rows there are right. *)
LEMMA MoreIInv == ASSUME PagesAssumption, IInv, More PROVE IInv'
<1>1. /\ UNCHANGED <<page, wanted, timer, shown, done, call, owed, event, failed, picks, fails, acked>>
      /\ StartRead(wanted, TRUE, FALSE)
  BY DEF More
<1>2. ~crossed' => ~crossed /\ ~failed /\ reads = {}
  BY <1>1, ReadStarts DEF IInv, TypeOK
<1>3. ~crossed /\ ~failed /\ reads = {} /\ ~timer => Good
  BY <1>1 DEF IInv, SettleInv
<1>4. Good => Good'
  BY <1>1 DEF Good
<1>5. ~crossed' /\ ~timer' => Good'
  BY <1>1, <1>2, <1>3, <1>4
<1> QED BY <1>1, <1>5, StartsIInv DEF IInv, TypeOK
-----------------------------------------------------------------------------
(* Answers of reads. *)
LEMMA ServeIInv == ASSUME IInv, NEW q \in reads, Serve(q) PROVE IInv'
<1> DEFINE p == [q EXCEPT !.got = done]
<1>1. /\ reads' = (reads \ {q}) \cup {p} /\ q.got = None
      /\ UNCHANGED <<page, wanted, timer, shown, done, call, owed, event, failed, picks, fails, acked, crossed>>
  BY DEF Serve
<1>2. q \in Read /\ done \subseteq Change
  BY DEF IInv, TypeOK
<1>3. p \in Read /\ p.f = q.f /\ p.newest = q.newest /\ p.more = q.more /\ p.got = done
  BY <1>2 DEF Read
<1>4. TypeOK'
  BY <1>1, <1>3 DEF IInv, TypeOK
<1>5. ReadInv'
  BY <1>1, <1>3 DEF IInv, ReadInv
<1>6. CallInv'
  BY <1>1 DEF IInv, CallInv
<1>7. DrawInv'
  BY <1>1 DEF IInv, DrawInv, Redraws
<1>8. Active(p)' <=> Active(q)
  BY <1>1, <1>3 DEF Active, Dropped
<1>9. Good' <=> Good
  BY <1>1 DEF Good
<1>10. \A r \in reads : Active(r)' <=> Active(r)
  BY <1>1 DEF Active, Dropped
<1>11. Clean' <=> Clean
  BY <1>1 DEF Clean, Optimistic, Phantom, Under
<1>12. ASSUME ~crossed, ~timer, NEW r \in reads', Active(r)'
       PROVE  /\ r.f = wanted
              /\ r.got # None => acked \subseteq r.got
              /\ r.more => Good
  <2>1. CASE r = p
    <3>1. Active(q)
      BY <1>1, <1>3, <1>12, <2>1 DEF Active, Dropped
    <3>2. q.f = wanted /\ (q.more => Good) /\ acked \subseteq done
      BY <1>12, <3>1 DEF IInv, SettleInv, CallInv
    <3> QED BY <1>3, <2>1, <3>2
  <2>2. CASE r \in reads
    BY <1>10, <1>12, <2>2 DEF IInv, SettleInv
  <2> QED BY <1>1, <2>1, <2>2
<1>13. (\A r \in reads' : ~Active(r)') => \A r \in reads : ~Active(r)
  BY <1>1, <1>8, <1>10
<1>14. SettleInv'
  BY <1>1, <1>9, <1>11, <1>12, <1>13 DEF IInv, SettleInv
<1> QED BY <1>4, <1>5, <1>6, <1>7, <1>14 DEF IInv

LEMMA ArriveIInv == ASSUME PagesAssumption, IInv, NEW q \in reads, Arrive(q) PROVE IInv'
<1> USE DEF Arrive
<1>1. /\ reads' = reads \ {q} /\ q.got # None
      /\ UNCHANGED <<page, wanted, timer, done, call, owed, event, picks, fails, acked, crossed>>
  OBVIOUS
<1>2. q \in Read /\ q.got \in SUBSET Change
  BY DEF IInv, TypeOK, Read
<1>3. [of |-> {q.f}, seen |-> q.got] \in Rows
  BY <1>2 DEF Read, Rows
<1>4. ASSUME shown # None
      PROVE  [of |-> shown.of \cup {q.f}, seen |-> shown.seen \cap q.got] \in Rows
  BY <1>2, <1>4 DEF IInv, TypeOK, Read, Rows
<1>5. shown' = None \/ shown' \in Rows
  BY <1>3, <1>4 DEF IInv, TypeOK
<1>6. failed' \in BOOLEAN
  BY DEF IInv, TypeOK
<1>7. TypeOK'
  BY <1>1, <1>5, <1>6 DEF IInv, TypeOK
<1>8. ReadInv' /\ CallInv'
  BY <1>1 DEF IInv, ReadInv, CallInv
<1>9. DrawInv'
  BY <1>1 DEF IInv, DrawInv, Redraws
<1>10. \A r \in reads : Active(r)' <=> Active(r)
  BY <1>1 DEF Active, Dropped
<1>11. CASE Dropped(q)
  <2>1. UNCHANGED <<shown, failed>>
    BY <1>11
  <2>2. (Good' <=> Good) /\ (Clean' <=> Clean)
    BY <1>1, <2>1 DEF Good, Clean, Optimistic, Phantom, Under
  <2>3. (\A r \in reads' : ~Active(r)') => \A r \in reads : ~Active(r)
    BY <1>1, <1>10, <1>11 DEF Active
  <2>4. SettleInv'
    BY <1>1, <1>10, <2>1, <2>2, <2>3 DEF IInv, SettleInv
  <2> QED BY <1>7, <1>8, <1>9, <2>4 DEF IInv
<1>12. CASE ~Dropped(q)
  <2>1. shown' = IF q.more /\ shown # None
                 THEN [of |-> shown.of \cup {q.f}, seen |-> shown.seen \cap q.got]
                 ELSE [of |-> {q.f}, seen |-> q.got]
    BY <1>12
  <2> SUFFICES ASSUME ~crossed, ~timer PROVE SettleInv'
    BY <1>1, <1>7, <1>8, <1>9 DEF IInv, SettleInv
  <2>2. q.f = wanted /\ acked \subseteq q.got /\ (q.more => Good)
    BY <1>1, <1>12 DEF IInv, SettleInv, Active
  <2>3. shown' # None
    BY <1>3, <1>4, <2>1 DEF PagesAssumption
  <2>4. shown'.of = {wanted} /\ acked \subseteq shown'.seen /\ shown'.seen \subseteq q.got
    BY <2>1, <2>2 DEF Good
  <2>5. Good'
    BY <1>1, <2>3, <2>4 DEF Good
  <2>6. Clean'
    BY <1>1, <2>4 DEF Clean, IInv, ReadInv
  <2>7. ASSUME NEW r \in reads', Active(r)'
        PROVE  r.f = wanted /\ (r.got # None => acked \subseteq r.got)
    BY <1>1, <1>10, <2>7 DEF IInv, SettleInv
  <2> QED BY <1>1, <2>5, <2>6, <2>7 DEF SettleInv
<1> QED BY <1>11, <1>12

LEMMA ReadFailsIInv == ASSUME PagesAssumption, IInv, NEW q \in reads, ReadFails(q) PROVE IInv'
<1>1. /\ reads' = reads \ {q} /\ fails' = fails + 1
      /\ UNCHANGED <<page, wanted, timer, done, call, owed, event, picks, acked, crossed>>
  BY DEF ReadFails
<1>2. AfterError = None \/ AfterError \in Rows
  BY DEF AfterError, Empty, Rows, IInv, TypeOK
<1>3. (shown' = None \/ shown' \in Rows) /\ failed' \in BOOLEAN
  BY <1>2 DEF ReadFails, IInv, TypeOK
<1>4. TypeOK'
  BY <1>1, <1>3 DEF IInv, TypeOK
<1>5. ReadInv' /\ CallInv'
  BY <1>1 DEF IInv, ReadInv, CallInv
<1>6. DrawInv'
  BY <1>1 DEF IInv, DrawInv, Redraws
<1>7. \A r \in reads : Active(r)' <=> Active(r)
  BY <1>1 DEF Active, Dropped
<1>8. CASE Dropped(q)
  <2>1. UNCHANGED <<shown, failed>>
    BY <1>8 DEF ReadFails
  <2>2. (Good' <=> Good) /\ (Clean' <=> Clean)
    BY <1>1, <2>1 DEF Good, Clean, Optimistic, Phantom, Under
  <2>3. (\A r \in reads' : ~Active(r)') => \A r \in reads : ~Active(r)
    BY <1>1, <1>7, <1>8 DEF Active
  <2>4. SettleInv'
    BY <1>1, <1>7, <2>1, <2>2, <2>3 DEF IInv, SettleInv
  <2> QED BY <1>4, <1>5, <1>6, <2>4 DEF IInv
<1>9. CASE ~Dropped(q)
  <2>1. failed'
    BY <1>9 DEF ReadFails
  <2>2. ASSUME ~crossed, ~timer, NEW r \in reads', Active(r)' PROVE FALSE
    <3>1. r # q /\ r \in reads /\ Active(r) /\ Active(q)
      BY <1>1, <1>7, <1>9, <2>2 DEF Active
    <3>2. page.late \in {"shown", "dropped"}
      BY PageType DEF IInv
    <3> QED BY <2>2, <3>1, <3>2 DEF IInv, ReadInv, Active, Dropped
  <2>3. SettleInv'
    BY <1>1, <2>1, <2>2 DEF SettleInv
  <2> QED BY <1>4, <1>5, <1>6, <2>3 DEF IInv
<1> QED BY <1>8, <1>9

LEMMA OtherIInv == ASSUME IInv, NEW x \in Theirs, Other(x) PROVE IInv'
<1>1. /\ done' = done \cup {x}
      /\ UNCHANGED <<page, wanted, timer, reads, shown, call, event, failed, picks, fails, acked, crossed>>
  BY DEF Other
<1>2. owed' \in BOOLEAN
  BY DEF Other
<1>3. TypeOK'
  BY <1>1, <1>2 DEF IInv, TypeOK, Change
<1>4. ReadInv' /\ CallInv'
  BY <1>1 DEF IInv, ReadInv, CallInv
<1>5. DrawInv'
  BY <1>1 DEF IInv, DrawInv, Redraws
<1>6. \A r \in reads : Active(r)' <=> Active(r)
  BY <1>1 DEF Active, Dropped
<1>7. (Good' <=> Good) /\ Optimistic' = Optimistic /\ Phantom' = Phantom
  BY <1>1 DEF Good, Optimistic, Phantom, Under
<1>8. Clean => Clean'
  BY <1>1, <1>7 DEF Clean
<1>9. SettleInv'
  BY <1>1, <1>6, <1>7, <1>8 DEF IInv, SettleInv
<1> QED BY <1>3, <1>4, <1>5, <1>9 DEF IInv

LEMMA ToldIInv == ASSUME IInv, Told PROVE IInv'
<1>1. /\ event' \in BOOLEAN /\ owed' \in BOOLEAN
      /\ UNCHANGED <<page, wanted, timer, reads, shown, done, call, failed, picks, fails, acked, crossed>>
  BY DEF Told
<1>2. TypeOK'
  BY <1>1 DEF IInv, TypeOK
<1>3. ReadInv' /\ CallInv'
  BY <1>1 DEF IInv, ReadInv, CallInv
<1>4. DrawInv'
  BY <1>1 DEF IInv, DrawInv, Redraws
<1>5. \A r \in reads : Active(r)' <=> Active(r)
  BY <1>1 DEF Active, Dropped
<1>6. (Good' <=> Good) /\ (Clean' <=> Clean)
  BY <1>1 DEF Good, Clean, Optimistic, Phantom, Under
<1>7. SettleInv'
  BY <1>1, <1>5, <1>6 DEF IInv, SettleInv
<1> QED BY <1>2, <1>3, <1>4, <1>7 DEF IInv
-----------------------------------------------------------------------------
(* Operations. *)
LEMMA CallType ==
  ASSUME TypeOK, call # None
  PROVE  /\ call.op \in Operation /\ call.c \in Mine /\ call.at \in Filter
         /\ call.st \in {"asking", "asked", "sent", "done", "refused"}
         /\ \A st \in {"asking", "asked", "sent", "done", "refused"} :
              LET k == [call EXCEPT !.st = st] IN
              k \in Call /\ k.st = st /\ k.op = call.op /\ k.c = call.c /\ k.at = call.at /\ k.got = call.got
         /\ \A got \in SUBSET Change :
              LET k == [call EXCEPT !.st = "done", !.got = got] IN
              k \in Call /\ k.st = "done" /\ k.op = call.op /\ k.c = call.c /\ k.at = call.at /\ k.got = got
BY DEF TypeOK, Call

LEMMA ClickIInv ==
  ASSUME PagesAssumption, IInv, NEW o \in page.ops, NEW c \in Mine, Click(o, c) PROVE IInv'
<1> DEFINE st == CASE o.asks = "preview" -> "asking" [] o.asks = "dialog" -> "asked" [] OTHER -> "sent"
           k == [op |-> o, c |-> c, at |-> wanted, saw |-> shown.of, got |-> {},
                 on |-> IF page.by = "hop" THEN {wanted} ELSE shown.of, st |-> st]
<1>1. /\ call = None /\ shown # None /\ shown # Empty /\ call' = k
      /\ UNCHANGED <<page, wanted, timer, reads, done, owed, event, failed, picks, fails, acked>>
  BY DEF Click
<1>2. shown \in Rows
  BY <1>1 DEF IInv, TypeOK
<1>3. st \in {"asking", "asked", "sent"} /\ k.st = st /\ k.op = o /\ k.c = c
  OBVIOUS
<1>4. o \in Operation /\ (AtOnce(o) => o.asks = "none")
  BY PageType DEF IInv
<1>5. k \in Call
  <2>1. shown.of \in SUBSET Filter /\ wanted \in Filter /\ {} \in SUBSET Change
    BY <1>2 DEF Rows, IInv, TypeOK
  <2> QED BY <1>3, <1>4, <2>1 DEF Call
<1>6. shown' = IF o.asks = "none" /\ AtOnce(o) THEN [shown EXCEPT !.seen = @ \cup {c}] ELSE shown
  BY DEF Click
<1>7. LET s == [shown EXCEPT !.seen = @ \cup {c}] IN
      s \in Rows /\ s.of = shown.of /\ s.seen = shown.seen \cup {c}
  BY <1>2 DEF Rows, Change
<1>8. shown' \in Rows /\ shown'.of = shown.of /\ shown.seen \subseteq shown'.seen
      /\ shown'.seen \subseteq shown.seen \cup {c} /\ (AtOnce(o) => c \in shown'.seen)
      /\ (~AtOnce(o) => shown' = shown)
  BY <1>2, <1>4, <1>6, <1>7
<1>9. crossed' = (crossed \/ (reads # {} /\ Redraws(k)))
  BY <1>1 DEF Click, Redraws
<1>10. crossed' \in BOOLEAN /\ (~crossed' => ~crossed /\ ~(reads # {} /\ Redraws(k)))
  BY <1>9
<1>11. TypeOK'
  BY <1>1, <1>5, <1>8, <1>10 DEF IInv, TypeOK
<1>12. ReadInv'
  BY <1>1, <1>10 DEF IInv, ReadInv
<1>13. CallInv'
  <2>1. st \in {"asking", "asked"} => ~AtOnce(o)
    BY <1>4
  <2> QED BY <1>1, <1>3, <2>1 DEF IInv, CallInv, AtOnce
<1>14. shown' # None
  BY <1>8 DEF PagesAssumption
<1>15. DrawInv'
  <2>1. Redraws(call)' <=> Redraws(k)
    BY <1>1 DEF Redraws
  <2> QED BY <1>1, <1>3, <1>8, <1>10, <1>14, <2>1 DEF DrawInv
<1>16. \A r \in reads : Active(r)' <=> Active(r)
  BY <1>1 DEF Active, Dropped
<1>17. Good => Good'
  BY <1>1, <1>8, <1>14 DEF Good
<1>18. Clean => Clean'
  <2>1. CASE AtOnce(o)
    <3>1. CASE o.then = "optimistic"
      BY <1>1, <3>1 DEF Clean, Optimistic
    <3>2. CASE o.then = "undo"
      <4>1. o.asks = "none" /\ st = "sent"
        BY <1>4, <2>1
      <4>2. Phantom' = {c}
        BY <1>1, <1>3, <1>5, <3>2, <4>1 DEF Phantom, Under, PagesAssumption
      <4> QED BY <1>1, <1>8, <4>2 DEF Clean, Optimistic, Phantom, Under
    <3> QED BY <2>1, <3>1, <3>2 DEF AtOnce
  <2>2. CASE ~AtOnce(o)
    BY <1>1, <1>8, <2>2 DEF Clean, Optimistic, Phantom, Under
  <2> QED BY <2>1, <2>2
<1>19. SettleInv'
  BY <1>1, <1>10, <1>16, <1>17, <1>18 DEF IInv, SettleInv
<1> QED BY <1>11, <1>12, <1>13, <1>15, <1>19 DEF IInv

(* A step of the operation that is not its end: the dialog, the click on its button, the server. *)
LEMMA CallStep ==
  ASSUME PagesAssumption, IInv, call # None, call' = None \/ call' \in Call,
         UNCHANGED <<page, wanted, timer, reads, shown, owed, event, failed, picks, acked>>,
         done \subseteq done', done' \subseteq Change, fails' \in Nat, crossed' \in BOOLEAN,
         ~crossed' => ~crossed /\ (Redraws(call)' => reads = {}),
         CallInv',
         Redraws(call)' /\ AtOnce(call'.op) => Redraws(call) /\ call'.op = call.op /\ call'.c = call.c,
         Phantom \subseteq done' \cup Phantom'
  PROVE  IInv'
<1>1. TypeOK'
  BY DEF IInv, TypeOK
<1>2. ReadInv'
  <2>1. \A q \in reads : q.got # None => q.got \subseteq done'
    BY DEF IInv, ReadInv
  <2> QED BY <2>1 DEF IInv, ReadInv
<1>3. DrawInv'
  BY DEF IInv, DrawInv
<1>4. \A r \in reads : Active(r)' <=> Active(r)
  BY DEF Active, Dropped
<1>5. (Good' <=> Good) /\ Optimistic' = Optimistic
  BY DEF Good, Optimistic
<1>6. Clean => Clean'
  BY <1>5 DEF Clean
<1>7. SettleInv'
  BY <1>4, <1>5, <1>6 DEF IInv, SettleInv
<1> QED BY <1>1, <1>2, <1>3, <1>7 DEF IInv

LEMMA PreviewedIInv == ASSUME PagesAssumption, IInv, Previewed PROVE IInv'
<1>1. /\ call # None /\ call.st = "asking"
      /\ call' = None \/ call' = [call EXCEPT !.st = "asked"]
      /\ UNCHANGED <<page, wanted, timer, reads, shown, done, owed, event, failed, picks, acked, crossed>>
      /\ fails' = fails \/ fails' = fails + 1
  BY DEF Previewed
<1>2. call' # None => call' \in Call /\ call'.st = "asked" /\ call'.op = call.op
  BY <1>1, CallType DEF IInv
<1>3. ~Redraws(call)' /\ Phantom = {}
  BY <1>1, <1>2 DEF Redraws, Phantom, Under
<1>4. CallInv'
  BY <1>1, <1>2 DEF IInv, CallInv
<1>5. crossed \in BOOLEAN /\ fails' \in Nat /\ done \subseteq Change
  BY <1>1 DEF IInv, TypeOK
<1> QED BY <1>1, <1>2, <1>3, <1>4, <1>5, CallStep

LEMMA CancelIInv == ASSUME PagesAssumption, IInv, Cancel PROVE IInv'
<1>1. /\ call # None /\ call.st = "asked" /\ call' = None
      /\ UNCHANGED <<page, wanted, timer, reads, shown, done, owed, event, failed, picks, fails, acked, crossed>>
  BY DEF Cancel
<1>2. ~Redraws(call)' /\ Phantom = {}
  BY <1>1 DEF Redraws, Phantom, Under
<1>3. CallInv'
  BY <1>1 DEF IInv, CallInv
<1>4. crossed \in BOOLEAN /\ fails' \in Nat /\ done \subseteq Change
  BY <1>1 DEF IInv, TypeOK
<1> QED BY <1>1, <1>2, <1>3, <1>4, CallStep

(* What is shown at once has no dialog, so what a dialog starts shows nothing yet. *)
LEMMA ConfirmIInv ==
  ASSUME PagesAssumption, IInv, Confirm PROVE IInv'
<1>1. /\ call # None /\ call.st = "asked" /\ call' = [call EXCEPT !.st = "sent"]
      /\ UNCHANGED <<page, wanted, timer, reads, shown, done, owed, event, failed, picks, fails, acked>>
  BY DEF Confirm
<1>2. call' \in Call /\ call'.st = "sent" /\ call'.op = call.op /\ call'.c = call.c
  BY <1>1, CallType DEF IInv
<1>3. crossed' = (crossed \/ (reads # {} /\ Redraws(call)'))
  BY DEF Confirm, Redraws
<1>4. crossed' \in BOOLEAN /\ (~crossed' => ~crossed /\ (Redraws(call)' => reads = {}))
  BY <1>3
<1>5. ~AtOnce(call'.op) /\ Phantom = {}
  BY <1>1, <1>2 DEF Phantom, Under, IInv, CallInv, AtOnce
<1>6. CallInv'
  BY <1>1, <1>2 DEF IInv, CallInv
<1>7. fails' \in Nat /\ done \subseteq Change
  BY <1>1 DEF IInv, TypeOK
<1> QED BY <1>1, <1>2, <1>4, <1>5, <1>6, <1>7, CallStep

LEMMA HandleIInv == ASSUME PagesAssumption, IInv, Handle PROVE IInv'
<1>1. /\ call # None /\ call.st = "sent"
      /\ UNCHANGED <<page, wanted, timer, reads, shown, owed, event, failed, picks, acked, crossed>>
      /\ \/ /\ done' = done \cup {call.c} /\ fails' = fails
            /\ call' = [call EXCEPT !.st = "done", !.got = done']
         \/ /\ call' = [call EXCEPT !.st = "refused"] /\ fails' = fails + 1
            /\ done' \in {done, done \cup {call.c}}
  BY DEF Handle
<1>2. call.c \in Mine /\ done \subseteq Change /\ fails \in Nat /\ crossed \in BOOLEAN
  BY <1>1, CallType DEF IInv, TypeOK
<1>3. done \subseteq done' /\ done' \in SUBSET Change
  BY <1>1, <1>2 DEF Change
<1>4. /\ call' \in Call /\ call'.op = call.op /\ call'.c = call.c
      /\ \/ call'.st = "done" /\ call'.got = done' /\ done' = done \cup {call.c}
         \/ call'.st = "refused"
  <2>1. ASSUME call' = [call EXCEPT !.st = "done", !.got = done'], done' = done \cup {call.c}
        PROVE  /\ call' \in Call /\ call'.op = call.op /\ call'.c = call.c
               /\ call'.st = "done" /\ call'.got = done'
    BY <1>1, <1>3, <2>1, CallType DEF IInv
  <2>2. ASSUME call' = [call EXCEPT !.st = "refused"]
        PROVE  call' \in Call /\ call'.op = call.op /\ call'.c = call.c /\ call'.st = "refused"
    BY <1>1, <2>2, CallType DEF IInv
  <2> QED BY <1>1, <2>1, <2>2
<1>5. CallInv'
  BY <1>1, <1>3, <1>4 DEF IInv, CallInv
<1>6. Redraws(call)' => Redraws(call)
  BY <1>1, <1>4 DEF Redraws
<1>7. ~crossed => (Redraws(call) => reads = {})
  BY DEF IInv, DrawInv
<1>8. Phantom \subseteq Phantom'
  BY <1>1, <1>4 DEF Phantom, Under, PagesAssumption
<1>9. fails' \in Nat
  BY <1>1, <1>2
<1> QED BY <1>1, <1>2, <1>3, <1>4, <1>5, <1>6, <1>7, <1>8, <1>9, CallStep

(* The answer of an operation. *)
LEMMA FinishIInv == ASSUME PagesAssumption, IInv, Finish PROVE IInv'
<1>1. /\ call # None /\ call.st = "done" /\ call' = None
      /\ UNCHANGED <<page, wanted, timer, done, owed, event, failed, picks, fails>>
      /\ acked' = IF call.op.then = "nothing" THEN acked ELSE acked \cup {call.c}
  BY DEF Finish
<1>2. call.op \in Operation /\ call.c \in Mine /\ call.at \in Filter /\ call.op \in page.ops
  BY <1>1, CallType DEF IInv, CallInv
<1>3. /\ call.c \in done /\ acked \cup {call.c} \subseteq call.got /\ call.got \subseteq done
      /\ acked \subseteq done /\ done \subseteq Change
  BY <1>1 DEF IInv, CallInv, TypeOK
<1>4. acked' \subseteq Mine /\ acked' \subseteq done /\ acked' \subseteq call.got
      /\ acked \subseteq acked' /\ acked' \subseteq acked \cup {call.c}
  BY <1>1, <1>2, <1>3 DEF IInv, TypeOK
<1>5. CallInv'
  BY <1>1, <1>4 DEF CallInv
<1>6. DrawInv'
  BY <1>1 DEF DrawInv, Redraws
<1> DEFINE patched == [shown EXCEPT !.seen = @ \cup {call.c}]
           answer == [of |-> {call.at}, seen |-> call.got]
<1>7. shown' = IF shown = None THEN None
               ELSE CASE call.op.then = "patch" -> patched
                      [] call.op.then = "answer" -> answer
                      [] OTHER -> shown
  BY DEF Finish
<1>8. shown # None =>
        patched \in Rows /\ patched.of = shown.of /\ patched.seen = shown.seen \cup {call.c}
  BY <1>2 DEF IInv, TypeOK, Rows, Change
<1>9. answer \in Rows /\ answer.of = {call.at} /\ answer.seen = call.got
  BY <1>2, <1>3 DEF Rows
<1>10. shown' = None \/ shown' \in Rows
  <2>1. shown' \in {None, patched, answer, shown} /\ (shown = None => shown' = None)
    BY <1>7
  <2>2. shown = None \/ shown \in Rows
    BY DEF IInv, TypeOK
  <2> QED BY <1>8, <1>9, <2>1, <2>2
<1>11. CASE call.op.then = "reload"
  <2> DEFINE stale == call.at # wanted
  <2>1. StartRead(call.at, FALSE, stale) /\ stale \in BOOLEAN
    BY <1>11 DEF Finish
  <2>2. reads' \subseteq Read /\ crossed' \in BOOLEAN /\ (~crossed' => ~stale)
    BY <1>2, <2>1, ReadStarts DEF IInv
  <2>3. TypeOK'
    BY <1>1, <1>4, <1>10, <2>2 DEF IInv, TypeOK
  <2>4. ~crossed' /\ ~timer' => call.at = wanted'
    BY <1>1, <2>2
  <2>5. ReadInv' /\ SettleInv'
    BY <1>1, <1>2, <2>1, <2>4, ReadStartsInv DEF IInv
  <2> QED BY <1>5, <1>6, <2>3, <2>5 DEF IInv
<1>12. CASE call.op.then # "reload"
  <2>1. /\ reads' = reads
        /\ crossed' = (crossed \/ (call.op.then = "answer" /\ call.at # wanted))
    BY <1>12 DEF Finish
  <2>2. /\ crossed' \in BOOLEAN /\ (~crossed' => ~crossed)
        /\ ~crossed' /\ call.op.then = "answer" => call.at = wanted
    BY <2>1 DEF IInv, TypeOK
  <2>3. TypeOK'
    BY <1>1, <1>4, <1>10, <2>1, <2>2 DEF IInv, TypeOK
  <2>4. ReadInv'
    BY <1>1, <2>1, <2>2 DEF IInv, ReadInv
  <2>5. \A r \in reads : Active(r)' <=> Active(r)
    BY <1>1 DEF Active, Dropped
  <2> SUFFICES ASSUME ~crossed', ~timer' PROVE SettleInv'
    BY <1>5, <1>6, <2>3, <2>4 DEF IInv, SettleInv
  <2>6. ~crossed /\ ~timer
    <3>1. ~crossed
      BY <2>2
    <3>2. ~timer
      BY <1>1
    <3> QED BY <3>1, <3>2
  <2>7. CASE call.op.then = "nothing"
    <3>1. acked' = acked /\ shown' = shown /\ reads' = reads
      BY <1>1, <1>7, <2>1, <2>7
    <3>2. (Good' <=> Good) /\ Optimistic' = Optimistic /\ Phantom = {} /\ Phantom' = {}
      BY <1>1, <2>7, <3>1 DEF Good, Optimistic, Phantom, Under
    <3>3. Clean' <=> Clean
      BY <1>1, <3>1, <3>2 DEF Clean
    <3> QED BY <1>1, <2>5, <2>6, <3>1, <3>2, <3>3 DEF IInv, SettleInv
  <2>8. CASE call.op.then \in {"patch", "answer", "optimistic", "undo"}
    <3>1. Redraws(call)
      BY <1>1, <2>8 DEF Redraws
    <3>2. reads = {} /\ (AtOnce(call.op) => shown # None /\ call.c \in shown.seen)
      BY <2>6, <3>1 DEF IInv, DrawInv
    <3>3. failed \/ (Good /\ Clean)
      BY <2>6, <3>2 DEF IInv, SettleInv
    <3>4. ASSUME Good PROVE Good'
      <4>1. CASE call.op.then = "patch"
        BY <1>1, <1>4, <1>7, <1>8, <3>4, <4>1 DEF Good, PagesAssumption
      <4>2. CASE call.op.then = "answer"
        BY <1>1, <1>4, <1>7, <1>9, <2>2, <3>4, <4>2 DEF Good, PagesAssumption
      <4>3. CASE AtOnce(call.op)
        BY <1>1, <1>4, <1>7, <3>2, <3>4, <4>3 DEF Good, AtOnce
      <4> QED BY <2>8, <4>1, <4>2, <4>3 DEF AtOnce
    <3>5. ASSUME Good, Clean PROVE Clean'
      <4>1. Optimistic' = Optimistic /\ Phantom \subseteq done
        BY <1>1, <1>3 DEF Optimistic, Phantom
      <4>2. Optimistic \/ shown.seen \subseteq done
        BY <3>5, <4>1 DEF Clean
      <4>3. shown.seen \subseteq done => shown'.seen \subseteq done
        BY <1>3, <1>7, <1>8, <1>9, <3>5 DEF Good
      <4> QED BY <1>1, <4>1, <4>2, <4>3 DEF Clean
    <3> QED BY <1>1, <2>1, <3>2, <3>3, <3>4, <3>5 DEF SettleInv
  <2> QED BY <1>2, <1>12, <2>7, <2>8 DEF Operation
<1> QED BY <1>11, <1>12

LEMMA RefusedIInv == ASSUME PagesAssumption, IInv, Refused PROVE IInv'
<1>1. /\ call # None /\ call.st = "refused"
      /\ call' = IF call.op.asks = "none" THEN None ELSE [call EXCEPT !.st = "asked"]
      /\ UNCHANGED <<page, wanted, timer, shown, done, owed, event, failed, picks, fails, acked>>
  BY DEF Refused
<1>2. call.op \in page.ops /\ call.at \in Filter /\ (AtOnce(call.op) => call.op.asks = "none")
  BY <1>1, CallType, PageType DEF IInv, CallInv
<1>3. call' # None => call' \in Call /\ call'.st = "asked" /\ call'.op = call.op
  BY <1>1, CallType DEF IInv
<1>4. CallInv'
  BY <1>1, <1>2, <1>3 DEF IInv, CallInv, AtOnce
<1>5. ~Redraws(call)'
  BY <1>3 DEF Redraws
<1>6. CASE call.op.then = "undo"
  <2> DEFINE stale == call.at # wanted
  <2>1. StartRead(call.at, FALSE, stale) /\ stale \in BOOLEAN
    BY <1>6 DEF Refused
  <2>2. reads' \subseteq Read /\ crossed' \in BOOLEAN /\ (~crossed' => ~stale)
    BY <1>2, <2>1, ReadStarts DEF IInv
  <2>3. TypeOK'
    BY <1>1, <1>3, <2>2 DEF IInv, TypeOK
  <2>4. ~crossed' /\ ~timer' => call.at = wanted'
    BY <1>1, <2>2
  <2>5. ReadInv' /\ SettleInv'
    BY <1>1, <1>2, <2>1, <2>4, ReadStartsInv DEF IInv
  <2> QED BY <1>4, <1>5, <2>3, <2>5 DEF IInv, DrawInv
<1>7. CASE call.op.then # "undo"
  <2>1. UNCHANGED <<reads, crossed>>
    BY <1>7 DEF Refused
  <2>2. Phantom = {}
    BY <1>7 DEF Phantom
  <2>3. /\ call' = None \/ call' \in Call
        /\ done \subseteq done' /\ done' \subseteq Change /\ fails' \in Nat /\ crossed' \in BOOLEAN
    BY <1>1, <1>3, <2>1 DEF IInv, TypeOK
  <2> QED BY <1>1, <1>4, <1>5, <2>1, <2>2, <2>3, CallStep
<1> QED BY <1>6, <1>7
-----------------------------------------------------------------------------
LEMMA StutterIInv == IInv /\ UNCHANGED vars => IInv'
<1> SUFFICES ASSUME IInv, UNCHANGED vars PROVE IInv'
  OBVIOUS
<1> USE DEF vars
<1>1. TypeOK' /\ ReadInv' /\ CallInv'
  BY DEF IInv, TypeOK, ReadInv, CallInv
<1>2. DrawInv'
  BY DEF IInv, DrawInv, Redraws
<1>3. \A r \in reads : Active(r)' <=> Active(r)
  BY DEF Active, Dropped
<1>4. (Good' <=> Good) /\ (Clean' <=> Clean)
  BY DEF Good, Clean, Optimistic, Phantom, Under
<1>5. SettleInv'
  BY <1>3, <1>4 DEF IInv, SettleInv
<1> QED BY <1>1, <1>2, <1>5 DEF IInv

LEMMA NextIInv == PagesAssumption /\ IInv /\ [Next]_vars => IInv'
BY ChooseIInv, TypedIInv, MoreIInv, HeardPollIInv, ServeIInv, ArriveIInv, ReadFailsIInv, OtherIInv, ToldIInv,
   ClickIInv, PreviewedIInv, ConfirmIInv, CancelIInv, HandleIInv, FinishIInv, RefusedIInv, StutterIInv
   DEF Next

(* Every reachable state of every page satisfies the inductive invariant. *)
THEOREM PagesInvariant == Spec => []IInv
BY PagesAssumption, InitIInv, NextIInv, PTL DEF Spec

(* Pages stay well typed. *)
THEOREM PagesTyped == Spec => []TypeOK
<1>1. IInv => TypeOK
  BY DEF IInv
<1> QED BY <1>1, PagesInvariant, PTL

(* Whatever a page is like and whatever it lists, once nothing is under way it shows the rows of the
   choice now made, with everything the server confirmed to this person, unless its last answer was
   an error or, since a load last ran alone, answers could cross or further rows went under those
   that a failed load had left. *)
THEOREM PagesSettledRight == Spec => []SettledRight
<1>1. IInv => SettledRight
  <2> SUFFICES ASSUME IInv, Quiet, ~failed, ~crossed
               PROVE  /\ shown # None /\ shown.of = {wanted}
                      /\ acked \subseteq shown.seen
                      /\ shown.seen \subseteq done \/ \E o \in page.ops : o.then = "optimistic"
    BY DEF SettledRight
  <2>1. reads = {} /\ ~timer /\ ~Under
    BY DEF Quiet
  <2>2. Good /\ Clean
    BY <2>1 DEF IInv, SettleInv
  <2>3. Phantom = {}
    BY <2>1 DEF Phantom
  <2> QED BY <2>2, <2>3 DEF Good, Clean, Optimistic
<1> QED BY <1>1, PagesInvariant, PTL
=============================================================================
