---------------------------- MODULE FormsProofs ----------------------------
(***************************************************************************)
(* What the forms promise, for every catalogue of forms, any values and    *)
(* any number of clicks, failures and edits.                               *)
(*                                                                         *)
(* Filled says how what a form holds relates to what it was filled with,   *)
(* Sent what every request under way carries, Counted how often a blank    *)
(* form may still be carried out.                                          *)
(***************************************************************************)
EXTENDS Forms, TLAPS

Filled ==
  /\ Dirty \subseteq edited
  /\ base[Secret] = Blank
  /\ \A f \in edited : draft[f] \in Own /\ Has(f)
  /\ form.done = "closes" => \A f \in Field : base[f] \notin Own
  /\ step = "loading" => begins = "fetch" /\ calls = {} /\ edited = {} /\ \A f \in Field : rec[f] \notin Own
  /\ price <= edits /\ edits <= MaxEdits

(* What a save with these fields edited may change. *)
Allowed(f, typed) == f \in typed \/ (form.sends = "linked" /\ f = Rest /\ Plain \in typed)

CallOK(k) ==
  /\ k.part = 2 => form.second # "none" /\ First \subseteq k.kept
  /\ form.preview # "none" => k.saw # None
  /\ \A f \in Field : k.body[f] # Unsent /\ (form.sends # "all" \/ f = Secret) => Allowed(f, k.typed)
  /\ form.done = "closes" => \A f \in k.typed : k.body[f] # Unsent
  /\ k.st = "done" => Carried(k) \subseteq k.kept
  /\ k.st \in {"changed", "fresh", "stuck"} => form.preview = "agreed" /\ k.part = 1

Sent == \A k \in calls : CallOK(k)

(* What a form that has no request under way may still add. *)
Pending == IF form.preview = "agreed" \/ Dirty # {} THEN 1 ELSE 0
(* What a request under way, or a click after its refusal, may still add. *)
Still(k) == IF (k.st = "sent" /\ k.part = 1) \/ k.st \in {"refused", "changed", "fresh"} THEN 1 ELSE 0

OneCall == \A k \in calls, l \in calls : k = l
Counted ==
  form.locks /\ begins = "blank" /\ form.done # "stays" =>
    /\ OneCall
    /\ made <= meant + fails
    /\ calls = {} /\ step = "open" => made + Pending <= meant + fails
    /\ \A k \in calls : made + Still(k) <= meant + fails

Opened ==
  /\ begins = (IF form.start = "either" THEN begins ELSE form.start)
  /\ form.start = "either" => begins \in {"blank", "row"}

IInv == TypeOK /\ Opened /\ Filled /\ Sent /\ Counted
-----------------------------------------------------------------------------
(* A record without its secret is a record. *)
LEMMA FillType ==
  ASSUME NEW r \in [Field -> Value]
  PROVE  /\ Fill(r) \in [Field -> Value] /\ Fill(r)[Secret] = Blank
         /\ \A f \in Field : Fill(r)[f] \in {r[f], Blank}
BY DEF Fill, Field, Value

LEMMA NothingType == Nothing \in [Field -> Value] /\ \A f \in Field : Nothing[f] = Blank
BY DEF Nothing, Field, Value

LEMMA FormsInit == FormsAssumption /\ Init => IInv
<1> SUFFICES ASSUME FormsAssumption, Init PROVE IInv
  OBVIOUS
<1> USE DEF Init, FormsAssumption
<1>1. form \in FormPage
  OBVIOUS
<1>2. rec \in [Field -> Value] /\ \A f \in Field : rec[f] = Old
  BY DEF Value
<1>3. base \in [Field -> Value] /\ base[Secret] = Blank /\ \A f \in Field : base[f] \in {Old, Blank}
  BY <1>2, FillType, NothingType DEF Field
<1>4. begins \in {"blank", "row", "fetch"}
  BY <1>1 DEF FormPage
<1>a. hidden \in BOOLEAN
  BY Zenon
<1>5. TypeOK
  BY <1>1, <1>2, <1>3, <1>4, <1>a DEF TypeOK, Field
<1>6. Dirty = {}
  BY DEF Dirty
<1>7. Filled
  BY <1>2, <1>3, <1>6 DEF Filled
<1>8. Opened
  BY DEF Opened
<1>9. Counted /\ Sent
  BY <1>6 DEF Counted, Sent, OneCall, Pending
<1> QED BY <1>5, <1>7, <1>8, <1>9 DEF IInv
-----------------------------------------------------------------------------
(* A request that is sent carries what the form promises of it. *)
LEMMA BodyOK ==
  ASSUME FormsAssumption, TypeOK, Filled, Ready, begins = "blank" \/ form.preview = "none"
  PROVE  /\ Body \in [Field -> Value \cup {Unsent}]
         /\ \A f \in Field : Body[f] # Unsent /\ (form.sends # "all" \/ f = Secret) => Allowed(f, edited)
         /\ form.done = "closes" => \A f \in edited : Body[f] # Unsent
<1> USE DEF FormsAssumption
<1>1. form.preview = "quoted" => quote.for \in Value
  BY DEF Ready, TypeOK, Quote
<1>2. Body \in [Field -> Value \cup {Unsent}]
  BY <1>1 DEF Body, LeftOut, TypeOK
<1>3. form \in Catalogue
  BY DEF TypeOK
<1>5. ASSUME NEW f \in Field, Body[f] # Unsent, form.sends # "all" \/ f = Secret
      PROVE  Allowed(f, edited)
  <2>1. CASE form.sends # "all"
    <3>1. Sends(f)
      BY <1>5 DEF Body, LeftOut
    <3>2. Dirty \subseteq edited
      BY DEF Filled
    <3> QED BY <2>1, <3>1, <3>2 DEF Sends, Allowed
  <2>2. CASE f = Secret
    <3>1. f \in edited
      BY <1>5, <2>2 DEF Body, LeftOut, Filled, LeftBlank, Dirty
    <3> QED BY <3>1 DEF Allowed
  <2> QED BY <1>5, <2>1, <2>2
<1>6. ASSUME form.done = "closes", NEW f \in edited PROVE Body[f] # Unsent
  <2>1. f \in Field /\ draft[f] \in Own /\ Has(f) /\ base[f] \notin Own
    BY <1>6 DEF Filled, TypeOK
  <2>2. f \in Dirty /\ ~LeftBlank(f) /\ draft[f] # Unsent
    BY <2>1 DEF Dirty, LeftBlank, Value
  <2> QED BY <1>1, <2>1, <2>2 DEF Body, LeftOut, Sends
<1> QED BY <1>2, <1>5, <1>6
-----------------------------------------------------------------------------
(* Filling the form, typing and previews. *)
LEMMA FetchedStep == ASSUME FormsAssumption, IInv, Fetched PROVE IInv'
<1> USE DEF Fetched
<1>1. /\ base' \in [Field -> Value] /\ draft' = base' /\ base'[Secret] = Blank
      /\ \A f \in Field : base'[f] \notin Own
  BY FillType DEF IInv, TypeOK, Filled, FormsAssumption
<1>2. TypeOK' /\ Opened'
  BY <1>1 DEF IInv, TypeOK, Opened
<1>3. Dirty' = {}
  BY <1>1 DEF Dirty
<1>4. Filled'
  BY <1>1, <1>3 DEF IInv, Filled
<1>5. Sent'
  BY DEF IInv, Filled, Sent
<1>6. Counted'
  BY DEF IInv, Counted, Filled
<1> QED BY <1>2, <1>4, <1>5, <1>6 DEF IInv

LEMMA TypeStep == ASSUME FormsAssumption, IInv, NEW f \in Field, NEW v \in Own, Type(f, v) PROVE IInv'
<1> USE DEF Type
<1>1. /\ TypeOK /\ draft' \in [Field -> Value] /\ draft'[f] = v
      /\ \A g \in Field : g # f => draft'[g] = draft[g]
  BY DEF IInv, TypeOK, Value
<1>a. hidden' \in BOOLEAN
  BY Zenon
<1>2. TypeOK' /\ Opened'
  BY <1>1, <1>a DEF IInv, TypeOK, Opened
<1>3. Dirty' \subseteq Dirty \cup {f}
  BY <1>1 DEF Dirty
<1>4. Filled'
  BY <1>1, <1>3 DEF IInv, Filled, Has
<1>5. Sent'
  BY DEF IInv, Sent, CallOK, First, Second, Carried, Allowed
<1>6. Counted'
  <2> SUFFICES ASSUME form.locks, begins = "blank", form.done # "stays" PROVE Counted'
    BY DEF Counted
  <2>1. /\ OneCall /\ made <= meant + fails
        /\ calls = {} /\ step = "open" => made + Pending <= meant + fails
        /\ \A k \in calls : made + Still(k) <= meant + fails
    BY DEF IInv, Counted
  <2>2. meant \in Nat /\ made \in Nat /\ fails \in Nat
    BY <1>1 DEF TypeOK
  <2>3. meant' \in Nat /\ meant' >= meant /\ (Dirty = {} => meant' = meant + 1)
    BY <2>2
  <2>4. (Pending' = 0 \/ Pending' = 1) /\ (Dirty # {} => Pending = 1)
    BY DEF Pending
  <2>5. ASSUME calls = {}, step = "open" PROVE made + Pending' <= meant' + fails
    <3>1. made + Pending <= meant + fails
      BY <2>1, <2>5
    <3> HIDE DEF Type
    <3>2. CASE Dirty = {}
      <4>1. meant' = meant + 1
        BY <2>3, <3>2
      <4> QED BY <2>1, <2>2, <2>4, <4>1
    <3>3. CASE Dirty # {}
      <4>1. Pending = 1
        BY <2>4, <3>3
      <4> QED BY <2>2, <2>3, <2>4, <3>1, <4>1
    <3> QED BY <3>2, <3>3
  <2>6. \A k \in calls : Still(k) \in Nat /\ Still(k)' = Still(k)
    BY DEF Still
  <2>7. \A k \in calls : made + Still(k) <= meant' + fails
    BY <2>1, <2>2, <2>3, <2>6
  <2> QED BY <2>1, <2>2, <2>3, <2>5, <2>6, <2>7 DEF Counted, OneCall
<1> QED BY <1>2, <1>4, <1>5, <1>6 DEF IInv

(* A step that leaves the form's fields and its requests alone. *)
LEMMA Apart ==
  ASSUME FormsAssumption, IInv, TypeOK', fails' >= fails, price' <= edits', edits' <= MaxEdits,
         UNCHANGED <<form, begins, made, base, draft, calls, meant, edited>>,
         step' = step \/ (step = "open" /\ step' = "left"),
         \A f \in Field : rec'[f] \in Own => rec[f] \in Own
  PROVE  IInv'
<1>1. Dirty' = Dirty /\ \A k \in calls : Still(k)' = Still(k) /\ Still(k) \in Nat
  BY DEF Dirty, Still
<1>2. Opened' /\ Filled'
  BY <1>1 DEF IInv, Opened, Filled, Has
<1>3. Sent'
  BY DEF IInv, Sent, CallOK, First, Second, Carried, Allowed
<1>4. Counted'
  <2> SUFFICES ASSUME form.locks, begins = "blank", form.done # "stays" PROVE Counted'
    BY DEF Counted
  <2>1. /\ OneCall /\ made <= meant + fails
        /\ calls = {} /\ step = "open" => made + Pending <= meant + fails
        /\ \A k \in calls : made + Still(k) <= meant + fails
    BY DEF IInv, Counted
  <2>2. {made, meant, fails, fails'} \subseteq Nat
    BY DEF TypeOK, IInv
  <2>3. Pending' = Pending /\ Pending \in Nat
    BY <1>1 DEF Pending
  <2>4. \A k \in calls : made + Still(k) <= meant + fails'
    BY <1>1, <2>1, <2>2
  <2>5. made <= meant + fails' /\ (calls = {} /\ step = "open" => made + Pending <= meant + fails')
    BY <2>1, <2>2, <2>3
  <2> QED BY <1>1, <2>1, <2>3, <2>4, <2>5 DEF Counted, OneCall
<1> QED BY <1>2, <1>3, <1>4 DEF IInv

LEMMA PreviewStep ==
  ASSUME FormsAssumption, IInv, Ask \/ (\E v \in asks : Quoted(v)) \/ Decline \/ Leave \/ OthersEdit
  PROVE  IInv'
<1>1. CASE Ask
  <2>1. TypeOK'
    BY <1>1 DEF Ask, IInv, TypeOK, Field
  <2> QED BY <1>1, <2>1, Apart DEF Ask, IInv, Filled, TypeOK
<1>2. ASSUME NEW v \in asks, Quoted(v) PROVE IInv'
  <2>1. fails' \in Nat /\ fails' >= fails
    BY <1>2 DEF Quoted, IInv, TypeOK
  <2>2. v \in Value /\ price \in 0..MaxEdits
    BY <1>2 DEF IInv, TypeOK
  <2>3. [for |-> v, price |-> price, again |-> FALSE] \in Quote
    BY <2>2 DEF Quote
  <2>4. quote' = None \/ quote' \in Quote
    BY <1>2, <2>3 DEF Quoted, IInv, TypeOK
  <2>5. hidden' \in BOOLEAN
    BY <1>2 DEF Quoted, IInv, TypeOK
  <2>6. TypeOK'
    BY <1>2, <2>1, <2>2, <2>4, <2>5 DEF Quoted, IInv, TypeOK
  <2> QED BY <1>2, <2>1, <2>6, Apart DEF Quoted, IInv, Filled, TypeOK
<1>3. CASE Decline
  <2>1. quote' \in Quote
    BY <1>3 DEF Decline, IInv, TypeOK, Quote
  <2>2. TypeOK'
    BY <1>3, <2>1 DEF Decline, IInv, TypeOK
  <2> QED BY <1>3, <2>2, Apart DEF Decline, IInv, Filled, TypeOK
<1>4. CASE Leave
  <2>1. TypeOK'
    BY <1>4 DEF Leave, IInv, TypeOK
  <2> QED BY <1>4, <2>1, Apart DEF Leave, IInv, Filled, TypeOK
<1>5. CASE OthersEdit
  <2>1. edits \in Nat /\ edits' = edits + 1 /\ edits' <= MaxEdits /\ price \in Nat /\ price <= edits
    BY <1>5 DEF OthersEdit, IInv, Filled, TypeOK, FormsAssumption
  <2>2. price' \in 0..MaxEdits /\ price' <= edits'
    BY <1>5, <2>1 DEF OthersEdit, FormsAssumption
  <2>3. rec' \in [Field -> Value] /\ \A f \in Field : rec'[f] \in {rec[f], Theirs}
    BY <1>5 DEF OthersEdit, IInv, TypeOK, Value
  <2>4. TypeOK'
    BY <1>5, <2>1, <2>2, <2>3 DEF OthersEdit, IInv, TypeOK
  <2>5. \A f \in Field : rec'[f] \in Own => rec[f] \in Own
    BY <2>3 DEF FormsAssumption
  <2> QED BY <1>5, <2>1, <2>2, <2>4, <2>5, Apart DEF OthersEdit, IInv, TypeOK
<1> QED BY <1>1, <1>2, <1>3, <1>4, <1>5
-----------------------------------------------------------------------------
(* Saving.  First a click: the request it sends is as CallOK says. *)
LEMMA SentOK ==
  ASSUME FormsAssumption, IInv, Ready, NEW new,
         new = [id |-> clicks, part |-> 1, body |-> Body, typed |-> edited, saw |-> quote,
                kept |-> {}, got |-> Nothing, now |-> price, st |-> "sent"]
  PROVE  new \in Call /\ CallOK(new) /\ Still(new) = 1
<1>1. form \in Catalogue /\ form \in FormPage /\ TypeOK /\ Filled
  BY DEF IInv, TypeOK, FormsAssumption
<1>2. begins = "blank" \/ form.preview = "none"
  BY <1>1 DEF IInv, Opened, FormsAssumption
<1>3. /\ Body \in [Field -> Value \cup {Unsent}]
      /\ \A f \in Field : Body[f] # Unsent /\ (form.sends # "all" \/ f = Secret) => Allowed(f, edited)
      /\ form.done = "closes" => \A f \in edited : Body[f] # Unsent
  BY <1>1, <1>2, BodyOK
<1>4. /\ clicks \in Nat /\ edited \in SUBSET Field /\ quote \in Quote \cup {None}
      /\ Nothing \in [Field -> Value] /\ price \in 0..MaxEdits
  BY <1>1, NothingType DEF TypeOK
<1>5. new \in Call
  BY <1>3, <1>4 DEF Call
<1>6. /\ new.part = 1 /\ new.body = Body /\ new.typed = edited /\ new.saw = quote
      /\ new.st = "sent"
  OBVIOUS
<1>7. form.preview # "none" => quote # None
  BY DEF Ready
<1>8. CallOK(new)
  BY <1>3, <1>6, <1>7 DEF CallOK
<1> QED BY <1>5, <1>6, <1>8 DEF Still

LEMMA SubmitStep == ASSUME FormsAssumption, IInv, Submit PROVE IInv'
<1>1. PICK new : /\ new = [id |-> clicks, part |-> 1, body |-> Body, typed |-> edited, saw |-> quote,
                           kept |-> {}, got |-> Nothing, now |-> price, st |-> "sent"]
                /\ calls' = calls \cup {new}
  BY DEF Submit
<1>2. new \in Call /\ CallOK(new) /\ Still(new) = 1
  BY <1>1, SentOK DEF Submit
<1>3. /\ Ready /\ clicks' = clicks + 1 /\ TypeOK
      /\ UNCHANGED <<form, begins, step, rec, price, made, base, draft, due, asks, quote, hidden, fails, edits, meant, edited>>
  BY DEF Submit, IInv
<1>b. clicks' \in Nat
  BY <1>3 DEF TypeOK
<1>c. calls \subseteq Call
  BY <1>3 DEF TypeOK
<1>a. clicks' \in Nat /\ calls' \subseteq Call
  BY <1>1, <1>2, <1>b, <1>c
<1>4. TypeOK'
  BY <1>3, <1>a DEF TypeOK
<1>5. Opened'
  BY <1>3 DEF IInv, Opened
<1>6. Filled'
  BY <1>3 DEF IInv, Filled, Has, Dirty, Ready
<1>7. \A k : CallOK(k) => CallOK(k)'
  BY <1>3 DEF CallOK, First, Second, Carried, Allowed
<1>8. Sent'
  BY <1>1, <1>2, <1>7 DEF IInv, Sent
<1>9. Counted'
  <2> SUFFICES ASSUME form.locks, begins = "blank", form.done # "stays" PROVE Counted'
    BY <1>3 DEF Counted
  <2>1. calls = {} /\ step = "open"
    BY <1>3 DEF Ready, Busy
  <2>b. form \in FormPage
    BY <1>3 DEF FormsAssumption, TypeOK
  <2>2. Pending = 1
    BY <1>3, <2>b DEF Ready, Pending
  <2>3. made + 1 <= meant + fails /\ {made, meant, fails} \subseteq Nat
    BY <1>3, <2>1, <2>2 DEF IInv, Counted, TypeOK
  <2>c. made <= meant + fails
    BY <2>3
  <2>4. calls' = {new} /\ Still(new)' = 1
    BY <1>1, <1>2, <2>1 DEF Still
  <2> QED BY <1>3, <2>3, <2>4, <2>c DEF Counted, OneCall
<1> QED BY <1>4, <1>5, <1>6, <1>8, <1>9 DEF IInv

(* A request that moves on stays a request; the others are as they were. *)
LEMMA BecameType ==
  ASSUME NEW k, k \in Call, price \in 0..MaxEdits, NEW kept, kept \in SUBSET Field,
         NEW r, r \in [Field -> Value], NEW st, st \in {"sent", "done", "refused", "changed", "fresh", "stuck"}
  PROVE  \E m \in Call :
           /\ Became(k, st, kept, r) = (calls \ {k}) \cup {m}
           /\ m.st = st /\ m.kept = kept /\ m.part = k.part /\ m.saw = k.saw
           /\ m.body = k.body /\ m.typed = k.typed
<1> DEFINE m == [k EXCEPT !.st = st, !.kept = kept, !.got = r, !.now = price]
<1>2. /\ m \in Call /\ m.st = st /\ m.kept = kept /\ m.part = k.part /\ m.saw = k.saw
      /\ m.body = k.body /\ m.typed = k.typed
  BY DEF Call
<1>3. Became(k, st, kept, r) = (calls \ {k}) \cup {m}
  BY DEF Became
<1> HIDE DEF m
<1> QED BY <1>2, <1>3

(* A step of one request, k becoming m, that leaves what the form holds alone. *)
LEMMA OneMoves ==
  ASSUME FormsAssumption, IInv, NEW k \in calls, NEW m, TypeOK', CallOK(m)',
         calls' = (calls \ {k}) \cup {m},
         UNCHANGED <<form, begins, step, base, draft, price, edits, meant, edited>>,
         rec' = rec \/ step # "loading",
         form.locks /\ begins = "blank" /\ form.done # "stays" => made' + Still(m) <= meant + fails'
  PROVE  IInv'
<1>1. Opened'
  BY DEF IInv, Opened
<1>2. calls # {} /\ step # "loading"
  BY DEF IInv, Filled
<1>3. Filled'
  BY <1>2 DEF IInv, Filled, Has, Dirty
<1>4. Sent'
  BY DEF IInv, Sent, CallOK, First, Second, Carried, Allowed
<1>5. Counted'
  <2> SUFFICES ASSUME form.locks, begins = "blank", form.done # "stays" PROVE Counted'
    BY DEF Counted
  <2>1. OneCall
    BY DEF IInv, Counted
  <2>2. calls' = {m}
    BY <2>1 DEF OneCall
  <2>3. made' + Still(m) <= meant + fails' /\ Still(m)' = Still(m) /\ (Still(m) = 0 \/ Still(m) = 1)
    BY DEF Still
  <2>4. {made', meant, fails'} \subseteq Nat
    BY DEF TypeOK
  <2>5. made' <= meant + fails'
    BY <2>3, <2>4
  <2> QED BY <2>2, <2>3, <2>5 DEF Counted, OneCall
<1> QED BY <1>1, <1>3, <1>4, <1>5 DEF IInv

(* The server takes a request, refuses it, or its answer is lost. *)
LEMMA HandleStep == ASSUME FormsAssumption, IInv, NEW k \in calls, Handle(k) PROVE IInv'
<1>1. TypeOK /\ form \in FormPage /\ k \in Call /\ CallOK(k) /\ k.st = "sent"
  BY DEF IInv, TypeOK, Sent, FormsAssumption, Handle
<1>2. /\ UNCHANGED <<form, begins, step, price, base, draft, due, asks, quote, hidden, clicks, edits, meant, edited>>
      /\ step # "loading"
  BY DEF Handle, IInv, Filled
<1>3. Carried(k) \in SUBSET Field /\ k.kept \in SUBSET Field /\ k.body \in [Field -> Value \cup {Unsent}]
  BY <1>1 DEF Carried, First, Second, Call, Field
<1>4. Taken(k) \in [Field -> Value]
  BY <1>1, <1>3 DEF Taken, TypeOK
<1>5. {made, fails, meant} \subseteq Nat /\ k.part \in 1..2
  BY <1>1 DEF TypeOK, Call
<1>6. form.locks /\ begins = "blank" /\ form.done # "stays" =>
        made <= meant + fails /\ (k.part = 1 => made + 1 <= meant + fails)
  BY <1>1 DEF IInv, Counted, Still
<1>a. \A m \in Call : Still(m) = 0 \/ Still(m) = 1
  BY DEF Still
<1>7. ASSUME NEW st \in {"done", "refused"}, Take(k, st),
             fails' = fails + (IF st = "done" THEN 0 ELSE 1)
      PROVE  IInv'
  <2> DEFINE kept == k.kept \cup Carried(k)
  <2>1. kept \in SUBSET Field
    BY <1>3
  <2>2. rec' \in [Field -> Value]
    BY <1>1, <1>4, <1>7 DEF Take, TypeOK
  <2>a. calls' = Became(k, st, kept, rec')
    BY <1>7 DEF Take
  <2>3. PICK m \in Call :
          /\ calls' = (calls \ {k}) \cup {m} /\ m.st = st /\ m.kept = kept
          /\ m.part = k.part /\ m.saw = k.saw /\ m.body = k.body /\ m.typed = k.typed
    <3>1. st \in {"sent", "done", "refused", "changed", "fresh", "stuck"}
      OBVIOUS
    <3>2. PICK c : c = kept
      OBVIOUS
    <3>3. PICK r : r = rec'
      OBVIOUS
    <3> HIDE DEF kept
    <3>4. c \in SUBSET Field /\ r \in [Field -> Value] /\ calls' = Became(k, st, c, r)
      BY <2>1, <2>2, <2>a, <3>2, <3>3
    <3>5. \E m \in Call :
            /\ Became(k, st, c, r) = (calls \ {k}) \cup {m}
            /\ m.st = st /\ m.kept = c /\ m.part = k.part /\ m.saw = k.saw
            /\ m.body = k.body /\ m.typed = k.typed
      BY <1>1, <3>1, <3>4, BecameType DEF TypeOK
    <3> QED BY <3>2, <3>4, <3>5
  <2>4. made' \in Nat /\ fails' \in Nat
    BY <1>5, <1>7 DEF Take
  <2>5. TypeOK'
    BY <1>1, <1>2, <2>2, <2>3, <2>4 DEF TypeOK
  <2>6. CallOK(m)'
    BY <1>1, <1>2, <2>3 DEF CallOK, Carried, First, Second, Allowed
  <2>7. form.locks /\ begins = "blank" /\ form.done # "stays" => made' + Still(m) <= meant + fails'
    <3> SUFFICES ASSUME form.locks, begins = "blank", form.done # "stays"
                 PROVE made' + Still(m) <= meant + fails'
      OBVIOUS
    <3>1. made' = made + (IF k.part = 1 THEN 1 ELSE 0)
      BY <1>5, <1>7 DEF Take
    <3>2. CASE st = "done"
      <4>1. Still(m) = 0
        BY <2>3, <3>2 DEF Still
      <4> QED BY <1>5, <1>6, <1>7, <3>1, <3>2, <4>1
    <3>3. CASE st = "refused"
      <4>1. Still(m) = 1
        BY <2>3, <3>3 DEF Still
      <4> QED BY <1>5, <1>6, <1>7, <3>1, <3>3, <4>1
    <3> QED BY <3>2, <3>3
  <2> QED BY <1>2, <2>3, <2>5, <2>6, <2>7, OneMoves
<1>8. ASSUME NEW st \in {"changed", "refused"}, calls' = Became(k, st, k.kept, rec),
             UNCHANGED <<rec, made>>, fails' = fails + 1 \/ (fails' = fails /\ ~Accepts(k)),
             st = "changed" => ~Accepts(k)
      PROVE  IInv'
  <2>1. rec \in [Field -> Value]
    BY <1>1 DEF TypeOK
  <2>2. PICK m \in Call :
          /\ calls' = (calls \ {k}) \cup {m} /\ m.st = st /\ m.kept = k.kept
          /\ m.part = k.part /\ m.saw = k.saw /\ m.body = k.body /\ m.typed = k.typed
    <3>1. st \in {"sent", "done", "refused", "changed", "fresh", "stuck"}
      OBVIOUS
    <3>2. k.kept \in SUBSET Field /\ calls' = Became(k, st, k.kept, rec)
      BY <1>3, <1>8
    <3>3. \E m \in Call :
            /\ Became(k, st, k.kept, rec) = (calls \ {k}) \cup {m}
            /\ m.st = st /\ m.kept = k.kept /\ m.part = k.part /\ m.saw = k.saw
            /\ m.body = k.body /\ m.typed = k.typed
      BY <1>1, <2>1, <3>1, <3>2, BecameType DEF TypeOK
    <3> QED BY <3>2, <3>3
  <2>3. fails' \in Nat /\ made' = made
    BY <1>5, <1>8
  <2>4. TypeOK'
    BY <1>1, <1>2, <1>8, <2>2, <2>3 DEF TypeOK
  <2>5. ~Accepts(k) => form.preview = "agreed" /\ k.part = 1
    BY <1>1, <1>5 DEF Accepts, CallOK, FormsAssumption, TypeOK
  <2>6. CallOK(m)'
    BY <1>1, <1>2, <1>8, <2>2, <2>5 DEF CallOK, Carried, First, Second, Allowed
  <2>7. form.locks /\ begins = "blank" /\ form.done # "stays" => made' + Still(m) <= meant + fails'
    BY <1>5, <1>6, <1>8, <1>a, <2>2, <2>3, <2>5
  <2> QED BY <1>2, <1>8, <2>2, <2>4, <2>6, <2>7, OneMoves
<1> QED
  <2>1. CASE Take(k, "done") /\ UNCHANGED fails
    BY <1>5, <1>7, <2>1
  <2>2. CASE ~Accepts(k) /\ UNCHANGED <<rec, made, fails>>
             /\ calls' = Became(k, IF k.saw.again THEN "refused" ELSE "changed", k.kept, rec)
    <3>1. CASE k.saw.again
      BY <1>8, <2>2, <3>1
    <3>2. CASE ~k.saw.again
      BY <1>8, <2>2, <3>2
    <3> QED BY <3>1, <3>2
  <2>3. CASE fails' = fails + 1 /\ Take(k, "refused")
    BY <1>5, <1>7, <2>3
  <2>4. CASE fails' = fails + 1 /\ calls' = Became(k, "refused", k.kept, rec) /\ UNCHANGED <<rec, made>>
    <3>1. "refused" \in {"changed", "refused"} /\ ("refused" = "changed" => ~Accepts(k))
      OBVIOUS
    <3>2. fails' = fails + 1 \/ (fails' = fails /\ ~Accepts(k))
      BY <2>4
    <3> QED BY <1>8, <2>4, <3>1, <3>2
  <2> QED BY <2>1, <2>2, <2>3, <2>4 DEF Handle

LEMMA ContinueStep == ASSUME FormsAssumption, IInv, NEW k \in calls, Continue(k) PROVE IInv'
<1>1. TypeOK /\ form \in FormPage /\ k \in Call /\ CallOK(k) /\ k.st = "done"
  BY DEF IInv, TypeOK, Sent, FormsAssumption, Continue
<1>a. PICK m : m = [k EXCEPT !.part = 2, !.st = "sent"]
  OBVIOUS
<1>2. /\ m \in Call /\ m.part = 2 /\ m.st = "sent" /\ m.kept = k.kept /\ m.saw = k.saw
      /\ m.body = k.body /\ m.typed = k.typed
  <2> DEFINE n == [k EXCEPT !.part = 2, !.st = "sent"]
  <2>a. 2 \in 1..2
    OBVIOUS
  <2>b. n \in Call
    BY <1>1, <2>a DEF Call
  <2>c. k = [id |-> k.id, part |-> k.part, body |-> k.body, typed |-> k.typed, saw |-> k.saw,
             kept |-> k.kept, got |-> k.got, now |-> k.now, st |-> k.st]
    BY <1>1 DEF Call
  <2>1. /\ n \in Call /\ n.part = 2 /\ n.st = "sent" /\ n.kept = k.kept /\ n.saw = k.saw
        /\ n.body = k.body /\ n.typed = k.typed
    BY <2>b, <2>c
  <2>2. m = n
    BY <1>a
  <2> HIDE DEF n
  <2> QED BY <2>1, <2>2
<1>3. /\ calls' = (calls \ {k}) \cup {m} /\ k.part = 1
      /\ UNCHANGED <<form, begins, step, rec, price, made, base, draft, due, asks, quote, hidden, clicks, fails, edits, meant, edited>>
  BY <1>a DEF Continue, NeedsSecond
<1>4. TypeOK'
  BY <1>1, <1>2, <1>3 DEF TypeOK
<1>5. form.second # "none"
  BY <1>1 DEF Continue, NeedsSecond, Second
<1>6. CallOK(m)'
  BY <1>1, <1>2, <1>3, <1>5 DEF CallOK, Carried, First, Second, Allowed
<1>7. form.locks /\ begins = "blank" /\ form.done # "stays" => made' + Still(m) <= meant + fails'
  <2>1. Still(m) = 0
    BY <1>2 DEF Still
  <2> QED BY <1>1, <1>3, <2>1 DEF IInv, Counted, TypeOK
<1> QED BY <1>2, <1>3, <1>4, <1>6, <1>7, OneMoves

(* A save that ended: what is left of the form is clean, or the form is closed. *)
LEMMA FinishStep == ASSUME FormsAssumption, IInv, NEW k \in calls, Finish(k) PROVE IInv'
<1>1. TypeOK /\ form \in FormPage /\ form \in Catalogue /\ k \in Call
  BY DEF IInv, TypeOK, FormsAssumption
<1>2. /\ calls' = calls \ {k}
      /\ UNCHANGED <<form, begins, rec, price, made, due, asks, hidden, clicks, fails, edits, meant>>
  BY DEF Finish
<1>3. step # "loading"
  BY DEF IInv, Filled
<1>4. \/ /\ UNCHANGED <<base, draft, edited>> /\ quote' = quote
         /\ step' = "saved" \/ (step' = step /\ (step # "open" \/ form.done = "stays"))
      \/ /\ step' = step /\ form.done \in {"refills", "resets"} /\ base' = draft' /\ edited' = {}
         /\ base' \in [Field -> Value] /\ base'[Secret] = Blank
         /\ quote' = quote \/ quote' = None
  <2>1. CASE step = "open" /\ form.done = "refills" /\ UNCHANGED <<step, quote>> /\ \E r \in {k.got, rec} : Refill(r)
    <3>1. PICK r \in {k.got, rec} : Refill(r)
      BY <2>1
    <3>2. r \in [Field -> Value]
      BY <1>1 DEF TypeOK, Call
    <3> QED BY <2>1, <3>1, <3>2, FillType DEF Refill
  <2>2. CASE step = "open" /\ form.done = "resets" /\ base' = Nothing /\ draft' = Nothing
             /\ quote' = None /\ edited' = {} /\ UNCHANGED step
    BY <2>2, NothingType DEF Field
  <2> QED BY <2>1, <2>2 DEF Finish
<1>5. step' \in {"open", "saved", "left"}
  BY <1>1, <1>3, <1>4 DEF TypeOK
<1>6. TypeOK' /\ Opened'
  BY <1>1, <1>2, <1>4, <1>5 DEF IInv, TypeOK, Opened
<1>7. Filled'
  <2>1. CASE UNCHANGED <<base, draft, edited>>
    BY <1>2, <1>5, <2>1 DEF IInv, Filled, Has, Dirty
  <2>2. CASE form.done \in {"refills", "resets"} /\ base' = draft' /\ edited' = {} /\ base'[Secret] = Blank
    BY <1>2, <1>5, <2>2 DEF IInv, Filled, Has, Dirty
  <2> QED BY <1>4, <2>1, <2>2
<1>8. Sent'
  <2>1. \A l : CallOK(l) => CallOK(l)'
    BY <1>2 DEF CallOK, Carried, First, Second, Allowed
  <2> QED BY <1>2, <2>1 DEF IInv, Sent
<1>9. Counted'
  <2> SUFFICES ASSUME form.locks, begins = "blank", form.done # "stays" PROVE Counted'
    BY <1>2 DEF Counted
  <2>1. OneCall /\ made <= meant + fails /\ {made, meant, fails} \subseteq Nat
    BY <1>1 DEF IInv, Counted, TypeOK
  <2>2. calls' = {}
    BY <1>2, <2>1 DEF OneCall
  <2>3. step' = "open" => Pending' = 0
    <3> SUFFICES ASSUME step' = "open" PROVE Pending' = 0
      OBVIOUS
    <3>1. base' = draft' /\ form.done \in {"refills", "resets"}
      BY <1>4
    <3>2. form.preview # "agreed"
      BY <1>1, <3>1 DEF FormsAssumption
    <3> QED BY <1>2, <3>1, <3>2 DEF Pending, Dirty
  <2> QED BY <1>2, <2>1, <2>2, <2>3 DEF Counted, OneCall
<1> QED BY <1>6, <1>7, <1>8, <1>9 DEF IInv

(* A save that came to nothing: the request is gone, what the form holds is as it was. *)
LEMMA Given ==
  ASSUME FormsAssumption, IInv, NEW k \in calls, TypeOK', Still(k) = 1, calls' = calls \ {k},
         UNCHANGED <<form, begins, step, rec, price, made, base, draft, edits, fails, meant, edited>>
  PROVE  IInv'
<1>5. Opened' /\ Filled'
  BY DEF IInv, Opened, Filled, Has, Dirty
<1>6. Sent'
  <2>1. \A l : CallOK(l) => CallOK(l)'
    BY DEF CallOK, Carried, First, Second, Allowed
  <2> QED BY <2>1 DEF IInv, Sent
<1>7. Counted'
  <2> SUFFICES ASSUME form.locks, begins = "blank", form.done # "stays" PROVE Counted'
    BY DEF Counted
  <2>1. OneCall /\ made <= meant + fails /\ {made, meant, fails} \subseteq Nat /\ made + Still(k) <= meant + fails
    BY DEF IInv, Counted, TypeOK
  <2>2. calls' = {}
    BY <2>1 DEF OneCall
  <2>4. Pending' = 0 \/ Pending' = 1
    BY DEF Pending
  <2>5. made + Pending' <= meant + fails
    BY <2>1, <2>4
  <2> QED BY <2>1, <2>2, <2>5 DEF Counted, OneCall
<1> QED BY <1>5, <1>6, <1>7 DEF IInv

LEMMA RefusedStep == ASSUME FormsAssumption, IInv, NEW k \in calls, Refused(k) PROVE IInv'
<1>1. draft[Plain] \in Value
  BY DEF IInv, TypeOK, Field
<1>2. TypeOK'
  BY <1>1 DEF Refused, IInv, TypeOK
<1>3. Still(k) = 1
  BY DEF Refused, Still
<1> QED BY <1>2, <1>3, Given DEF Refused

LEMMA AskAgainStep == ASSUME FormsAssumption, IInv, NEW k \in calls, AskAgain(k) PROVE IInv'
<1>1. TypeOK /\ form \in FormPage /\ k \in Call /\ CallOK(k) /\ k.st = "fresh"
  BY DEF IInv, TypeOK, FormsAssumption, Sent, AskAgain
<1>2. k.saw \in Quote /\ k.now \in 0..MaxEdits
  BY <1>1 DEF CallOK, Call
<1>3. quote' = None \/ quote' \in Quote
  BY <1>1, <1>2 DEF AskAgain, Quote, TypeOK
<1>4. TypeOK'
  BY <1>1, <1>3 DEF AskAgain, TypeOK
<1>5. Still(k) = 1
  BY <1>1 DEF Still
<1> QED BY <1>4, <1>5, Given DEF AskAgain

(* The total read again, or not. *)
LEMMA RereadStep == ASSUME FormsAssumption, IInv, NEW k \in calls, Reread(k) PROVE IInv'
<1>1. TypeOK /\ form \in FormPage /\ k \in Call /\ CallOK(k) /\ k.st = "changed"
  BY DEF IInv, TypeOK, Sent, FormsAssumption, Reread
<1>2. PICK st \in {"fresh", "stuck"} : calls' = Became(k, st, k.kept, rec)
  BY DEF Reread
<1>3. /\ UNCHANGED <<form, begins, step, rec, price, made, base, draft, due, asks, quote, hidden, clicks, edits, meant, edited>>
      /\ fails' \in {fails, fails + 1} /\ {fails, made, meant} \subseteq Nat
  BY <1>1 DEF Reread, TypeOK
<1>4. k.kept \in SUBSET Field /\ rec \in [Field -> Value] /\ price \in 0..MaxEdits
  BY <1>1 DEF TypeOK, Call
<1>5. PICK m \in Call :
        /\ calls' = (calls \ {k}) \cup {m} /\ m.st = st /\ m.kept = k.kept
        /\ m.part = k.part /\ m.saw = k.saw /\ m.body = k.body /\ m.typed = k.typed
  <2>1. st \in {"sent", "done", "refused", "changed", "fresh", "stuck"}
    OBVIOUS
  <2>2. \E m \in Call :
          /\ Became(k, st, k.kept, rec) = (calls \ {k}) \cup {m}
          /\ m.st = st /\ m.kept = k.kept /\ m.part = k.part /\ m.saw = k.saw
          /\ m.body = k.body /\ m.typed = k.typed
    BY <1>1, <1>4, <2>1, BecameType
  <2> QED BY <1>2, <2>2
<1>6. TypeOK'
  BY <1>1, <1>3, <1>5 DEF TypeOK
<1>7. CallOK(m)'
  BY <1>1, <1>3, <1>5 DEF CallOK, Carried, First, Second, Allowed
<1>8. form.locks /\ begins = "blank" /\ form.done # "stays" => made' + Still(m) <= meant + fails'
  <2> SUFFICES ASSUME form.locks, begins = "blank", form.done # "stays"
               PROVE  made' + Still(m) <= meant + fails'
    OBVIOUS
  <2>1. made + 1 <= meant + fails
    BY <1>1 DEF IInv, Counted, Still
  <2>2. Still(m) = 0 \/ Still(m) = 1
    BY DEF Still
  <2> QED BY <1>3, <2>1, <2>2
<1> QED BY <1>3, <1>5, <1>6, <1>7, <1>8, OneMoves
-----------------------------------------------------------------------------
(* A stuttering step keeps everything. *)
LEMMA NextStep == FormsAssumption /\ IInv /\ [Next]_vars => IInv'
<1> SUFFICES ASSUME FormsAssumption, IInv, [Next]_vars PROVE IInv'
  OBVIOUS
<1>1. CASE Next
  BY <1>1, FetchedStep, TypeStep, PreviewStep, SubmitStep, HandleStep, ContinueStep, FinishStep, RereadStep,
         RefusedStep, AskAgainStep DEF Next
<1>2. CASE UNCHANGED vars
  <2>1. \A l : CallOK(l) <=> CallOK(l)'
    BY <1>2 DEF vars, CallOK, Carried, First, Second, Allowed
  <2>2. TypeOK' /\ Opened' /\ Filled'
    BY <1>2 DEF IInv, vars, TypeOK, Opened, Filled, Has, Dirty
  <2>3. Sent'
    BY <1>2, <2>1 DEF IInv, vars, Sent
  <2>4. Counted'
    BY <1>2 DEF IInv, vars, Counted, OneCall, Pending, Dirty, Still
  <2> QED BY <2>2, <2>3, <2>4 DEF IInv
<1> QED BY <1>1, <1>2

(* Requests and answers in any order, any of them lost, another editor at any time: the form, its
   record and its requests keep their types (ServiceEdit.jsx, EmailSettings.jsx, Users.jsx ...). *)
THEOREM FormsInvariant == Spec => []IInv
BY FormsInit, NextStep, FormsAssumption, PTL DEF Spec

(* The type invariant of every form. *)
THEOREM FormsTyped == Spec => []TypeOK
<1>1. IInv => TypeOK
  BY DEF IInv
<1> QED BY <1>1, FormsInvariant, PTL

(* A disabled button: what the person meant is done at most once, and once more for each answer
   that did not come (the `busy' flags of the forms, e.g. AgencyBilling.jsx 435-455). *)
THEOREM FormsNothingTwice == Spec => []NothingTwice
<1>1. IInv => NothingTwice
  BY DEF IInv, Counted, NothingTwice
<1> QED BY <1>1, FormsInvariant, PTL

(* A request the server took is answered: it is no longer the one that was sent. *)
LEMMA TakenAnswered ==
  ASSUME FormsAssumption, IInv, NEW k \in calls, k.st = "sent", NEW st \in {"done", "refused"}, Take(k, st)
  PROVE  k \notin calls'
<1>1. k \in Call /\ rec \in [Field -> Value] /\ price \in 0..MaxEdits
  BY DEF IInv, TypeOK
<1>2. k.kept \cup Carried(k) \in SUBSET Field /\ k.body \in [Field -> Value \cup {Unsent}]
  BY <1>1 DEF Call, Carried, First, Second, Field
<1>3. rec' \in [Field -> Value]
  BY <1>1, <1>2 DEF Take, Taken
<1>4. calls' = Became(k, st, k.kept \cup Carried(k), rec')
  BY DEF Take
<1>5. st \in {"sent", "done", "refused", "changed", "fresh", "stuck"}
  OBVIOUS
<1>6. PICK m \in Call : calls' = (calls \ {k}) \cup {m} /\ m.st = st
  BY <1>1, <1>2, <1>3, <1>4, <1>5, BecameType
<1> QED BY <1>6

(* A save sends what its person edited and no secret that was left blank (ServiceEdit.jsx 222-239,
   EmailSettings.jsx 161-163). *)
THEOREM FormsOnlyEdited == Spec => OnlyEditedChanges
<1>1. ASSUME FormsAssumption, IInv, [Next]_vars, edits' = edits, NEW f \in Field,
             form.sends # "all" \/ f = Secret, rec'[f] # rec[f]
      PROVE  \E k \in calls \ calls' : f \in k.typed \/ (form.sends = "linked" /\ f = Rest /\ Plain \in k.typed)
  <2>a. ~OthersEdit
    <3>1. edits \in Nat
      BY <1>1 DEF IInv, TypeOK
    <3> QED BY <1>1, <3>1 DEF OthersEdit
  <2>b. rec' # rec
    BY <1>1
  <2>1. PICK k \in calls : Handle(k) /\ rec' # rec
    BY <1>1, <2>a, <2>b DEF Next, vars, Fetched, Type, Ask, Quoted, Submit, Continue, Finish, Reread, Refused, AskAgain,
         Decline, Leave
  <2>2. k \in Call /\ CallOK(k) /\ k.st = "sent"
    BY <1>1, <2>1 DEF IInv, TypeOK, Sent, Handle
  <2>3. PICK st \in {"done", "refused"} : Take(k, st)
    BY <2>1 DEF Handle
  <2>4. rec' = Taken(k) /\ k.body[f] # Unsent
    BY <1>1, <2>1, <2>3 DEF Take, Taken
  <2>5. Allowed(f, k.typed)
    BY <1>1, <2>2, <2>4 DEF CallOK
  <2>6. k \notin calls'
    BY <1>1, <2>2, <2>3, TakenAnswered
  <2> QED BY <2>5, <2>6 DEF Allowed
<1>2. IInv /\ FormsAssumption /\ [Next]_vars =>
        [edits' = edits =>
           \A f \in Field : (form.sends # "all" \/ f = Secret) /\ rec'[f] # rec[f] =>
             \E k \in calls \ calls' : f \in k.typed \/ (form.sends = "linked" /\ f = Rest /\ Plain \in k.typed)]_vars
  BY <1>1
<1> QED BY <1>2, FormsInvariant, FormsAssumption, PTL DEF Spec, OnlyEditedChanges

(* A form that closed by itself has saved all that was edited at the click: both requests are in
   (Users.jsx 183-195, Simple.jsx 705-718). *)
THEOREM FormsClosedSaved == Spec => ClosedMeansSaved
<1>1. ASSUME FormsAssumption, IInv, [Next]_vars, step' = "saved", step # "saved"
      PROVE  \E k \in calls \ calls' : k.typed \subseteq k.kept
  <2>1. PICK k \in calls : Finish(k) /\ form.done = "closes"
    <3>1. \E k \in calls : Finish(k)
      BY <1>1 DEF Next, vars, Fetched, Type, Ask, Quoted, Submit, Handle, Continue, Reread, Refused, AskAgain,
           Decline, Leave, OthersEdit
    <3> QED BY <1>1, <3>1 DEF Finish
  <2>2. k \in Call /\ CallOK(k) /\ k.st = "done" /\ ~NeedsSecond(k) /\ k \notin calls'
    BY <1>1, <2>1 DEF IInv, TypeOK, Sent, Finish
  <2>3. k.part \in 1..2 /\ k.typed \subseteq Field
    BY <2>2 DEF Call
  <2>4. CASE k.part = 1
    BY <2>1, <2>2, <2>3, <2>4 DEF CallOK, Carried, First, NeedsSecond
  <2>5. CASE k.part = 2
    BY <2>1, <2>2, <2>3, <2>5 DEF CallOK, Carried, First
  <2> QED BY <2>2, <2>3, <2>4, <2>5
<1>2. IInv /\ FormsAssumption /\ [Next]_vars =>
        [step' = "saved" /\ step # "saved" => \E k \in calls \ calls' : k.typed \subseteq k.kept]_vars
  BY <1>1
<1> QED BY <1>2, FormsInvariant, FormsAssumption, PTL DEF Spec, ClosedMeansSaved
=============================================================================
