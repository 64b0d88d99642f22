------------------------------- MODULE Forms -------------------------------
(***************************************************************************)
(* A form of the web front ends: it is filled, edited while the record     *)
(* behind it changes, and saved in one request or two, any of which may be *)
(* refused or lose its answer.  The forms differ in a handful of choices   *)
(* (module Screens); `form' behaves as its choices say.                    *)
(*                                                                         *)
(* A record has three kinds of fields: Plain ones, Rest (sent in a second  *)
(* request by the forms that have one) and Secret (a password or token the *)
(* server never shows).  A form that asks what its input would cost asks   *)
(* about the Plain field.                                                  *)
(***************************************************************************)
EXTENDS Screens

CONSTANTS
  Catalogue,            \* the forms there are
  Plain, Rest, Secret,  \* the fields
  Own, Usual,           \* what this person may type; bound: without a preview only this one
  Old, Theirs, Blank,   \* values: as it was, another editor's, none
  Unsent,               \* a field a request leaves out
  None,                 \* no preview
  MaxClicks,            \* bound: saves begun
  MaxFails,             \* bound: requests refused or lost
  MaxEdits              \* bound: changes of others

Field == {Plain, Rest, Secret}
Value == Own \cup {Old, Theirs, Blank}

ASSUME FormsAssumption ==
  /\ Catalogue \subseteq FormPage
  /\ \A x \in Catalogue :
       /\ x.preview # "none" => x.start = "blank" /\ x.sends = "all" /\ x.second = "none"
       /\ x.preview = "agreed" => x.done = "closes"
  /\ Plain # Rest /\ Plain # Secret /\ Rest # Secret
  /\ Usual \in Own /\ Own \cap {Old, Theirs, Blank} = {} /\ Unsent \notin Value
  /\ MaxClicks \in Nat /\ MaxFails \in Nat /\ MaxEdits \in Nat

VARIABLES
  form,    \* the form that is open
  begins,  \* how: "blank", "row" or "fetch"
  step,    \* loading, open, saved (closed by a save), left (closed by the person)
  rec,     \* the record on the server
  price,   \* what the server's prices or totals are now: a version
  made,    \* how often the server carried out what a blank form asks for
  base,    \* what the form was filled with
  draft,   \* what it holds
  due,     \* the pause after typing (or mounting) has not passed: a preview is due
  asks,    \* previews asked for, by the input they are about
  quote,   \* the preview the last answer gave
  hidden,  \* an error is shown in its place
  calls,   \* requests of saves under way
  clicks, fails, edits,  \* bounds
  meant,   \* history: how often a fresh blank form was begun to be filled
  edited   \* history: fields the person edited since the form was filled

vars == <<form, begins, step, rec, price, made, base, draft, due, asks, quote, hidden, calls,
          clicks, fails, edits, meant, edited>>

(* again: it is the new total a dialog asks to agree to. *)
Quote == [for : Value, price : 0..MaxEdits, again : BOOLEAN]
(* id tells clicks apart; typed, saw: what was edited and on screen at the click; kept: the fields
   the server has taken; got, now: the record and the total an answer carries. *)
Call == [id : Nat, part : 1..2, body : [Field -> Value \cup {Unsent}], typed : SUBSET Field,
         saw : Quote \cup {None}, kept : SUBSET Field, got : [Field -> Value], now : 0..MaxEdits,
         st : {"sent", "done", "refused", "changed", "fresh", "stuck"}]

TypeOK ==
  /\ form \in Catalogue /\ begins \in {"blank", "row", "fetch"}
  /\ step \in {"loading", "open", "saved", "left"}
  /\ rec \in [Field -> Value] /\ base \in [Field -> Value] /\ draft \in [Field -> Value]
  /\ price \in 0..MaxEdits /\ due \in BOOLEAN /\ hidden \in BOOLEAN /\ asks \subseteq Value
  /\ quote = None \/ quote \in Quote
  /\ calls \subseteq Call
  /\ edited \subseteq Field /\ {made, clicks, fails, edits, meant} \subseteq Nat

Has(f) == f # Secret \/ form.secret
Nothing == [f \in Field |-> Blank]
(* What a form shows of a record: all but the secret. *)
Fill(r) == [r EXCEPT ![Secret] = Blank]

Init ==
  /\ form \in Catalogue
  /\ begins \in IF form.start = "either" THEN {"blank", "row"} ELSE {form.start}
  /\ step = IF begins = "fetch" THEN "loading" ELSE "open"
  /\ rec = [f \in Field |-> Old] /\ price = 0 /\ made = 0
  /\ base = IF begins = "row" THEN Fill(rec) ELSE Nothing
  /\ draft = base
  /\ due = (form.preview = "agreed") /\ asks = {} /\ quote = None /\ hidden = FALSE
  /\ calls = {} /\ clicks = 0 /\ fails = 0 /\ edits = 0
  /\ meant = (IF form.preview = "agreed" THEN 1 ELSE 0) /\ edited = {}

Dirty == {f \in Field : draft[f] # base[f]}
(* The fields a save leaves for its second request. *)
Second ==
  CASE form.second = "rest" -> {Rest}
    [] form.second = "secret" /\ begins # "blank" -> {Secret}
    [] OTHER -> {}
First == Field \ Second

(***************************************************************************)
(* Filling and typing                                                      *)
(***************************************************************************)
Fetched ==
  /\ step = "loading" /\ step' = "open"
  /\ base' = Fill(rec) /\ draft' = Fill(rec)
  /\ UNCHANGED <<form, begins, rec, price, made, due, asks, quote, hidden, calls, clicks, fails, edits, meant, edited>>

(* Inputs stay editable while a save runs.  Typing drops the preview of a quoted form, and the
   error in its place; a pause later a new one is asked for. *)
Type(f, v) ==
  /\ step = "open" /\ Has(f) /\ v # draft[f]
  /\ form.preview # "agreed" /\ IF form.preview = "none" THEN v = Usual ELSE f = Plain
  /\ draft' = [draft EXCEPT ![f] = v] /\ edited' = edited \cup {f}
  /\ meant' = IF begins = "blank" /\ Dirty = {} THEN meant + 1 ELSE meant
  /\ meant' <= MaxClicks + 1
  /\ due' = (form.preview # "none")
  /\ quote' = IF form.preview = "quoted" THEN None ELSE quote
  /\ hidden' = FALSE
  /\ UNCHANGED <<form, begins, step, rec, price, made, base, asks, calls, clicks, fails, edits>>

Ask ==
  /\ due /\ step = "open" /\ due' = FALSE
  /\ asks' = asks \cup {draft[Plain]}
  /\ UNCHANGED <<form, begins, step, rec, price, made, base, draft, quote, hidden, calls, clicks, fails, edits, meant, edited>>

(* Every answer is taken, a late one too.  The failure of any of them hides the preview of a quoted
   form, which could still be saved, and takes the preview of the others away. *)
Quoted(v) ==
  /\ v \in asks /\ asks' = asks \ {v}
  /\ \/ quote' = [for |-> v, price |-> price, again |-> FALSE] /\ UNCHANGED <<hidden, fails>>
     \/ /\ fails < MaxFails /\ fails' = fails + 1
        /\ hidden' = (form.preview = "quoted")
        /\ quote' = IF form.preview = "quoted" THEN quote ELSE None
  /\ UNCHANGED <<form, begins, step, rec, price, made, base, draft, due, calls, clicks, edits, meant, edited>>

(***************************************************************************)
(* Saving                                                                  *)
(***************************************************************************)
(* Mutant: the button works while a save runs. *)
BusyNever == FALSE

Busy == form.locks /\ calls # {}

Ready ==
  /\ step = "open" /\ ~Busy
  /\ form.preview # "none" => quote # None
  /\ form.sends # "all" \/ (begins = "blank" /\ form.preview # "agreed") => Dirty # {}

LeftBlank(f) == f = Secret /\ draft[f] = Blank

(* What a save of what was changed carries.  In a linked form the change of one field brings
   another with it, as it stands. *)
Sends(f) ==
  \/ form.sends = "all" \/ f \in Dirty
  \/ form.sends = "linked" /\ f = Rest /\ Plain \in Dirty

LeftOut == {f \in Field : ~Has(f) \/ LeftBlank(f) \/ ~Sends(f)}
Body ==
  [f \in Field |-> IF f \in LeftOut THEN Unsent
                  ELSE IF form.preview = "quoted" /\ f = Plain THEN quote.for ELSE draft[f]]

Submit ==
  /\ Ready /\ clicks < MaxClicks /\ clicks' = clicks + 1
  /\ calls' = calls \cup {[id |-> clicks, part |-> 1, body |-> Body, typed |-> edited, saw |-> quote,
                           kept |-> {}, got |-> Nothing, now |-> price, st |-> "sent"]}
  /\ UNCHANGED <<form, begins, step, rec, price, made, base, draft, due, asks, quote, hidden, fails, edits, meant, edited>>

Carried(k) == IF k.part = 1 THEN First ELSE Second
(* A form with an agreed total sends the one it shows, and the server compares. *)
Accepts(k) == form.preview = "agreed" => k.saw.price = price

Became(k, st, kept, r) ==
  (calls \ {k}) \cup {[k EXCEPT !.st = st, !.kept = kept, !.got = r, !.now = price]}

Taken(k) == [f \in Field |-> IF f \in Carried(k) /\ k.body[f] # Unsent THEN k.body[f] ELSE rec[f]]

(* The server takes the request, refuses it, or takes it and the answer is lost. *)
Take(k, st) ==
  /\ Accepts(k)
  /\ rec' = IF begins = "blank" THEN rec ELSE Taken(k)
  /\ made' = IF begins = "blank" /\ k.part = 1 THEN made + 1 ELSE made
  /\ calls' = Became(k, st, k.kept \cup Carried(k), rec')

Handle(k) ==
  /\ k \in calls /\ k.st = "sent"
  /\ \/ Take(k, "done") /\ UNCHANGED fails
     \/ /\ ~Accepts(k) /\ UNCHANGED <<rec, made, fails>>
        /\ calls' = Became(k, IF k.saw.again THEN "refused" ELSE "changed", k.kept, rec)
     \/ /\ fails < MaxFails /\ fails' = fails + 1
        /\ \/ Take(k, "refused")
           \/ calls' = Became(k, "refused", k.kept, rec) /\ UNCHANGED <<rec, made>>
  /\ UNCHANGED <<form, begins, step, price, base, draft, due, asks, quote, hidden, clicks, edits, meant, edited>>

(* Mutant: the second request is not waited for. *)
NeedsSecondNever(k) == FALSE

(* A password, token or setting that was left blank needs no request. *)
NeedsSecond(k) == k.part = 1 /\ \E f \in Second : k.body[f] # Unsent

Continue(k) ==
  /\ k \in calls /\ k.st = "done" /\ NeedsSecond(k)
  /\ calls' = (calls \ {k}) \cup {[k EXCEPT !.part = 2, !.st = "sent"]}
  /\ UNCHANGED <<form, begins, step, rec, price, made, base, draft, due, asks, quote, hidden, clicks, fails, edits, meant, edited>>

(* Mutant: what the form compares with stays what it was filled with first. *)
RefillDraftOnly(r) == draft' = Fill(r) /\ edited' = {} /\ UNCHANGED base

Refill(r) == base' = Fill(r) /\ draft' = Fill(r) /\ edited' = {}

(* Success: the answer, or what is read again after it, fills the form. *)
Finish(k) ==
  /\ k \in calls /\ k.st = "done" /\ ~NeedsSecond(k)
  /\ calls' = calls \ {k}
  /\ \/ /\ step = "open" /\ form.done = "closes" /\ step' = "saved"
        /\ UNCHANGED <<base, draft, quote, edited>>
     \/ /\ step = "open" /\ form.done = "refills" /\ \E r \in {k.got, rec} : Refill(r)
        /\ UNCHANGED <<step, quote>>
     \/ /\ step = "open" /\ form.done = "resets"
        /\ base' = Nothing /\ draft' = Nothing /\ quote' = None /\ edited' = {}
        /\ UNCHANGED step
     \/ /\ step # "open" \/ form.done = "stays"
        /\ UNCHANGED <<step, base, draft, quote, edited>>
  /\ UNCHANGED <<form, begins, rec, price, made, due, asks, hidden, clicks, fails, edits, meant>>

(* The total has changed: it is read again inside the handler of the refusal.  When that fails
   nothing is left to catch the error, and the button stays busy. *)
Reread(k) ==
  /\ k \in calls /\ k.st = "changed"
  /\ \/ calls' = Became(k, "fresh", k.kept, rec) /\ UNCHANGED fails
     \/ /\ fails < MaxFails /\ fails' = fails + 1
        /\ calls' = Became(k, "stuck", k.kept, rec)
  /\ UNCHANGED <<form, begins, step, rec, price, made, base, draft, due, asks, quote, hidden, clicks, edits, meant, edited>>

(* Mutant: an error leaves the button busy. *)
RefusedHangs(k) == FALSE /\ UNCHANGED vars

(* An error is shown and the form stays as it is; the page that pays a total reads it again, unless
   the error is shown in the dialog. *)
Refused(k) ==
  /\ k \in calls /\ k.st = "refused"
  /\ calls' = calls \ {k}
  /\ asks' = IF form.preview = "agreed" /\ ~k.saw.again THEN asks \cup {draft[Plain]} ELSE asks
  /\ UNCHANGED <<form, begins, step, rec, price, made, base, draft, due, quote, hidden, clicks, fails, edits, meant, edited>>

(* The button is back and a dialog asks to agree to the total that was read. *)
AskAgain(k) ==
  /\ k \in calls /\ k.st = "fresh"
  /\ calls' = calls \ {k}
  /\ quote' = IF step = "open" THEN [k.saw EXCEPT !.price = k.now, !.again = TRUE] ELSE quote
  /\ UNCHANGED <<form, begins, step, rec, price, made, base, draft, due, asks, hidden, clicks, fails, edits, meant, edited>>

(* The dialog is closed; the page behind it shows that total too. *)
Decline ==
  /\ step = "open" /\ calls = {} /\ quote # None
  /\ quote.again /\ quote' = [quote EXCEPT !.again = FALSE]
  /\ UNCHANGED <<form, begins, step, rec, price, made, base, draft, due, asks, hidden, calls, clicks, fails, edits, meant, edited>>

(* The person closes it, also while a save runs. *)
Leave ==
  /\ step = "open" /\ form.done = "closes" /\ step' = "left"
  /\ UNCHANGED <<form, begins, rec, price, made, base, draft, due, asks, quote, hidden, calls, clicks, fails, edits, meant, edited>>

(* Another editor, or the program itself, changes the record or the prices. *)
OthersEdit ==
  /\ edits < MaxEdits /\ edits' = edits + 1
  /\ \/ begins # "blank" /\ \E f \in {g \in Field : Has(g)} : rec' = [rec EXCEPT ![f] = Theirs]
        /\ UNCHANGED price
     \/ form.preview # "none" /\ price' = price + 1 /\ UNCHANGED rec
  /\ UNCHANGED <<form, begins, step, made, base, draft, due, asks, quote, hidden, calls, clicks, fails, meant, edited>>

-----------------------------------------------------------------------------
Next ==
  \/ Fetched \/ Ask \/ Submit \/ Decline \/ Leave \/ OthersEdit
  \/ \E f \in Field, v \in Own : Type(f, v)
  \/ \E v \in asks : Quoted(v)
  \/ \E k \in calls : Handle(k) \/ Continue(k) \/ Finish(k) \/ Reread(k) \/ Refused(k) \/ AskAgain(k)

Spec == Init /\ [][Next]_vars

(* The server answers and answers arrive; nothing is assumed of the person. *)
FairSpec ==
  Spec /\ WF_vars(\E k \in calls : \/ Handle(k) \/ Continue(k) \/ Finish(k)
                                   \/ Reread(k) \/ Refused(k) \/ AskAgain(k))
-----------------------------------------------------------------------------
(* A form whose button is disabled while it saves carries out what a person meant at most once,
   and once more for every answer that did not come. *)
NothingTwice == form.locks /\ begins = "blank" /\ form.done # "stays" => made <= meant + fails

(* A save changes no field its person did not edit, except the one a linked form sends with the
   field it depends on: none that another editor changed meanwhile, if the form sends what was
   changed, and never a secret that was left blank. *)
OnlyEditedChanges ==
  [][edits' = edits =>
       \A f \in Field : (form.sends # "all" \/ f = Secret) /\ rec'[f] # rec[f] =>
         \E k \in calls \ calls' :
           f \in k.typed \/ (form.sends = "linked" /\ f = Rest /\ Plain \in k.typed)]_vars

(* A form that closes by itself has had everything saved that was edited when the button was
   pressed, the part of the second request too. *)
ClosedMeansSaved ==
  [][step' = "saved" /\ step # "saved" => \E k \in calls \ calls' : k.typed \subseteq k.kept]_vars

(* A save ends and the button comes back, also after a second request was refused or the total had
   changed; except when the total could not be read again. *)
SaveEnds == calls # {} ~> calls = {} \/ \E k \in calls : k.st = "stuck"
-----------------------------------------------------------------------------
(* What the repository says of the forms and they do not do.               *)

(* "409 total_changed + new total -> page shows it, asks again": unless the total cannot be read
   again, and then the button stays dead. *)
SaveAlwaysEnds == calls # {} ~> calls = {}

(* The limit of an admin is set "with live server preview (old -> new, remaining, charge)": what is
   confirmed is a preview on screen.  A failed preview hides the one that a late answer gave, and
   that one is sent. *)
ConfirmsWhatIsShown ==
  [][clicks' # clicks /\ form.preview = "quoted" => ~hidden]_vars
=============================================================================
