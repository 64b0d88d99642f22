------------------------------- MODULE Pages -------------------------------
(***************************************************************************)
(* A page of the web front ends that shows rows of the server and runs     *)
(* operations on them.  The pages differ in a handful of choices (module   *)
(* Screens); one of them, `page', is open and behaves as its choices say.  *)
(*                                                                         *)
(* The server's data is the set of changes made so far, by this person     *)
(* (Mine) and by others (Theirs); an answer carries the changes the server *)
(* knew when it read.  Reads and operations overlap, answers arrive in any *)
(* order, and some fail.  The frames of the live feed come late or never.  *)
(***************************************************************************)
EXTENDS Screens, FiniteSets

CONSTANTS
  Catalogue,  \* the pages there are
  Filter,     \* what the rows can be chosen by: a search, a status, an id in the URL
  First,      \* the choice a page opens with
  Mine, Theirs,  \* changes of this person's operations, of everybody else
  None,       \* no rows yet, no operation, no answer
  MaxPicks,   \* bound: other choices made
  MaxFails,   \* bound: requests refused or lost
  MaxReads    \* bound: reads under way at once

Change == Mine \cup Theirs
Rows == [of : SUBSET Filter, seen : SUBSET Change]
Call == [op : Operation, c : Mine, at : Filter, on : SUBSET Filter, saw : SUBSET Filter,
         got : SUBSET Change, st : {"asking", "asked", "sent", "done", "refused"}]
AtOnce(o) == o.then \in {"optimistic", "undo"}

(* What is shown at once is not asked about before. *)
ASSUME PagesAssumption ==
  /\ Catalogue \subseteq ListPage /\ First \in Filter /\ Mine \cap Theirs = {}
  /\ \A p \in Catalogue : \A o \in p.ops : AtOnce(o) => o.asks = "none"
  /\ None \notin Rows /\ None \notin Call
  /\ MaxPicks \in Nat /\ MaxFails \in Nat /\ MaxReads \in Nat

VARIABLES
  page,     \* the page that is open
  wanted,   \* what the page is to show now
  timer,    \* typing: the pause has not passed yet
  reads,    \* reads under way
  shown,    \* the rows on screen: whose they are and which changes they know
  done,     \* changes the server made
  call,     \* the operation under way
  owed,     \* others changed something that no frame of the live feed told since
  event,    \* a frame told that something changed, and the page did not load again yet
  failed,   \* the last answer was an error
  picks, fails,      \* bounds
  acked, crossed     \* history: own changes the server confirmed; answers that could cross,
                     \* or further rows under those of a failed load, since a load ran alone

vars == <<page, wanted, timer, reads, shown, done, call, owed, event, failed, picks, fails, acked, crossed>>

Read == [f : Filter, newest : BOOLEAN, more : BOOLEAN, got : {None} \cup SUBSET Change]
Empty == [of |-> {}, seen |-> {}]

TypeOK ==
  /\ page \in Catalogue /\ wanted \in Filter /\ timer \in BOOLEAN
  /\ reads \subseteq Read
  /\ shown = None \/ shown \in Rows
  /\ done \subseteq Change /\ acked \subseteq Mine
  /\ call = None \/ call \in Call
  /\ owed \in BOOLEAN /\ event \in BOOLEAN /\ failed \in BOOLEAN /\ crossed \in BOOLEAN
  /\ picks \in Nat /\ fails \in Nat

(* The page mounts and asks for its rows. *)
Init ==
  /\ page \in Catalogue /\ wanted = First /\ timer = FALSE
  /\ reads = {[f |-> First, newest |-> TRUE, more |-> FALSE, got |-> None]}
  /\ shown = None /\ done = {} /\ call = None
  /\ owed = FALSE /\ event = FALSE /\ failed = FALSE /\ picks = 0 /\ fails = 0
  /\ acked = {} /\ crossed = FALSE

Modal == call # None /\ call.st # "refused" /\ call.op.asks # "none"
Under == call # None /\ call.st \in {"sent", "done", "refused"}
(* An operation under way that will change the rows on screen by itself. *)
Redraws(k) == k # None /\ k.st \in {"sent", "done"}
              /\ k.op.then \in {"patch", "answer", "optimistic", "undo"}

(***************************************************************************)
(* Reading                                                                 *)
(***************************************************************************)
(* load: a request for the rows of f (stale: not of the choice now made); a request under way is
   no longer the newest.  A load that runs alone settles what crossed before. *)
StartRead(f, more, stale) ==
  /\ Cardinality(reads) < MaxReads
  /\ reads' = {[q EXCEPT !.newest = FALSE] : q \in reads}
              \cup {[f |-> f, newest |-> TRUE, more |-> more, got |-> None]}
  /\ crossed' = \/ stale \/ Redraws(call)
                \/ crossed /\ (more \/ reads # {})
                \/ reads # {} /\ (more \/ page.late = "shown")
                \/ more /\ failed

(* Another filter, search or id.  A dialog covers the page, so nothing is chosen behind it. *)
Choose(f) ==
  /\ page.by # "none" /\ f # wanted /\ ~Modal /\ picks < MaxPicks
  /\ picks' = picks + 1 /\ wanted' = f
  /\ IF page.by = "pause"
     THEN timer' = TRUE /\ UNCHANGED <<reads, shown, crossed>>
     ELSE /\ StartRead(f, FALSE, FALSE)
          /\ shown' = IF page.blank THEN None ELSE shown
          /\ UNCHANGED timer
  /\ UNCHANGED <<page, done, call, owed, event, failed, fails, acked>>

(* The pause after typing has passed. *)
Typed ==
  /\ timer /\ timer' = FALSE
  /\ StartRead(wanted, FALSE, FALSE)
  /\ shown' = IF page.blank THEN None ELSE shown
  /\ UNCHANGED <<page, wanted, done, call, owed, event, failed, picks, fails, acked>>

(* The button below the rows, whatever rows they are: those a failed load left keep it too. *)
More ==
  /\ page.more /\ shown # None
  /\ StartRead(wanted, TRUE, FALSE)
  /\ UNCHANGED <<page, wanted, timer, shown, done, call, owed, event, failed, picks, fails, acked>>

Serve(q) ==
  /\ q \in reads /\ q.got = None
  /\ reads' = (reads \ {q}) \cup {[q EXCEPT !.got = done]}
  /\ UNCHANGED <<page, wanted, timer, shown, done, call, owed, event, failed, picks, fails, acked, crossed>>

(* Mutant: no answer is dropped. *)
DroppedNever(q) == FALSE

Dropped(q) == page.late = "dropped" /\ ~q.newest

Arrive(q) ==
  /\ q \in reads /\ q.got # None
  /\ reads' = reads \ {q}
  /\ IF Dropped(q) THEN UNCHANGED <<shown, failed>>
     ELSE /\ shown' = IF q.more /\ shown # None
                      THEN [of |-> shown.of \cup {q.f}, seen |-> shown.seen \cap q.got]
                      ELSE [of |-> {q.f}, seen |-> q.got]
          /\ failed' = FALSE
  /\ UNCHANGED <<page, wanted, timer, done, call, owed, event, picks, fails, acked, crossed>>

(* Mutant: an error leaves the spinner. *)
AfterErrorBlank == shown

(* What an error leaves: the rows there were, or a message in their place. *)
AfterError ==
  CASE page.fails = "kept" /\ shown # None -> shown
    [] page.fails = "stuck" -> shown
    [] OTHER -> Empty

ReadFails(q) ==
  /\ q \in reads /\ fails < MaxFails
  /\ fails' = fails + 1 /\ reads' = reads \ {q}
  /\ IF Dropped(q) THEN UNCHANGED <<shown, failed>>
     ELSE shown' = AfterError /\ failed' = TRUE
  /\ UNCHANGED <<page, wanted, timer, done, call, owed, event, picks, acked, crossed>>

(***************************************************************************)
(* Changes of others                                                       *)
(***************************************************************************)
Other(x) ==
  /\ x \in Theirs \ done
  /\ done' = done \cup {x}
  /\ owed' = (page.heard = "push")
  /\ UNCHANGED <<page, wanted, timer, reads, shown, call, event, failed, picks, fails, acked, crossed>>

(* A frame of the live feed.  It is sent after the change is committed, often by a task; a failed
   send is swallowed, so this need never happen, and the next frame tells of both changes. *)
Told ==
  /\ owed /\ owed' = FALSE /\ event' = TRUE
  /\ UNCHANGED <<page, wanted, timer, reads, shown, done, call, failed, picks, fails, acked, crossed>>


(* The live feed's counter or event loads the page again. *)
Heard ==
  /\ event /\ event' = FALSE
  /\ StartRead(wanted, FALSE, FALSE)
  /\ UNCHANGED <<page, wanted, timer, shown, done, call, owed, failed, picks, fails, acked>>

(* The timer of a page that polls; a watching page sets it only when an answer says that the job
   (a change of others) is not finished, and not after an error. *)
Poll ==
  /\ reads = {}
  /\ \/ page.heard = "poll"
     \/ page.heard = "watch" /\ shown # None /\ ~failed /\ ~(Theirs \subseteq shown.seen)
  /\ StartRead(wanted, FALSE, FALSE)
  /\ UNCHANGED <<page, wanted, timer, shown, done, call, owed, event, failed, picks, fails, acked>>

(***************************************************************************)
(* Operations                                                              *)
(***************************************************************************)
(* A click on what is on screen; on a page of one thing it acts on the id in the URL. *)
Click(o, c) ==
  /\ call = None /\ shown \notin {None, Empty} /\ o \in page.ops /\ c \in Mine \ done
  /\ call' = [op |-> o, c |-> c, at |-> wanted, saw |-> shown.of, got |-> {},
              on |-> IF page.by = "hop" THEN {wanted} ELSE shown.of,
              st |-> CASE o.asks = "preview" -> "asking" [] o.asks = "dialog" -> "asked" [] OTHER -> "sent"]
  /\ shown' = IF o.asks = "none" /\ AtOnce(o) THEN [shown EXCEPT !.seen = @ \cup {c}] ELSE shown
  /\ crossed' = (crossed \/ (reads # {} /\ Redraws(call')))
  /\ UNCHANGED <<page, wanted, timer, reads, done, owed, event, failed, picks, fails, acked>>

(* The first request of a previewed operation is answered; an error ends it. *)
Previewed ==
  /\ call # None /\ call.st = "asking"
  /\ \/ call' = [call EXCEPT !.st = "asked"] /\ UNCHANGED fails
     \/ call' = None /\ fails < MaxFails /\ fails' = fails + 1
  /\ UNCHANGED <<page, wanted, timer, reads, shown, done, owed, event, failed, picks, acked, crossed>>

(* The dialog: its button runs the action and the dialog stays until it ends. *)
Confirm ==
  /\ call # None /\ call.st = "asked"
  /\ call' = [call EXCEPT !.st = "sent"]
  /\ crossed' = (crossed \/ (reads # {} /\ Redraws(call')))
  /\ UNCHANGED <<page, wanted, timer, reads, shown, done, owed, event, failed, picks, fails, acked>>

Cancel ==
  /\ call # None /\ call.st = "asked" /\ call' = None
  /\ UNCHANGED <<page, wanted, timer, reads, shown, done, owed, event, failed, picks, fails, acked, crossed>>

(* The server does it, refuses it, or does it and the answer is lost. *)
Handle ==
  /\ call # None /\ call.st = "sent"
  /\ \/ done' = done \cup {call.c} /\ UNCHANGED fails
        /\ call' = [call EXCEPT !.st = "done", !.got = done']
     \/ /\ fails < MaxFails /\ fails' = fails + 1
        /\ call' = [call EXCEPT !.st = "refused"]
        /\ done' \in {done, done \cup {call.c}}
  /\ UNCHANGED <<page, wanted, timer, reads, shown, owed, event, failed, picks, acked, crossed>>

(* The answer: rows are loaded again with the choice of the click, changed, or replaced. *)
Finish ==
  /\ call # None /\ call.st = "done"
  /\ call' = None
  /\ acked' = IF call.op.then = "nothing" THEN acked ELSE acked \cup {call.c}
  /\ shown' = IF shown = None THEN None
              ELSE CASE call.op.then = "patch" -> [shown EXCEPT !.seen = @ \cup {call.c}]
                     [] call.op.then = "answer" -> [of |-> {call.at}, seen |-> call.got]
                     [] OTHER -> shown
  /\ IF call.op.then = "reload" THEN StartRead(call.at, FALSE, call.at # wanted)
     ELSE UNCHANGED reads /\ crossed' = (crossed \/ (call.op.then = "answer" /\ call.at # wanted))
  /\ UNCHANGED <<page, wanted, timer, done, owed, event, failed, picks, fails>>

(* A dialog stays open with the reason; elsewhere a toast tells it, and `undo' loads again. *)
Refused ==
  /\ call # None /\ call.st = "refused"
  /\ call' = IF call.op.asks = "none" THEN None ELSE [call EXCEPT !.st = "asked"]
  /\ IF call.op.then = "undo" THEN StartRead(call.at, FALSE, call.at # wanted) ELSE UNCHANGED <<reads, crossed>>
  /\ UNCHANGED <<page, wanted, timer, shown, done, owed, event, failed, picks, fails, acked>>

-----------------------------------------------------------------------------
Next ==
  \/ \E f \in Filter : Choose(f)
  \/ Typed \/ More \/ Heard \/ Poll
  \/ \E q \in reads : Serve(q) \/ Arrive(q) \/ ReadFails(q)
  \/ \E x \in Theirs : Other(x)
  \/ Told
  \/ \E o \in page.ops, c \in Mine : Click(o, c)
  \/ Previewed \/ Confirm \/ Cancel \/ Handle \/ Finish \/ Refused

Spec == Init /\ [][Next]_vars

(* Timers fire, the server answers and answers arrive; nothing is assumed of people. *)
FairSpec ==
  /\ Spec
  /\ WF_vars(Typed) /\ WF_vars(Heard) /\ WF_vars(Poll)
  /\ WF_vars(\E q \in reads : Serve(q)) /\ WF_vars(\E q \in reads : Arrive(q))
  /\ WF_vars(Previewed \/ Handle \/ Finish \/ Refused)
-----------------------------------------------------------------------------
Quiet == reads = {} /\ ~timer /\ ~event /\ ~Under

(* When nothing is under way, the last answer was no error and, since a load last ran alone, no two
   answers could cross and no further rows were put under those of a failed load, the page shows
   the rows of the choice now made, with every operation the server confirmed and none that it did
   not make. *)
SettledRight ==
  Quiet /\ ~failed /\ ~crossed =>
    /\ shown # None /\ shown.of = {wanted}
    /\ acked \subseteq shown.seen
    /\ shown.seen \subseteq done \/ \E o \in page.ops : o.then = "optimistic"

(* Whatever crossed, the rows at rest are those of the choice now made.  The pages that show every
   answer do not keep this (PagesGaps.cfg): an older answer that comes last stays, and further rows
   go under those that a failed load left. *)
RowsOfTheChoice == Quiet /\ ~failed => shown # None /\ shown.of = {wanted}

(* An operation acts on what the person saw when clicking.  The page of a customer does not keep
   this (PagesGaps.cfg): it shows the former customer until the answer comes, and its buttons act
   on the one of the URL. *)
ActsOnWhatIsShown == call # None => call.on = call.saw

(* A page never stays a spinner. *)
SpinnerEnds == page.fails # "stuck" /\ shown = None ~> shown # None

(* A change of somebody else reaches a page that listens: one that polls in any case, one that
   watches a job unless a read failed or answers crossed, and one that is told, under the same
   condition, once a frame came after the change: its own or that of a later one. *)
Follows == \/ page.heard = "poll"
           \/ page.heard \in {"push", "watch"} /\ ~crossed /\ ~failed /\ ~owed
=============================================================================
