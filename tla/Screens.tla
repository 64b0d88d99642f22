------------------------------ MODULE Screens ------------------------------
EXTENDS Naturals

(***************************************************************************)
(* The vocabulary of the catalogues of screens: what a list page and a     *)
(* form of the two web front ends can be like.  AdminLists, AgencyLists    *)
(* and CustomerLists describe every page with it, AdminForms, AgencyForms  *)
(* and CustomerForms every form; Pages and Forms say how they behave.      *)
(***************************************************************************)

(* What is asked before an operation (a dialog, or a dialog with what a first request found out),
   and what the page does with its answer: load again, change the rows on screen, take the answer
   for the page, show the change at once and keep it (optimistic) or load again if it is refused
   (undo). *)
Operation == [asks : {"none", "dialog", "preview"},
              then : {"reload", "patch", "answer", "optimistic", "undo", "nothing"}]
Op(asks, then) == [asks |-> asks, then |-> then]

(* by: what chooses the rows: nothing, a choice or every keystroke, typing that waits for a pause,
   or the id in the URL of a page that stays mounted and whose operations go to that id.
   blank: a new choice empties the page.
   late: an answer that a newer request overtook is shown or dropped.  fails: what a failed read
   leaves on screen.  heard: how changes of others reach the page (watch: it polls while its last
   answer said that a job runs).  more: it appends further rows. *)
ListPage == [by : {"none", "pick", "pause", "hop"}, blank : BOOLEAN, late : {"shown", "dropped"},
             fails : {"kept", "emptied", "stuck"}, heard : {"none", "poll", "push", "watch"},
             more : BOOLEAN, ops : SUBSET Operation]

(* A page that loads once and shows what comes, an error in its place. *)
List(ops) == [by |-> "none", blank |-> FALSE, late |-> "shown", fails |-> "emptied",
              heard |-> "none", more |-> FALSE, ops |-> ops]

(* start: a form begins blank (it creates something), with the row of the list, with either, or
   with an answer of its own.  sends: every field, those that were changed, or with one of them
   another that depends on it.  locks: its button
   is disabled while a save runs.  second: the fields a save sends in a second request.  done: what
   success does.  secret: a field that stays as it is when left blank.  preview: the form asks the
   server what its input means, and a save sends what was typed, what the preview was for, or a
   total the server compares. *)
FormPage == [start : {"blank", "row", "either", "fetch"}, sends : {"all", "changed", "linked"}, locks : BOOLEAN,
             second : {"none", "secret", "rest"}, done : {"closes", "stays", "refills", "resets"},
             secret : BOOLEAN, preview : {"none", "typed", "quoted", "agreed"}]

(* A dialog that sends everything once and closes. *)
Form(start) == [start |-> start, sends |-> "all", locks |-> TRUE, second |-> "none",
                done |-> "closes", secret |-> FALSE, preview |-> "none"]
=============================================================================
