------------------------------ MODULE LiveFeed ------------------------------
(***************************************************************************)
(* The live feeds of one browser tab: the payments queue and the ticket    *)
(* inbox of the panel (admin/src/lib/livePayments.jsx, liveTickets.jsx)    *)
(* and the customer's notification bell.  A feed keeps a WebSocket open,   *)
(* reconnects with a timer, asks the count over HTTP when the socket opens *)
(* or the tab comes back to the front, and shows the newest number it was  *)
(* told.  A number is represented by the state of the server it was read   *)
(* from (`now' counts the changes), so that "right" means "of now".        *)
(*                                                                         *)
(* The server's side: a change is committed first; the push reads the      *)
(* count, then sends it to the group, and either may fail unnoticed        *)
(* (notifications/live.py, tickets/notify.py).  A handshake joins the      *)
(* group before it is accepted, or is refused for its token before that,   *)
(* which a browser cannot tell from a connection that failed: the close    *)
(* code 4401 never reaches the tab.                                        *)
(***************************************************************************)
EXTENDS Naturals, FiniteSets, Sequences

CONSTANTS
  Socks,       \* WebSocket objects the tab may hold at a time
  NoSock,
  MaxNow,      \* bound: changes on the server
  MaxDrops,    \* bound: connections that break and count calls that fail
  MaxExpires,  \* bound: access tokens that expire
  MaxAsks      \* bound: count calls under way that the server has not read yet

ASSUME LiveFeedAssumption ==
  NoSock \notin Socks /\ {MaxNow, MaxDrops, MaxExpires, MaxAsks} \subseteq Nat

(* The feeds: catchUp - the count is asked again when the socket opens; wakes - coming back
   to the tab asks the count and reconnects. *)
PaymentsFeed == [catchUp |-> TRUE, wakes |-> TRUE]
TicketsFeed == [catchUp |-> TRUE, wakes |-> TRUE]
CustomerBell == [catchUp |-> FALSE, wakes |-> FALSE]
Feeds == {PaymentsFeed, TicketsFeed, CustomerBell}

VARIABLES
  feed,     \* the feed of this behaviour
  on,       \* the effect runs: somebody with the permission is signed in
  token,    \* the access token stored: none, one the server takes, one that expired
  now,      \* changes on the server so far
  owed,     \* changes whose push did not read the count yet
  frames,   \* counts read by a push and not sent yet
  badge,    \* the change the shown number is of
  asks,     \* count calls the server has not read yet
  answers,  \* count answers on their way to the tab
  sock,     \* each WebSocket object; `expired' is one opened with an expired token
  inbox,    \* each socket's pushes on their way
  ws,       \* the effect's `ws'
  timer,    \* the effect's `retryTimer' is armed
  orphans,  \* armed timers whose handle was overwritten
  drops, expires,  \* bounds
  doubt     \* history: since the right number was last shown a push was lost, a count call failed,
            \* or an older number overtook a newer one

feedVars == <<feed, on, token, now, owed, frames, badge, asks, answers, sock, inbox, ws, timer,
              orphans, drops, expires, doubt>>
(* The server's data, and what the effect holds. *)
serverVars == <<now, owed, frames>>
tabVars == <<on, ws, timer, orphans>>

FeedTypeOK ==
  /\ feed \in Feeds /\ on \in BOOLEAN /\ token \in {"none", "good", "stale"}
  /\ now \in 0..MaxNow /\ owed \in 0..MaxNow /\ frames \subseteq 0..MaxNow
  /\ badge \in 0..MaxNow /\ asks \in 0..MaxAsks /\ answers \subseteq 0..MaxNow
  /\ sock \in [Socks -> {"free", "opening", "expired", "joined", "open"}]
  /\ inbox \in [Socks -> Seq(0..MaxNow)]
  /\ ws \in Socks \cup {NoSock} /\ timer \in BOOLEAN /\ orphans \in Nat
  /\ drops \in 0..MaxDrops /\ expires \in 0..MaxExpires /\ doubt \in BOOLEAN

FeedInit ==
  /\ feed \in Feeds /\ on = FALSE /\ token = "good"
  /\ now = 0 /\ owed = 0 /\ frames = {} /\ badge = 0 /\ asks = 0 /\ answers = {}
  /\ sock = [s \in Socks |-> "free"] /\ inbox = [s \in Socks |-> <<>>]
  /\ ws = NoSock /\ timer = FALSE /\ orphans = 0 /\ drops = 0 /\ expires = 0 /\ doubt = FALSE

(***************************************************************************)
(* The effect                                                              *)
(***************************************************************************)
(* connect(): nothing without a token; else a new socket with the token of now in its address,
   which becomes `ws'. *)
Connect ==
  IF token = "none" THEN UNCHANGED <<sock, ws>>
  ELSE \E s \in Socks : /\ sock[s] = "free" /\ ws' = s
                        /\ sock' = [sock EXCEPT ![s] = IF token = "good" THEN "opening" ELSE "expired"]

(* A socket is closed as far as readyState can tell. *)
Gone(s) == s = NoSock \/ sock[s] = "free"

(* The effect starts: ask the count, connect. *)
Enable ==
  /\ ~on /\ token # "none" /\ asks < MaxAsks
  /\ on' = TRUE /\ asks' = asks + 1
  /\ Connect
  /\ UNCHANGED <<feed, token, serverVars, badge, answers, inbox, timer, orphans, drops, expires, doubt>>

(* The clean-up on sign-out: the timer in hand is cleared and `ws' is closed; timers left find
   `closed' set and do nothing. *)
Disable ==
  /\ on /\ on' = FALSE
  /\ sock' = [s \in Socks |-> IF s = ws THEN "free" ELSE sock[s]]
  /\ inbox' = [s \in Socks |-> IF s = ws THEN <<>> ELSE inbox[s]]
  /\ ws' = NoSock /\ timer' = FALSE /\ orphans' = 0
  /\ badge' = 0 /\ doubt' = TRUE
  /\ UNCHANGED <<feed, token, serverVars, asks, answers, drops, expires>>

(* retryTimer = setTimeout(connect, ...): a timer already in hand loses its handle. *)
Arm == timer' = TRUE /\ orphans' = IF timer THEN orphans + 1 ELSE orphans

(* ws.onclose. *)
Closed(s) ==
  /\ sock' = [sock EXCEPT ![s] = "free"] /\ inbox' = [inbox EXCEPT ![s] = <<>>]
  /\ Arm

(* A connection, or the attempt at one, breaks. *)
Dropped(s) ==
  /\ sock[s] # "free" /\ drops < MaxDrops /\ drops' = drops + 1
  /\ Closed(s)
  /\ UNCHANGED <<feed, on, token, serverVars, badge, asks, answers, ws, expires, doubt>>

(* Mutant: a refused token ends the feed. *)
RefusedGivesUp(s) ==
  /\ sock[s] = "expired" /\ sock' = [sock EXCEPT ![s] = "free"]
  /\ UNCHANGED <<feed, token, serverVars, tabVars, badge, asks, answers, inbox, drops, expires, doubt>>

(* The server closes before it accepts; the tab sees a connection that failed. *)
Refused(s) ==
  /\ sock[s] = "expired"
  /\ Closed(s)
  /\ UNCHANGED <<feed, on, token, serverVars, badge, asks, answers, ws, drops, expires, doubt>>

(* The server takes the token and joins the socket to the group, then accepts. *)
Joined(s) ==
  /\ sock[s] = "opening" /\ sock' = [sock EXCEPT ![s] = "joined"]
  /\ UNCHANGED <<feed, token, serverVars, tabVars, badge, asks, answers, inbox, drops, expires, doubt>>

(* Mutant: what was missed while disconnected is not asked for. *)
OpenedBlind(s) ==
  /\ sock[s] = "joined" /\ sock' = [sock EXCEPT ![s] = "open"]
  /\ UNCHANGED <<feed, token, serverVars, tabVars, badge, asks, answers, inbox, drops, expires, doubt>>

(* ws.onopen: catch up on anything missed while disconnected. *)
Opened(s) ==
  /\ sock[s] = "joined" /\ sock' = [sock EXCEPT ![s] = "open"]
  /\ IF feed.catchUp THEN asks < MaxAsks /\ asks' = asks + 1 ELSE UNCHANGED asks
  /\ UNCHANGED <<feed, token, serverVars, tabVars, badge, answers, inbox, drops, expires, doubt>>

(* A timer fires. *)
Retry ==
  /\ \/ timer /\ timer' = FALSE /\ UNCHANGED orphans
     \/ orphans > 0 /\ orphans' = orphans - 1 /\ UNCHANGED timer
  /\ Connect
  /\ UNCHANGED <<feed, on, token, serverVars, badge, asks, answers, inbox, drops, expires, doubt>>

(* Mutant: coming back to the tab connects without dropping the timer in hand. *)
VisibleKeepsTimer ==
  /\ feed.wakes /\ on /\ asks < MaxAsks /\ asks' = asks + 1
  /\ IF Gone(ws) THEN Connect ELSE UNCHANGED <<sock, ws>>
  /\ UNCHANGED <<feed, on, token, serverVars, badge, answers, inbox, timer, orphans, drops, expires, doubt>>

(* onVisible: ask the count; when the socket died, drop the timer in hand and connect. *)
Visible ==
  /\ feed.wakes /\ on /\ asks < MaxAsks /\ asks' = asks + 1
  /\ IF Gone(ws) THEN timer' = FALSE /\ Connect ELSE UNCHANGED <<timer, sock, ws>>
  /\ UNCHANGED <<feed, on, token, serverVars, badge, answers, inbox, orphans, drops, expires, doubt>>

(***************************************************************************)
(* Tokens                                                                  *)
(***************************************************************************)
(* The access token expires; a socket that is open stays open, a handshake under way is late. *)
TokenExpires ==
  /\ token = "good" /\ expires < MaxExpires
  /\ token' = "stale" /\ expires' = expires + 1
  /\ sock' = [s \in Socks |-> IF sock[s] = "opening" THEN "expired" ELSE sock[s]]
  /\ UNCHANGED <<feed, serverVars, tabVars, badge, asks, answers, inbox, drops, doubt>>

(* Another call of the tab refreshes it, another tab signs out or in. *)
TokenChanges ==
  /\ \/ token = "stale" /\ token' = "good"
     \/ token # "none" /\ token' = "none"
     \/ token = "none" /\ token' = "good"
  /\ UNCHANGED <<feed, serverVars, tabVars, badge, asks, answers, sock, inbox, drops, expires, doubt>>

(***************************************************************************)
(* Numbers                                                                 *)
(***************************************************************************)
(* A change is committed; its push comes after that. *)
Change ==
  /\ now < MaxNow /\ now' = now + 1 /\ owed' = owed + 1
  /\ UNCHANGED <<feed, token, frames, tabVars, badge, asks, answers, sock, inbox, drops, expires, doubt>>

(* The push reads the count. *)
PushRead ==
  /\ owed > 0 /\ owed' = owed - 1 /\ frames' = frames \cup {now}
  /\ UNCHANGED <<feed, token, now, tabVars, badge, asks, answers, sock, inbox, drops, expires, doubt>>

(* group_send: two pushes may send in the other order than they read. *)
PushSent(v) ==
  /\ v \in frames /\ frames' = frames \ {v}
  /\ inbox' = [s \in Socks |-> IF sock[s] \in {"joined", "open"} THEN Append(inbox[s], v) ELSE inbox[s]]
  /\ UNCHANGED <<feed, token, now, owed, tabVars, badge, asks, answers, sock, drops, expires, doubt>>

(* The task of the push never runs, or its send fails and is swallowed. *)
PushLost ==
  /\ \/ owed > 0 /\ owed' = owed - 1 /\ UNCHANGED frames
     \/ UNCHANGED owed /\ \E v \in frames : frames' = frames \ {v}
  /\ doubt' = TRUE
  /\ UNCHANGED <<feed, token, now, tabVars, badge, asks, answers, sock, inbox, drops, expires>>

(* The number of state v is shown. *)
Show(v) == badge' = v /\ doubt' = (v # now /\ (doubt \/ v < badge))

(* ws.onmessage. *)
Pushed(s) ==
  /\ sock[s] = "open" /\ inbox[s] # <<>>
  /\ Show(Head(inbox[s]))
  /\ inbox' = [inbox EXCEPT ![s] = Tail(@)]
  /\ UNCHANGED <<feed, token, serverVars, tabVars, asks, answers, sock, drops, expires>>

(* refreshCount: the server reads its count; a token it refuses is refreshed on the way. *)
CountRead ==
  /\ asks > 0 /\ asks' = asks - 1
  /\ token # "none" /\ token' = "good" /\ answers' = answers \cup {now}
  /\ UNCHANGED <<feed, serverVars, tabVars, badge, sock, inbox, drops, expires, doubt>>

(* The call fails unnoticed: without a token it always does. *)
CountFails ==
  /\ asks > 0 /\ asks' = asks - 1
  /\ IF token = "none" THEN UNCHANGED drops ELSE drops < MaxDrops /\ drops' = drops + 1
  /\ doubt' = TRUE
  /\ UNCHANGED <<feed, token, serverVars, tabVars, badge, answers, sock, inbox, expires>>

Counted(v) ==
  /\ v \in answers /\ answers' = answers \ {v}
  /\ Show(v)
  /\ UNCHANGED <<feed, token, serverVars, tabVars, asks, sock, inbox, drops, expires>>

FeedNext ==
  \/ Enable \/ Disable \/ Retry \/ Visible \/ TokenExpires \/ TokenChanges
  \/ Change \/ PushRead \/ PushLost \/ CountRead \/ CountFails
  \/ \E s \in Socks : Dropped(s) \/ Refused(s) \/ Joined(s) \/ Opened(s) \/ Pushed(s)
  \/ \E v \in 0..MaxNow : PushSent(v) \/ Counted(v)

(* Timers fire, calls return, a handshake is answered (onopen strongly fair: the bound MaxAsks can
   stand in its way for a moment, the code cannot); a connection may break only MaxDrops times.
   Nothing is assumed of pushes, of tokens or of the person. *)
FeedFairness ==
  /\ WF_feedVars(Retry) /\ WF_feedVars(CountRead \/ CountFails)
  /\ \A s \in Socks :
       WF_feedVars(Joined(s)) /\ WF_feedVars(Refused(s)) /\ SF_feedVars(Opened(s)) /\ WF_feedVars(Pushed(s))
  /\ \A v \in 0..MaxNow : WF_feedVars(Counted(v))

FeedSpec == FeedInit /\ [][FeedNext]_feedVars
FeedFairSpec == FeedSpec /\ FeedFairness

(***************************************************************************)
(* Properties.                                                             *)
(***************************************************************************)

Live == {s \in Socks : sock[s] # "free"}
Connected == \E s \in Socks : sock[s] = "open"
Quiet == /\ owed = 0 /\ frames = {} /\ asks = 0 /\ answers = {}
         /\ \A s \in Socks : sock[s] = "open" => inbox[s] = <<>>

(* While the feed is connected and nothing is on its way, the badge shows the server's number,
   whatever was missed while it was down.  A push that was lost, a count call that failed or an
   older number that overtook a newer one may leave it wrong, until the right number is shown again
   (the next push, the next wake-up or reconnection). *)
BadgeRight == on /\ feed.catchUp /\ Connected /\ Quiet => badge = now \/ doubt

(* "One WebSocket per admin tab": breaking and refused connections, wake-ups and timers never make
   two, nor leave a timer that will bring another. *)
OneSocket ==
  /\ \A s, t \in Live : s = t
  /\ orphans = 0 /\ (timer => Live = {})

(* A feed that is on gets connected again, however its connections break and tokens expire, if the
   token is renewed for good by any call, or, where coming back to the tab asks the count, if the
   person keeps coming back: that call's renewal is in time for a later retry.  (A retry that finds
   no token at all ends the feed until the tab comes back to the front, or for good: the bell.) *)
Reconnects ==
  [](token # "none") /\ (<>[](token = "good") \/ (feed.wakes /\ []<><<Visible>>_feedVars))
    => (on ~> Connected \/ ~on)

(* "the token expired - any API call refreshes it, then retry": the feeds do not reconnect by
   themselves (LiveFeedGaps.cfg), as the close code that starts that call never reaches them. *)
ReconnectsUnaided == feed.wakes /\ [](token # "none") => (on ~> Connected \/ ~on)
=============================================================================
