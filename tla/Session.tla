------------------------------ MODULE Session ------------------------------
(***************************************************************************)
(* The signed-in session of the two web sites (src/frontend/user and       *)
(* src/frontend/admin): the token pair that all tabs of a site share in    *)
(* localStorage, the axios interceptors that refresh it once per tab, the  *)
(* start of a page (AuthProvider), sign-in, sign-out and the Telegram Mini *)
(* App, and the server's side of a refresh, which spends the token it is   *)
(* given and issues a new pair.                                            *)
(*                                                                         *)
(* An issue (a number) is one token pair.  The code always stores and      *)
(* drops both halves together, so `stored' is one issue, 0 for none.       *)
(***************************************************************************)
EXTENDS Naturals, FiniteSets

CONSTANTS
  Tabs,      \* the open tabs of one browser
  Accounts,  \* the accounts somebody signs in with
  NoOne,     \* no account, no tab
  Calls,     \* the calls of a tab
  Reqs,      \* Reqs[t]: those tab t may have under way
  Me,        \* the call of a tab that asks /auth/me/ while the page starts
  MeTries,   \* how often a start retries /auth/me/ after a network failure (3 in the code)
  MaxIssue   \* bound: token pairs the server issues

ASSUME SessionAssumption ==
  /\ Reqs \in [Tabs -> SUBSET Calls] /\ \A t \in Tabs : Me \in Reqs[t]
  /\ MeTries \in Nat /\ MaxIssue \in Nat \ {0}
  /\ NoOne \notin Accounts /\ NoOne \notin Tabs

VARIABLES
  telegram,   \* the site runs inside Telegram (initData is there)
  owner,      \* owner[i]: the account pair i was issued to, NoOne when not issued yet
  fate,       \* fate[i]: what the server says of refresh token i
  spender,    \* spender[i]: the tab whose refresh call spent i
  missed,     \* pairs that were spent while the answer never reached the tab
  stale,      \* pairs whose access token has expired
  stored,     \* the pair in localStorage, 0 when there is none
  tab,        \* each tab: where it is, whom it shows, the relaunch flag
  req,        \* each tab's calls
  refr,       \* each tab's `refreshing' promise
  sign,       \* each tab's sign-in call
  relaunches  \* history: relaunches of a Telegram tab since its last sign-in

vars == <<telegram, owner, fate, spender, missed, stale, stored, tab, req,
          refr, sign, relaunches>>

Issues == 1..MaxIssue
Issued == {i \in Issues : owner[i] # NoOne}
Idle == [st |-> "idle", sent |-> 0, retried |-> FALSE]
Fresh(i) == [st |-> "sent", sent |-> i, retried |-> FALSE]
NoRefresh == [st |-> "none", tok |-> 0, got |-> 0]
NoSignIn == [st |-> "none", acct |-> NoOne]

TypeOK ==
  /\ telegram \in BOOLEAN
  /\ owner \in [Issues -> Accounts \cup {NoOne}]
  /\ fate \in [Issues -> {"live", "spent", "revoked", "expired"}]
  /\ spender \in [Issues -> Tabs \cup {NoOne}]
  /\ missed \subseteq Issues /\ stale \subseteq Issues
  /\ stored \in 0..MaxIssue
  /\ tab \in [Tabs -> [path : {"site", "auth"}, phase : {"closed", "loading", "ready", "leaving"},
                       me : Accounts \cup {NoOne}, tries : 0..MeTries, flag : BOOLEAN]]
  /\ DOMAIN req = Tabs
  /\ \A t \in Tabs : req[t] \in [Reqs[t] -> [st : {"idle", "sent", "waiting", "pause", "hung"},
                                            sent : 0..MaxIssue, retried : BOOLEAN]]
  /\ refr \in [Tabs -> [st : {"none", "asked", "granted", "refused"},
                        tok : 0..MaxIssue, got : 0..MaxIssue]]
  /\ sign \in [Tabs -> [st : {"none", "sent"}, acct : Accounts \cup {NoOne}]]
  /\ relaunches \in [Tabs -> Nat]

(* The browser may hold the pair of an earlier visit, which may have expired or been revoked
   since; the tabs are about to load (a Mini App has one window). *)
Init ==
  /\ telegram \in BOOLEAN
  /\ stored \in {0, 1}
  /\ \E a \in Accounts :
       owner = [i \in Issues |-> IF i <= stored THEN a ELSE NoOne]
  /\ \E f \in {"live", "revoked", "expired"} :
       fate = [i \in Issues |-> IF i <= stored THEN f ELSE "live"]
  /\ spender = [i \in Issues |-> NoOne]
  /\ missed = {} /\ stale = {}
  /\ \E w \in Tabs :
       tab = [t \in Tabs |-> [path |-> "site", me |-> NoOne, tries |-> 0, flag |-> FALSE,
                              phase |-> IF telegram /\ t # w THEN "closed" ELSE "leaving"]]
  /\ req = [t \in Tabs |-> [r \in Reqs[t] |-> Idle]]
  /\ refr = [t \in Tabs |-> NoRefresh]
  /\ sign = [t \in Tabs |-> NoSignIn]
  /\ relaunches = [t \in Tabs |-> 0]

(***************************************************************************)
(* How the page of a tab ends a call.                                      *)
(***************************************************************************)

Waiting(t) == {r \in Reqs[t] : req[t][r].st = "waiting"}

(* The calls R of tab t end; the others go on. *)
Ended(t, R, as) == [req EXCEPT ![t] = [r \in Reqs[t] |-> IF r \in R THEN as ELSE @[r]]]

(* refreshMe's catch: whether the start of tab t is among the calls R that fail. *)
Starting(t, R) == Me \in R /\ tab[t].phase = "loading" /\ ~telegram

(* Private: nobody is signed in on the started page, so the router shows the sign-in form
   (inside Telegram there is no form: TelegramGate shows the error in place). *)
Private(t, a) == [tab[t] EXCEPT !.me = a, !.tries = 0,
                                !.phase = IF @ = "leaving" THEN @ ELSE "ready",
                                !.path = IF a = NoOne /\ ~telegram THEN "auth" ELSE @]

(* A network failure or a 5xx is no logout: the calls R fail, a start tries again. *)
Hiccup(t, R) ==
  /\ UNCHANGED stored
  /\ IF Starting(t, R) /\ tab[t].tries < MeTries
     THEN /\ tab' = [tab EXCEPT ![t].tries = @ + 1]
          /\ req' = [Ended(t, R \ {Me}, Idle) EXCEPT ![t][Me] = [Idle EXCEPT !.st = "pause"]]
     ELSE /\ tab' = IF Starting(t, R) THEN [tab EXCEPT ![t] = Private(t, NoOne)] ELSE tab
          /\ req' = Ended(t, R, Idle)

(* A refusal that reaches the caller: refreshMe clears what is stored on 401 and 403. *)
Refusal(t, R, kept) ==
  /\ stored' = IF Starting(t, R) THEN 0 ELSE kept
  /\ tab' = IF Starting(t, R) THEN [tab EXCEPT ![t] = Private(t, NoOne)] ELSE tab
  /\ req' = Ended(t, R, Idle)

(* Mutant: the relaunch inside Telegram is not remembered in sessionStorage. *)
SessionExpiredNoFlag(t, R) ==
  /\ stored' = 0
  /\ IF telegram \/ tab[t].path = "site"
     THEN /\ req' = Ended(t, R, [Idle EXCEPT !.st = "hung"])
          /\ tab' = [tab EXCEPT ![t].phase = "leaving",
                                ![t].path = IF telegram THEN "site" ELSE "auth"]
     ELSE Refusal(t, R, 0)
  /\ relaunches' = IF telegram THEN [relaunches EXCEPT ![t] = @ + 1] ELSE relaunches

(* Mutant: after the one relaunch the promise is left open instead of being rejected. *)
SessionExpiredHangs(t, R) ==
  LET relaunch == telegram /\ ~tab[t].flag
      form == ~telegram /\ tab[t].path = "site"
  IN /\ stored' = 0
     /\ req' = Ended(t, R, [Idle EXCEPT !.st = "hung"])
     /\ tab' = IF relaunch \/ form
               THEN [tab EXCEPT ![t].phase = "leaving",
                                ![t].path = IF form THEN "auth" ELSE "site",
                                ![t].flag = @ \/ relaunch]
               ELSE tab
     /\ relaunches' = IF relaunch THEN [relaunches EXCEPT ![t] = @ + 1] ELSE relaunches

(* sessionExpired: clear what is stored and go to the sign-in form; inside Telegram, one
   relaunch at the app's root; where there is nowhere to go the error is returned. *)
SessionExpired(t, R) ==
  LET relaunch == telegram /\ ~tab[t].flag
      form == ~telegram /\ tab[t].path = "site"
  IN /\ IF relaunch \/ form
        THEN /\ stored' = 0
             /\ req' = Ended(t, R, [Idle EXCEPT !.st = "hung"])
             /\ tab' = [tab EXCEPT ![t].phase = "leaving",
                                   ![t].path = IF form THEN "auth" ELSE "site",
                                   ![t].flag = @ \/ relaunch]
        ELSE Refusal(t, R, 0)
     /\ relaunches' = IF relaunch THEN [relaunches EXCEPT ![t] = @ + 1] ELSE relaunches

(***************************************************************************)
(* The page: loading, calls, sign-in, sign-out.                            *)
(***************************************************************************)

(* pruneStoredTokens: a refresh token that expired while nobody was there is dropped. *)
Pruned == IF stored # 0 /\ fate[stored] = "expired" THEN 0 ELSE stored

(* A new document: everything the old one waited for is gone, an answer on its way
   included.  AuthProvider starts with /auth/me/, or with Telegram's own sign-in. *)
Load(t) ==
  /\ tab[t].phase = "leaving"
  /\ stored' = IF telegram THEN 0 ELSE Pruned
  /\ tab' = [tab EXCEPT ![t] =
               IF stored' = 0 /\ ~telegram THEN [Private(t, NoOne) EXCEPT !.phase = "ready"]
               ELSE [@ EXCEPT !.phase = "loading", !.me = NoOne, !.tries = 0]]
  /\ req' = [req EXCEPT ![t] = [r \in Reqs[t] |->
               IF r = Me /\ stored' # 0 THEN Fresh(stored') ELSE Idle]]
  /\ missed' = IF refr[t].st = "granted" THEN missed \cup {refr[t].tok} ELSE missed
  /\ refr' = [refr EXCEPT ![t] = NoRefresh]
  /\ IF telegram
     THEN \E a \in Accounts : sign' = [sign EXCEPT ![t] = [st |-> "sent", acct |-> a]]
     ELSE sign' = [sign EXCEPT ![t] = NoSignIn]
  /\ UNCHANGED <<telegram, owner, fate, spender, stale, relaunches>>

(* The visitor reloads a page, or follows a link out of the app, while calls are under way
   (a reload without any is only the start again, which forced navigations bring about too). *)
Reload(t) ==
  /\ tab[t].phase = "ready" /\ \E r \in Reqs[t] : req[t][r].st # "idle"
  /\ tab' = [tab EXCEPT ![t].phase = "leaving"]
  /\ UNCHANGED <<telegram, owner, fate, spender, missed, stale, stored, req, refr,
                 sign, relaunches>>

(* A page asks the API with whatever access token is stored now. *)
Send(t, r) ==
  /\ tab[t].phase = "ready" /\ tab[t].path = "site" /\ tab[t].me # NoOne
  /\ r # Me /\ req[t][r].st = "idle"
  /\ req' = [req EXCEPT ![t][r] = Fresh(stored)]
  /\ UNCHANGED <<telegram, owner, fate, spender, missed, stale, stored, tab, refr,
                 sign, relaunches>>

(* refreshMe's wait is over: /auth/me/ again. *)
TryAgain(t) ==
  /\ req[t][Me].st = "pause"
  /\ req' = [req EXCEPT ![t][Me] = Fresh(stored)]
  /\ UNCHANGED <<telegram, owner, fate, spender, missed, stale, stored, tab, refr,
                 sign, relaunches>>

(* The server accepted the access token (when it came, it had not expired yet). *)
Answered(t, r) ==
  /\ req[t][r].st = "sent" /\ req[t][r].sent # 0
  /\ req' = [req EXCEPT ![t][r] = Idle]
  /\ tab' = IF Starting(t, {r}) THEN [tab EXCEPT ![t] = Private(t, owner[req[t][r].sent])]
            ELSE tab
  /\ UNCHANGED <<telegram, owner, fate, spender, missed, stale, stored, refr, sign, relaunches>>

(* 401: the first time a stored refresh token is tried, by at most one call per tab. *)
Unauthorized(t, r) ==
  /\ req[t][r].st = "sent" /\ (req[t][r].sent = 0 \/ req[t][r].sent \in stale)
  /\ IF req[t][r].retried \/ stored = 0
     THEN Refusal(t, {r}, stored) /\ UNCHANGED refr
     ELSE /\ req' = [req EXCEPT ![t][r].st = "waiting", ![t][r].retried = TRUE]
          /\ refr' = IF refr[t].st = "none"
                     THEN [refr EXCEPT ![t] = [st |-> "asked", tok |-> stored, got |-> 0]]
                     ELSE refr
          /\ UNCHANGED <<stored, tab>>
  /\ UNCHANGED <<telegram, owner, fate, spender, missed, stale, sign, relaunches>>

(* 403 with a CSRF reason: an old cookie session got in the way. *)
CsrfFailure(t, r) ==
  /\ req[t][r].st = "sent"
  /\ SessionExpired(t, {r})
  /\ UNCHANGED <<telegram, owner, fate, spender, missed, stale, refr, sign>>

(* The call itself fails on the way. *)
CallFails(t, r) ==
  /\ req[t][r].st = "sent"
  /\ Hiccup(t, {r})
  /\ UNCHANGED <<telegram, owner, fate, spender, missed, stale, refr, sign,
                 relaunches>>

(* Mutant: only the access token of the answer is used, the new refresh token is not kept. *)
RefreshArrivesUnstored(t) ==
  /\ refr[t].st = "granted"
  /\ req' = [req EXCEPT ![t] = [r \in Reqs[t] |->
               IF r \in Waiting(t) THEN [@[r] EXCEPT !.st = "sent", !.sent = refr[t].got]
               ELSE @[r]]]
  /\ refr' = [refr EXCEPT ![t] = NoRefresh]
  /\ UNCHANGED <<telegram, owner, fate, spender, missed, stale, stored, tab, sign,
                 relaunches>>

(* The refresh was granted: the new pair is stored and every waiting call goes again. *)
RefreshArrives(t) ==
  /\ refr[t].st = "granted"
  /\ stored' = refr[t].got
  /\ req' = [req EXCEPT ![t] = [r \in Reqs[t] |->
               IF r \in Waiting(t) THEN [@[r] EXCEPT !.st = "sent", !.sent = refr[t].got]
               ELSE @[r]]]
  /\ refr' = [refr EXCEPT ![t] = NoRefresh]
  /\ UNCHANGED <<telegram, owner, fate, spender, missed, stale, tab, sign,
                 relaunches>>

(* The refresh token itself was refused: signed out. *)
RefreshRefused(t) ==
  /\ refr[t].st = "refused"
  /\ SessionExpired(t, Waiting(t))
  /\ refr' = [refr EXCEPT ![t] = NoRefresh]
  /\ UNCHANGED <<telegram, owner, fate, spender, missed, stale, sign>>

(* The refresh call, or its answer, was lost: the calls fail, the stored pair is kept. *)
RefreshLost(t) ==
  /\ refr[t].st # "none"
  /\ missed' = IF refr[t].st = "granted" THEN missed \cup {refr[t].tok} ELSE missed
  /\ Hiccup(t, Waiting(t))
  /\ refr' = [refr EXCEPT ![t] = NoRefresh]
  /\ UNCHANGED <<telegram, owner, fate, spender, stale, sign, relaunches>>

(* The sign-in form (login, register): startClean, then a call that carries no token. *)
SignIn(t, a) ==
  /\ ~telegram
  /\ tab[t].phase = "ready" /\ tab[t].path = "auth" /\ sign[t].st = "none"
  /\ stored' = 0
  /\ sign' = [sign EXCEPT ![t] = [st |-> "sent", acct |-> a]]
  /\ UNCHANGED <<telegram, owner, fate, spender, missed, stale, tab, req, refr, relaunches>>

(* TelegramGate's retry button: the same call again. *)
TelegramRetry(t, a) ==
  /\ telegram
  /\ tab[t].phase = "ready" /\ tab[t].me = NoOne /\ sign[t].st = "none"
  /\ stored' = 0
  /\ tab' = [tab EXCEPT ![t].phase = "loading"]
  /\ sign' = [sign EXCEPT ![t] = [st |-> "sent", acct |-> a]]
  /\ UNCHANGED <<telegram, owner, fate, spender, missed, stale, req, refr,
                 relaunches>>

NextIssue == CHOOSE i \in Issues : owner[i] = NoOne

(* The server issues a pair and the answer arrives; the relaunch flag of Telegram goes. *)
SignInArrives(t) ==
  /\ sign[t].st = "sent" /\ Issued # Issues
  /\ owner' = [owner EXCEPT ![NextIssue] = sign[t].acct]
  /\ stored' = NextIssue
  /\ tab' = [tab EXCEPT ![t] = [Private(t, sign[t].acct) EXCEPT
               !.path = "site", !.flag = @ /\ ~telegram]]
  /\ sign' = [sign EXCEPT ![t] = NoSignIn]
  /\ relaunches' = [relaunches EXCEPT ![t] = 0]
  /\ UNCHANGED <<telegram, fate, spender, missed, stale, req, refr>>

(* A wrong password, a refused initData, or no answer. *)
SignInFails(t) ==
  /\ sign[t].st = "sent"
  /\ sign' = [sign EXCEPT ![t] = NoSignIn]
  /\ IF telegram
     THEN stored' = 0 /\ tab' = [tab EXCEPT ![t] = Private(t, NoOne)]
     ELSE UNCHANGED <<stored, tab>>
  /\ UNCHANGED <<telegram, owner, fate, spender, missed, stale, req, refr,
                 relaunches>>

(* The sign-out button (Telegram has none): forget everything here, then tell the server to
   revoke the refresh token.  That call takes effect or is lost; when it comes after a refresh
   that was under way it finds the token spent, as if it were lost. *)
Logout(t) ==
  /\ ~telegram
  /\ tab[t].phase = "ready" /\ tab[t].me # NoOne
  /\ stored' = 0
  /\ tab' = [tab EXCEPT ![t] = Private(t, NoOne)]
  /\ fate' \in {fate, [i \in Issues |-> IF i = stored /\ fate[i] = "live" THEN "revoked" ELSE fate[i]]}
  /\ UNCHANGED <<telegram, owner, spender, missed, stale, req, refr, sign, relaunches>>

(* A signed-in visitor goes from a sign-in page into the site. *)
Enter(t) ==
  /\ tab[t].phase = "ready" /\ tab[t].path = "auth" /\ tab[t].me # NoOne
  /\ tab' = [tab EXCEPT ![t].path = "site"]
  /\ UNCHANGED <<telegram, owner, fate, spender, missed, stale, stored, req, refr, sign, relaunches>>

(***************************************************************************)
(* The server and time.                                                    *)
(***************************************************************************)

(* A refresh token works once: it is spent and a new pair of the same account issued.  A token that
   still works is refused, too, when the account is disabled or too many calls came. *)
ServerRefreshes(t) ==
  /\ refr[t].st = "asked"
  /\ \/ /\ fate[refr[t].tok] = "live" /\ Issued # Issues
        /\ fate' = [fate EXCEPT ![refr[t].tok] = "spent"]
        /\ spender' = [spender EXCEPT ![refr[t].tok] = t]
        /\ owner' = [owner EXCEPT ![NextIssue] = owner[refr[t].tok]]
        /\ refr' = [refr EXCEPT ![t].st = "granted", ![t].got = NextIssue]
     \/ /\ refr' = [refr EXCEPT ![t].st = "refused"]
        /\ UNCHANGED <<fate, spender, owner>>
  /\ UNCHANGED <<telegram, missed, stale, stored, tab, req, sign, relaunches>>

(* Time: an access token expires (one that nobody holds any more makes no difference). *)
Expire(i) ==
  /\ i \in Issued \ stale
  /\ i = stored \/ \E t \in Tabs : \E r \in Reqs[t] : req[t][r].sent = i
  /\ stale' = stale \cup {i}
  /\ UNCHANGED <<telegram, owner, fate, spender, missed, stored, tab, req, refr, sign, relaunches>>

Next ==
  \/ \E t \in Tabs :
       \/ Load(t) \/ Reload(t) \/ TryAgain(t) \/ Logout(t) \/ Enter(t)
       \/ RefreshArrives(t) \/ RefreshRefused(t) \/ RefreshLost(t) \/ ServerRefreshes(t)
       \/ SignInArrives(t) \/ SignInFails(t)
       \/ \E a \in Accounts : SignIn(t, a) \/ TelegramRetry(t, a)
       \/ \E r \in Reqs[t] : \/ Send(t, r) \/ Answered(t, r) \/ Unauthorized(t, r)
                          \/ CsrfFailure(t, r) \/ CallFails(t, r)
  \/ \E i \in Issues : Expire(i)

(* A navigation is carried out, every call gets an answer or fails (axios reports a broken
   connection), timers fire.  Nothing a visitor does is fair, and time need not pass. *)
Fairness ==
  \A t \in Tabs :
    /\ WF_vars(Load(t)) /\ WF_vars(TryAgain(t))
    /\ WF_vars(SignInArrives(t) \/ SignInFails(t))
    /\ WF_vars(RefreshArrives(t) \/ RefreshRefused(t) \/ RefreshLost(t) \/ ServerRefreshes(t))
    /\ \A r \in Reqs[t] :
         WF_vars(Answered(t, r) \/ Unauthorized(t, r) \/ CsrfFailure(t, r) \/ CallFails(t, r))

Spec == Init /\ [][Next]_vars
FairSpec == Spec /\ Fairness

(***************************************************************************)
(* Properties.                                                             *)
(***************************************************************************)

(* A tab never sends the same refresh token twice: a refused refresh token was signed out or
   expired, was not spent by this tab, or its answer was lost on the way.  Several calls that
   meet the 401 together, or one after the other, do not sign the visitor out. *)
SpentOnce ==
  \A t \in Tabs : refr[t].st = "refused" =>
    LET i == refr[t].tok
    IN fate[i] \in {"revoked", "expired"} \/ spender[i] # t \/ i \in missed

(* A Telegram tab starts over at most once until a sign-in works: a session that the server
   keeps refusing cannot reload the Mini App for ever. *)
RelaunchOnce == \A t \in Tabs : relaunches[t] <= 1

(* Every call of a page ends, however 401s, the shared refresh, sign-outs in other tabs and
   navigations interleave; the promise that never resolves lives in a document that is
   being replaced. *)
CallsEnd == \A t \in Tabs : \A r \in Reqs[t] \ {Me} :
  (req[t][r].st # "idle") ~> (req[t][r].st = "idle")

(* The start of a page ends with somebody signed in, the sign-in form, or Telegram's error:
   never with the spinner. *)
StartEnds == \A t \in Tabs : (tab[t].phase \in {"loading", "leaving"}) ~> (tab[t].phase = "ready")

(* Nothing hangs: neither a call nor the start of a page. *)
NothingHangs == CallsEnd /\ StartEnds

(* The tokens come into an empty store only with a sign-in: signing out forgets the account
   at once and for good. *)
SignedOutStaysOut ==
  [][stored = 0 /\ stored' # 0 => \E t \in Tabs : sign[t].st = "sent" /\ sign'[t].st = "none"]_vars
=============================================================================
