----------------------------- MODULE TabProofs -----------------------------
(***************************************************************************)
(* What a browser's tabs keep, for any number of them: the session they    *)
(* share (module Session) and the live feeds of one tab (module LiveFeed). *)
(***************************************************************************)
EXTENDS Session, LiveFeed, TLAPS

(***************************************************************************)
(* 1. The session: SpentOnce and RelaunchOnce for any number of tabs,      *)
(* calls, accounts and token pairs.                                        *)
(*                                                                         *)
(* A tab asks for a refresh with whatever pair all tabs share, so what     *)
(* keeps it from sending a token twice is not visible in the tab alone: a  *)
(* pair that a tab has spent must be out of the store by the time that tab *)
(* can ask again (Spending), which needs that the pair on its way to a tab *)
(* has not been seen by anybody (OnTheWay).                                *)
(***************************************************************************)
TabType == [path : {"site", "auth"}, phase : {"closed", "loading", "ready", "leaving"},
            me : Accounts \cup {NoOne}, tries : 0..MeTries, flag : BOOLEAN]
RefrType == [st : {"none", "asked", "granted", "refused"}, tok : 0..MaxIssue, got : 0..MaxIssue]

Pairs ==
  /\ owner \in [Issues -> Accounts \cup {NoOne}]
  /\ spender \in [Issues -> Tabs \cup {NoOne}]
  /\ refr \in [Tabs -> RefrType]
  /\ stored \in {0} \cup Issued
  /\ \A t \in Tabs : refr[t].st # "none" => refr[t].tok \in Issued
  /\ \A i \in Issues \ Issued : spender[i] = NoOne

(* The pair on its way to a tab is known to nobody else. *)
OnTheWay ==
  \A t \in Tabs : refr[t].st = "granted" =>
    /\ refr[t].got \in Issued /\ refr[t].got # stored /\ spender[refr[t].got] = NoOne
    /\ \A u \in Tabs : /\ refr[u].st # "none" => refr[u].tok # refr[t].got
                       /\ refr[u].st = "granted" /\ u # t => refr[u].got # refr[t].got

(* A pair that tab t spent, and whose answer was not lost, is what t waits for, or is gone. *)
Spending ==
  \A t \in Tabs, i \in Issues : spender[i] = t /\ i \notin missed =>
    \/ refr[t].st = "granted" /\ refr[t].tok = i
    \/ stored # i /\ (refr[t].st \in {"asked", "refused"} => refr[t].tok # i)

PairInv == Pairs /\ OnTheWay /\ Spending

SignInv ==
  /\ sign \in [Tabs -> [st : {"none", "sent"}, acct : Accounts \cup {NoOne}]]
  /\ \A t \in Tabs : sign[t].st = "sent" => sign[t].acct \in Accounts

(* A relaunch leaves its mark in sessionStorage until a sign-in works. *)
FlagInv ==
  /\ tab \in [Tabs -> TabType]
  /\ relaunches \in [Tabs -> Nat]
  /\ \A t \in Tabs : relaunches[t] = 0 \/ (relaunches[t] = 1 /\ tab[t].flag)
-----------------------------------------------------------------------------
(* The number of a new pair is one that was not issued before. *)
LEMMA NextIssueNew ==
  ASSUME Issued # Issues
  PROVE  NextIssue \in Issues /\ owner[NextIssue] = NoOne
<1>1. \E i \in Issues : owner[i] = NoOne
  BY DEF Issued
<1> QED BY <1>1 DEF NextIssue

LEMMA PairsInit == SessionAssumption /\ Init => PairInv
<1> SUFFICES ASSUME SessionAssumption, Init PROVE PairInv
  OBVIOUS
<1>1. refr = [t \in Tabs |-> NoRefresh] /\ spender = [i \in Issues |-> NoOne] /\ missed = {}
  BY DEF Init
<1>2. PICK a \in Accounts : owner = [i \in Issues |-> IF i <= stored THEN a ELSE NoOne]
  BY DEF Init
<1>3. stored \in {0} \cup Issued
  BY <1>2 DEF Init, Issued, Issues, SessionAssumption
<1>4. NoRefresh \in RefrType /\ NoRefresh.st = "none"
  BY DEF NoRefresh, RefrType, SessionAssumption
<1>5. Pairs
  BY <1>1, <1>2, <1>3, <1>4 DEF Pairs
<1>6. OnTheWay /\ Spending
  BY <1>1, <1>4 DEF OnTheWay, Spending, SessionAssumption
<1> QED BY <1>5, <1>6 DEF PairInv

(* Signing out, or anything that leaves the pairs alone. *)
LEMMA PairsKept ==
  ASSUME PairInv, UNCHANGED <<owner, spender, missed, refr>>, stored' \in {stored, 0}
  PROVE  PairInv'
BY DEF PairInv, Pairs, OnTheWay, Spending, Issued, Issues

(* A tab whose refresh ended otherwise than with a new pair. *)
LEMMA RefreshDropped ==
  ASSUME SessionAssumption, PairInv, NEW t \in Tabs, UNCHANGED <<owner, spender>>, stored' \in {stored, 0},
         refr' = [refr EXCEPT ![t] = NoRefresh],
         missed' = IF refr[t].st = "granted" THEN missed \cup {refr[t].tok} ELSE missed
  PROVE  PairInv'
<1>1. NoRefresh \in RefrType /\ NoRefresh.st = "none"
  BY DEF NoRefresh, RefrType, SessionAssumption
<1>2. refr' \in [Tabs -> RefrType] /\ refr'[t] = NoRefresh /\ \A u \in Tabs \ {t} : refr'[u] = refr[u]
  BY <1>1 DEF PairInv, Pairs
<1>3. Issued' = Issued
  BY DEF Issued
<1>4. Pairs'
  BY <1>1, <1>2, <1>3 DEF PairInv, Pairs
<1>5. OnTheWay'
  BY <1>1, <1>2, <1>3 DEF PairInv, Pairs, OnTheWay, Issued, Issues
<1>6. Spending'
  <2> SUFFICES ASSUME NEW u \in Tabs, NEW i \in Issues, spender[i] = u, i \notin missed'
               PROVE  \/ refr'[u].st = "granted" /\ refr'[u].tok = i
                      \/ stored' # i /\ (refr'[u].st \in {"asked", "refused"} => refr'[u].tok # i)
    BY DEF Spending
  <2>1. i \notin missed /\ i # 0
    BY DEF Issues
  <2>2. CASE u # t
    BY <1>2, <2>1, <2>2 DEF PairInv, Spending
  <2>3. CASE u = t
    <3>1. ~(refr[t].st = "granted" /\ refr[t].tok = i)
      OBVIOUS
    <3>2. stored # i
      BY <2>1, <2>3, <3>1 DEF PairInv, Spending
    <3> QED BY <1>1, <1>2, <2>1, <2>3, <3>2
  <2> QED BY <2>2, <2>3
<1> QED BY <1>4, <1>5, <1>6 DEF PairInv

(* Its new pair is stored. *)
LEMMA NewPairStored ==
  ASSUME SessionAssumption, PairInv, NEW t \in Tabs, RefreshArrives(t)
  PROVE  PairInv'
<1>1. NoRefresh \in RefrType /\ NoRefresh.st = "none"
  BY DEF NoRefresh, RefrType, SessionAssumption
<1>2. /\ refr[t].st = "granted" /\ stored' = refr[t].got /\ UNCHANGED <<owner, spender, missed>>
      /\ refr' = [refr EXCEPT ![t] = NoRefresh]
  BY DEF RefreshArrives
<1>3. refr' \in [Tabs -> RefrType] /\ refr'[t] = NoRefresh /\ \A u \in Tabs \ {t} : refr'[u] = refr[u]
  BY <1>1, <1>2 DEF PairInv, Pairs
<1>4. Issued' = Issued
  BY <1>2 DEF Issued
<1>5. stored' \in Issued /\ spender[stored'] = NoOne /\ \A u \in Tabs \ {t} :
         /\ refr[u].st # "none" => refr[u].tok # stored'
         /\ refr[u].st = "granted" => refr[u].got # stored'
  BY <1>2 DEF PairInv, OnTheWay
<1>6. Pairs'
  BY <1>1, <1>2, <1>3, <1>4, <1>5 DEF PairInv, Pairs
<1>7. OnTheWay'
  BY <1>1, <1>2, <1>3, <1>4, <1>5 DEF PairInv, OnTheWay
<1>8. Spending'
  BY <1>1, <1>2, <1>3, <1>5 DEF PairInv, Spending, SessionAssumption
<1> QED BY <1>6, <1>7, <1>8 DEF PairInv

(* A tab asks with the stored pair. *)
LEMMA RefreshAsked ==
  ASSUME SessionAssumption, PairInv, NEW t \in Tabs, refr[t].st = "none", stored # 0,
         refr' = [refr EXCEPT ![t] = [st |-> "asked", tok |-> stored, got |-> 0]],
         UNCHANGED <<owner, spender, missed, stored>>
  PROVE  PairInv'
<1> DEFINE asked == [st |-> "asked", tok |-> stored, got |-> 0]
<1>1. asked \in RefrType /\ asked.st = "asked" /\ asked.tok = stored /\ stored \in Issued
  BY DEF RefrType, SessionAssumption, PairInv, Pairs, Issued, Issues
<1> HIDE DEF asked
<1>2. refr' \in [Tabs -> RefrType] /\ refr'[t] = asked /\ \A u \in Tabs \ {t} : refr'[u] = refr[u]
  BY <1>1 DEF PairInv, Pairs, asked
<1>3. Issued' = Issued
  BY DEF Issued
<1>4. Pairs'
  BY <1>1, <1>2, <1>3 DEF PairInv, Pairs
<1>5. OnTheWay'
  BY <1>1, <1>2, <1>3 DEF PairInv, OnTheWay
<1>6. Spending'
  BY <1>1, <1>2 DEF PairInv, Spending
<1> QED BY <1>4, <1>5, <1>6 DEF PairInv

(* A sign-in's pair is stored. *)
LEMMA SignedIn ==
  ASSUME SessionAssumption, PairInv, NEW t \in Tabs, sign[t].acct \in Accounts, SignInArrives(t)
  PROVE  PairInv'
<1>1. NextIssue \in Issues /\ owner[NextIssue] = NoOne
  BY NextIssueNew DEF SignInArrives
<1>2. /\ owner' = [owner EXCEPT ![NextIssue] = sign[t].acct] /\ stored' = NextIssue
      /\ UNCHANGED <<spender, missed, refr>>
  BY DEF SignInArrives
<1>3. Issued' = Issued \cup {NextIssue} /\ NextIssue \notin Issued
  BY <1>1, <1>2 DEF PairInv, Pairs, Issued, SessionAssumption
<1> HIDE DEF NextIssue
<1>4. Pairs'
  BY <1>1, <1>2, <1>3 DEF PairInv, Pairs
<1>5. OnTheWay'
  BY <1>1, <1>2, <1>3 DEF PairInv, OnTheWay
<1>6. spender[NextIssue] = NoOne
  BY <1>1, <1>3 DEF PairInv, Pairs
<1>7. Spending'
  BY <1>1, <1>2, <1>6 DEF PairInv, Spending, SessionAssumption
<1> QED BY <1>4, <1>5, <1>7 DEF PairInv

(* The server spends the token and issues a new pair, or refuses. *)
LEMMA ServerAnswers ==
  ASSUME SessionAssumption, PairInv, NEW t \in Tabs, ServerRefreshes(t)
  PROVE  PairInv'
<1> DEFINE i == refr[t].tok
<1>0. refr[t].st = "asked" /\ i \in Issued /\ i \in Issues /\ refr[t] \in RefrType /\ UNCHANGED <<missed, stored>>
  BY DEF ServerRefreshes, PairInv, Pairs, Issued
<1>1. CASE /\ fate[i] = "live" /\ Issued # Issues
           /\ fate' = [fate EXCEPT ![i] = "spent"]
           /\ spender' = [spender EXCEPT ![i] = t]
           /\ owner' = [owner EXCEPT ![NextIssue] = owner[i]]
           /\ refr' = [refr EXCEPT ![t].st = "granted", ![t].got = NextIssue]
  <2> DEFINE given == [refr[t] EXCEPT !.st = "granted", !.got = NextIssue]
  <2>1. NextIssue \in Issues /\ owner[NextIssue] = NoOne
    BY <1>1, NextIssueNew
  <2>2. /\ spender' = [spender EXCEPT ![i] = t]
        /\ owner' = [owner EXCEPT ![NextIssue] = owner[i]]
        /\ refr' = [refr EXCEPT ![t] = given]
    BY <1>1
  <2>a. NextIssue \in 0..MaxIssue
    BY <2>1 DEF Issues, SessionAssumption
  <2>3. given \in RefrType /\ given.st = "granted" /\ given.tok = i /\ given.got = NextIssue
    BY <1>0, <2>a DEF RefrType
  <2>4. owner[i] \in Accounts /\ owner[i] # NoOne
    BY <1>0 DEF PairInv, Pairs, Issued
  <2> HIDE DEF NextIssue, given, i
  <2>5. Issued' = Issued \cup {NextIssue} /\ NextIssue \notin Issued
    BY <1>0, <2>1, <2>2, <2>4 DEF PairInv, Pairs, Issued
  <2>6. refr' \in [Tabs -> RefrType] /\ refr'[t] = given /\ \A u \in Tabs \ {t} : refr'[u] = refr[u]
    BY <2>2, <2>3 DEF PairInv, Pairs
  <2>7. /\ spender' \in [Issues -> Tabs \cup {NoOne}] /\ spender'[i] = t
        /\ \A x \in Issues \ {i} : spender'[x] = spender[x]
    BY <1>0, <2>2 DEF PairInv, Pairs
  <2>8. owner' \in [Issues -> Accounts \cup {NoOne}]
    BY <2>1, <2>2, <2>4 DEF PairInv, Pairs
  <2>9. Pairs'
    BY <1>0, <2>3, <2>5, <2>6, <2>7, <2>8 DEF PairInv, Pairs
  <2>10. spender[NextIssue] = NoOne /\ NextIssue # i /\ stored # NextIssue
    BY <1>0, <2>1, <2>5 DEF PairInv, Pairs, Issues
  <2>11. \A u \in Tabs : refr[u].st # "none" => refr[u].tok # NextIssue
    BY <2>5 DEF PairInv, Pairs
  <2>12. \A u \in Tabs : refr[u].st = "granted" => refr[u].got # NextIssue /\ refr[u].got # i
    BY <1>0, <2>5 DEF PairInv, OnTheWay, i
  <2>13. refr[t].st = "asked" /\ refr[t].tok = i
    BY <1>0 DEF i
  <2>14. OnTheWay'
    <3> SUFFICES ASSUME NEW u \in Tabs, refr'[u].st = "granted"
                 PROVE  /\ refr'[u].got \in Issued' /\ refr'[u].got # stored' /\ spender'[refr'[u].got] = NoOne
                        /\ \A w \in Tabs : /\ refr'[w].st # "none" => refr'[w].tok # refr'[u].got
                                           /\ refr'[w].st = "granted" /\ w # u => refr'[w].got # refr'[u].got
      BY DEF OnTheWay
    <3>1. CASE u = t
      BY <1>0, <2>1, <2>3, <2>5, <2>6, <2>7, <2>10, <2>11, <2>12, <3>1
    <3>2. CASE u # t
      <4>1. /\ refr'[u] = refr[u] /\ refr[u].got \in Issued /\ refr[u].got # stored
            /\ spender[refr[u].got] = NoOne /\ refr[u].got # i
            /\ \A w \in Tabs : /\ refr[w].st # "none" => refr[w].tok # refr[u].got
                               /\ refr[w].st = "granted" /\ w # u => refr[w].got # refr[u].got
        BY <2>6, <2>12, <3>2 DEF PairInv, OnTheWay
      <4>2. refr[u].got # NextIssue /\ refr[u].got \in Issues
        BY <2>5, <4>1 DEF Issued
      <4> QED BY <1>0, <2>3, <2>5, <2>6, <2>7, <2>13, <4>1, <4>2
    <3> QED BY <3>1, <3>2
  <2>15. Spending'
    BY <1>0, <2>3, <2>6, <2>7, <2>13 DEF PairInv, Spending
  <2> QED BY <2>9, <2>14, <2>15 DEF PairInv
<1>2. CASE refr' = [refr EXCEPT ![t].st = "refused"] /\ UNCHANGED <<fate, spender, owner>>
  <2> DEFINE no == [refr[t] EXCEPT !.st = "refused"]
  <2>1. refr' = [refr EXCEPT ![t] = no] /\ UNCHANGED <<spender, owner>>
    BY <1>2
  <2>2. no \in RefrType /\ no.st = "refused" /\ no.tok = i
    BY <1>0 DEF RefrType
  <2> HIDE DEF no
  <2>3. refr' \in [Tabs -> RefrType] /\ refr'[t] = no /\ \A u \in Tabs \ {t} : refr'[u] = refr[u]
    BY <2>1, <2>2 DEF PairInv, Pairs
  <2>4. Issued' = Issued
    BY <2>1 DEF Issued
  <2>5. Pairs'
    BY <1>0, <2>1, <2>2, <2>3, <2>4 DEF PairInv, Pairs
  <2>6. OnTheWay'
    BY <1>0, <2>1, <2>2, <2>3, <2>4 DEF PairInv, OnTheWay
  <2>7. Spending'
    BY <1>0, <2>1, <2>2, <2>3 DEF PairInv, Spending
  <2> QED BY <2>5, <2>6, <2>7 DEF PairInv
<1> QED BY <1>1, <1>2 DEF ServerRefreshes
-----------------------------------------------------------------------------
(* What a call or a page does when it ends keeps the store or empties it. *)
LEMMA StoreKeptOrEmptied ==
  ASSUME NEW t \in Tabs, NEW R
  PROVE  /\ Hiccup(t, R) => stored' = stored
         /\ Refusal(t, R, stored) \/ SessionExpired(t, R) => stored' \in {stored, 0}
BY DEF Hiccup, Refusal, SessionExpired

LEMMA PairsStep ==
  ASSUME SessionAssumption, PairInv, SignInv, Next
  PROVE  PairInv'
<1>1. ASSUME NEW t \in Tabs,
             Reload(t) \/ TryAgain(t) \/ Logout(t) \/ Enter(t) \/ SignInFails(t)
             \/ \E a \in Accounts : SignIn(t, a) \/ TelegramRetry(t, a)
      PROVE  PairInv'
  <2>1. UNCHANGED <<owner, spender, missed, refr>> /\ stored' \in {stored, 0}
    BY <1>1 DEF Reload, TryAgain, Logout, Enter, SignInFails, SignIn, TelegramRetry
  <2> QED BY <2>1, PairsKept
<1>2. ASSUME NEW t \in Tabs, NEW r \in Reqs[t],
             Send(t, r) \/ Answered(t, r) \/ CsrfFailure(t, r) \/ CallFails(t, r)
      PROVE  PairInv'
  <2>1. UNCHANGED <<owner, spender, missed, refr>> /\ stored' \in {stored, 0}
    BY <1>2, StoreKeptOrEmptied DEF Send, Answered, CsrfFailure, CallFails
  <2> QED BY <2>1, PairsKept
<1>3. ASSUME NEW t \in Tabs, NEW r \in Reqs[t], Unauthorized(t, r) PROVE PairInv'
  <2>1. CASE req[t][r].retried \/ stored = 0
    <3>1. Refusal(t, {r}, stored) /\ UNCHANGED <<owner, spender, missed, refr>>
      BY <1>3, <2>1 DEF Unauthorized
    <3> QED BY <3>1, StoreKeptOrEmptied, PairsKept
  <2>2. CASE ~(req[t][r].retried \/ stored = 0) /\ refr[t].st = "none"
    <3>1. /\ refr' = [refr EXCEPT ![t] = [st |-> "asked", tok |-> stored, got |-> 0]]
          /\ UNCHANGED <<owner, spender, missed, stored>> /\ stored # 0
      BY <1>3, <2>2 DEF Unauthorized
    <3> QED BY <2>2, <3>1, RefreshAsked
  <2>3. CASE ~(req[t][r].retried \/ stored = 0) /\ refr[t].st # "none"
    <3>1. UNCHANGED <<owner, spender, missed, refr, stored>>
      BY <1>3, <2>3 DEF Unauthorized
    <3> QED BY <3>1, PairsKept
  <2> QED BY <2>1, <2>2, <2>3
<1>4. ASSUME NEW t \in Tabs, Load(t) PROVE PairInv'
  <2>1. stored' \in {stored, 0}
    BY <1>4 DEF Load, Pruned
  <2> QED BY <1>4, <2>1, RefreshDropped DEF Load
<1>5. ASSUME NEW t \in Tabs, RefreshRefused(t) PROVE PairInv'
  <2>1. stored' \in {stored, 0} /\ refr[t].st = "refused"
    BY <1>5, StoreKeptOrEmptied DEF RefreshRefused
  <2> QED BY <1>5, <2>1, RefreshDropped DEF RefreshRefused
<1>6. ASSUME NEW t \in Tabs, RefreshLost(t) PROVE PairInv'
  <2>1. stored' \in {stored, 0}
    BY <1>6, StoreKeptOrEmptied DEF RefreshLost
  <2> QED BY <1>6, <2>1, RefreshDropped DEF RefreshLost
<1>7. ASSUME NEW t \in Tabs, SignInArrives(t) PROVE PairInv'
  <2>1. sign[t].acct \in Accounts
    BY <1>7 DEF SignInArrives, SignInv
  <2> QED BY <1>7, <2>1, SignedIn
<1>8. ASSUME NEW i \in Issues, Expire(i) PROVE PairInv'
  <2>1. UNCHANGED <<owner, spender, missed, refr, stored>>
    BY <1>8 DEF Expire
  <2> QED BY <2>1, PairsKept
<1> QED BY <1>1, <1>2, <1>3, <1>4, <1>5, <1>6, <1>7, <1>8, NewPairStored, ServerAnswers DEF Next

LEMMA SignStep ==
  ASSUME SignInv, [Next]_vars
  PROVE  SignInv'
<1>1. ASSUME NEW t \in Tabs, NEW a \in Accounts, sign' = [sign EXCEPT ![t] = [st |-> "sent", acct |-> a]]
      PROVE  SignInv'
  BY <1>1 DEF SignInv
<1>2. ASSUME NEW t \in Tabs, sign' = [sign EXCEPT ![t] = NoSignIn] PROVE SignInv'
  BY <1>2 DEF SignInv, NoSignIn
<1>3. ASSUME UNCHANGED sign PROVE SignInv'
  BY <1>3 DEF SignInv
<1>4. CASE Next
  <2>1. ASSUME NEW t \in Tabs, Load(t) \/ SignInArrives(t) \/ SignInFails(t)
        PROVE  SignInv'
    BY <1>1, <1>2, <2>1 DEF Load, SignInArrives, SignInFails
  <2>2. ASSUME NEW t \in Tabs, NEW a \in Accounts, SignIn(t, a) \/ TelegramRetry(t, a) PROVE SignInv'
    BY <1>1, <2>2 DEF SignIn, TelegramRetry
  <2>3. ASSUME NEW t \in Tabs,
               \/ Reload(t) \/ TryAgain(t) \/ Logout(t) \/ Enter(t) \/ RefreshArrives(t)
               \/ RefreshRefused(t) \/ RefreshLost(t) \/ ServerRefreshes(t)
        PROVE  UNCHANGED sign
    BY <2>3 DEF Reload, TryAgain, Logout, Enter, RefreshArrives, RefreshRefused, RefreshLost, ServerRefreshes
  <2>4. ASSUME NEW t \in Tabs, NEW r \in Reqs[t],
               Send(t, r) \/ Answered(t, r) \/ Unauthorized(t, r) \/ CsrfFailure(t, r) \/ CallFails(t, r)
        PROVE  UNCHANGED sign
    BY <2>4 DEF Send, Answered, Unauthorized, CsrfFailure, CallFails
  <2>5. ASSUME NEW i \in Issues, Expire(i) PROVE UNCHANGED sign
    BY <2>5 DEF Expire
  <2> QED BY <1>3, <1>4, <2>1, <2>2, <2>3, <2>4, <2>5 DEF Next
<1> QED BY <1>3, <1>4 DEF vars
-----------------------------------------------------------------------------
(* Inside one call or one start of a page: records stay records. *)
LEMMA PrivateTyped ==
  ASSUME SessionAssumption, FlagInv, NEW t \in Tabs, NEW a \in Accounts \cup {NoOne}
  PROVE  Private(t, a) \in TabType /\ (Private(t, a).flag <=> tab[t].flag)
<1>1. tab[t] \in TabType
  BY DEF FlagInv
<1>2. 0 \in 0..MeTries
  BY DEF SessionAssumption
<1>3. Private(t, a) \in TabType
  BY <1>1, <1>2 DEF Private, TabType
<1>4. Private(t, a).flag = tab[t].flag
  BY <1>1 DEF Private, TabType
<1> QED BY <1>3, <1>4

(* A change of one tab that keeps the mark. *)
LEMMA FlagKept ==
  ASSUME FlagInv, NEW t \in Tabs, NEW x \in TabType, x.flag <=> tab[t].flag,
         tab' = [tab EXCEPT ![t] = x], UNCHANGED relaunches
  PROVE  FlagInv'
<1>1. tab' \in [Tabs -> TabType] /\ tab'[t] = x /\ \A u \in Tabs \ {t} : tab'[u] = tab[u]
  BY DEF FlagInv
<1> QED BY <1>1 DEF FlagInv

LEMMA HiccupFlag ==
  ASSUME SessionAssumption, FlagInv, NEW t \in Tabs, NEW R, Hiccup(t, R), UNCHANGED relaunches
  PROVE  FlagInv'
<1>0. tab[t] \in TabType /\ NoOne \in Accounts \cup {NoOne}
  BY DEF FlagInv
<1>1. CASE Starting(t, R) /\ tab[t].tries < MeTries
  <2> DEFINE x == [tab[t] EXCEPT !.tries = @ + 1]
  <2>1. x \in TabType
    BY <1>0, <1>1 DEF TabType, SessionAssumption
  <2>2. x.flag = tab[t].flag
    BY <1>0 DEF TabType
  <2>3. tab' = [tab EXCEPT ![t] = x]
    BY <1>1 DEF Hiccup
  <2> HIDE DEF x
  <2> QED BY <2>1, <2>2, <2>3, FlagKept
<1>2. CASE ~(Starting(t, R) /\ tab[t].tries < MeTries)
  <2>1. tab' = [tab EXCEPT ![t] = Private(t, NoOne)] \/ tab' = tab
    BY <1>2 DEF Hiccup
  <2> QED BY <1>0, <2>1, PrivateTyped, FlagKept DEF FlagInv
<1> QED BY <1>1, <1>2

LEMMA RefusalFlag ==
  ASSUME SessionAssumption, FlagInv, NEW t \in Tabs, NEW R, NEW kept, Refusal(t, R, kept), UNCHANGED relaunches
  PROVE  FlagInv'
<1>1. tab' = [tab EXCEPT ![t] = Private(t, NoOne)] \/ tab' = tab
  BY DEF Refusal
<1>2. NoOne \in Accounts \cup {NoOne}
  OBVIOUS
<1> QED BY <1>1, <1>2, PrivateTyped, FlagKept DEF FlagInv

(* The relaunch is taken only without the mark, and leaves it. *)
LEMMA ExpiredFlag ==
  ASSUME SessionAssumption, FlagInv, NEW t \in Tabs, NEW R, SessionExpired(t, R)
  PROVE  FlagInv'
<1>0. tab[t] \in TabType
  BY DEF FlagInv
<1>1. CASE telegram /\ ~tab[t].flag
  <2> DEFINE x == [tab[t] EXCEPT !.phase = "leaving", !.path = "site", !.flag = TRUE]
  <2>1. x \in TabType /\ x.flag = TRUE
    BY <1>0 DEF TabType
  <2>2. tab' = [tab EXCEPT ![t] = x] /\ relaunches' = [relaunches EXCEPT ![t] = @ + 1]
    BY <1>0, <1>1 DEF SessionExpired, TabType
  <2>3. relaunches[t] = 0
    BY <1>1 DEF FlagInv
  <2> HIDE DEF x
  <2>4. tab' \in [Tabs -> TabType] /\ tab'[t] = x /\ \A u \in Tabs \ {t} : tab'[u] = tab[u]
    BY <2>1, <2>2 DEF FlagInv
  <2>5. relaunches' \in [Tabs -> Nat] /\ relaunches'[t] = 1
        /\ \A u \in Tabs \ {t} : relaunches'[u] = relaunches[u]
    BY <2>2, <2>3 DEF FlagInv
  <2> QED BY <2>1, <2>4, <2>5 DEF FlagInv
<1>2. CASE ~telegram /\ tab[t].path = "site"
  <2> DEFINE x == [tab[t] EXCEPT !.phase = "leaving", !.path = "auth", !.flag = tab[t].flag \/ FALSE]
  <2>1. x \in TabType
    BY <1>0 DEF TabType
  <2>2. x.flag <=> tab[t].flag
    BY <1>0 DEF TabType
  <2>3. tab' = [tab EXCEPT ![t] = x] /\ UNCHANGED relaunches
    BY <1>2 DEF SessionExpired
  <2> HIDE DEF x
  <2> QED BY <2>1, <2>2, <2>3, FlagKept
<1>3. CASE ~(telegram /\ ~tab[t].flag) /\ ~(~telegram /\ tab[t].path = "site")
  <2>1. Refusal(t, R, 0) /\ UNCHANGED relaunches
    BY <1>3 DEF SessionExpired
  <2> QED BY <2>1, RefusalFlag
<1> QED BY <1>1, <1>2, <1>3

-----------------------------------------------------------------------------
ReqType == [st : {"idle", "sent", "waiting", "pause", "hung"}, sent : 0..MaxIssue, retried : BOOLEAN]
ReqInv == DOMAIN req = Tabs /\ \A t \in Tabs : req[t] \in [Reqs[t] -> ReqType]

Rest ==
  /\ telegram \in BOOLEAN
  /\ fate \in [Issues -> {"live", "spent", "revoked", "expired"}]
  /\ missed \subseteq Issues /\ stale \subseteq Issues

IInv == PairInv /\ SignInv /\ FlagInv /\ ReqInv /\ Rest

(* The calls of one tab change. *)
LEMMA ReqOfTab ==
  ASSUME ReqInv, NEW t \in Tabs, NEW f \in [Reqs[t] -> ReqType], req' = [req EXCEPT ![t] = f]
  PROVE  ReqInv'
BY DEF ReqInv

EndedCalls(t, R, as) == [r \in Reqs[t] |-> IF r \in R THEN as ELSE req[t][r]]

LEMMA EndedTyped ==
  ASSUME ReqInv, NEW t \in Tabs, NEW R, NEW as \in ReqType
  PROVE  EndedCalls(t, R, as) \in [Reqs[t] -> ReqType] /\ Ended(t, R, as) = [req EXCEPT ![t] = EndedCalls(t, R, as)]
<1>1. req[t] \in [Reqs[t] -> ReqType]
  BY DEF ReqInv
<1>2. EndedCalls(t, R, as) \in [Reqs[t] -> ReqType]
  BY <1>1 DEF EndedCalls
<1>3. Ended(t, R, as) = [req EXCEPT ![t] = EndedCalls(t, R, as)]
  BY DEF Ended, EndedCalls
<1> QED BY <1>2, <1>3

LEMMA IdleTyped ==
  ASSUME SessionAssumption
  PROVE  /\ Idle \in ReqType
         /\ [Idle EXCEPT !.st = "pause"] \in ReqType
         /\ [Idle EXCEPT !.st = "hung"] \in ReqType
         /\ \A i \in 0..MaxIssue : Fresh(i) \in ReqType
<1>1. 0 \in 0..MaxIssue
  BY DEF SessionAssumption
<1>2. Idle \in ReqType
  BY <1>1 DEF Idle, ReqType
<1>3. [Idle EXCEPT !.st = "pause"] \in ReqType
  BY <1>2 DEF ReqType
<1>4. [Idle EXCEPT !.st = "hung"] \in ReqType
  BY <1>2 DEF ReqType
<1>5. \A i \in 0..MaxIssue : Fresh(i) \in ReqType
  BY DEF Fresh, ReqType
<1> QED BY <1>2, <1>3, <1>4, <1>5

LEMMA HiccupReq ==
  ASSUME SessionAssumption, ReqInv, NEW t \in Tabs, NEW R, Hiccup(t, R)
  PROVE  ReqInv'
<1>1. CASE Starting(t, R) /\ tab[t].tries < MeTries
  <2> DEFINE f == EndedCalls(t, R \ {Me}, Idle)
             g == [f EXCEPT ![Me] = [Idle EXCEPT !.st = "pause"]]
  <2>1. f \in [Reqs[t] -> ReqType] /\ Ended(t, R \ {Me}, Idle) = [req EXCEPT ![t] = f]
    BY EndedTyped, IdleTyped
  <2>2. g \in [Reqs[t] -> ReqType]
    BY <2>1, IdleTyped
  <2>3. req' = [[req EXCEPT ![t] = f] EXCEPT ![t][Me] = [Idle EXCEPT !.st = "pause"]]
    BY <1>1, <2>1 DEF Hiccup
  <2>4. DOMAIN req = Tabs
    BY DEF ReqInv
  <2> HIDE DEF f
  <2>5. req' = [req EXCEPT ![t] = g]
    BY <2>3, <2>4
  <2> HIDE DEF g
  <2> QED BY <2>2, <2>5, ReqOfTab
<1>2. CASE ~(Starting(t, R) /\ tab[t].tries < MeTries)
  <2>1. req' = Ended(t, R, Idle)
    BY <1>2 DEF Hiccup
  <2> QED BY <2>1, EndedTyped, IdleTyped, ReqOfTab
<1> QED BY <1>1, <1>2

LEMMA ExpiredReq ==
  ASSUME SessionAssumption, ReqInv, NEW t \in Tabs, NEW R,
         SessionExpired(t, R) \/ \E kept : Refusal(t, R, kept)
  PROVE  ReqInv'
<1>1. req' = Ended(t, R, Idle) \/ req' = Ended(t, R, [Idle EXCEPT !.st = "hung"])
  BY DEF SessionExpired, Refusal
<1> QED BY <1>1, EndedTyped, IdleTyped, ReqOfTab

LEMMA ReqStep ==
  ASSUME SessionAssumption, IInv, Next
  PROVE  ReqInv'
<1>0. stored \in 0..MaxIssue /\ ReqInv
  BY DEF IInv, PairInv, Pairs, Issued, Issues, SessionAssumption
<1>1. ASSUME UNCHANGED req PROVE ReqInv'
  BY <1>0, <1>1 DEF ReqInv
<1>2. ASSUME NEW t \in Tabs, Load(t) PROVE ReqInv'
  <2> DEFINE f == [r \in Reqs[t] |-> IF r = Me /\ stored' # 0 THEN Fresh(stored') ELSE Idle]
  <2>1. stored' \in 0..MaxIssue
    BY <1>0, <1>2 DEF Load, Pruned
  <2>2. f \in [Reqs[t] -> ReqType]
    BY <2>1, IdleTyped
  <2>3. req' = [req EXCEPT ![t] = f]
    BY <1>2 DEF Load
  <2> HIDE DEF f
  <2> QED BY <1>0, <2>2, <2>3, ReqOfTab
<1>3. ASSUME NEW t \in Tabs, NEW r \in Reqs[t], NEW x \in ReqType, req' = [req EXCEPT ![t][r] = x]
      PROVE  ReqInv'
  <2>1. [req[t] EXCEPT ![r] = x] \in [Reqs[t] -> ReqType]
    BY <1>0 DEF ReqInv
  <2>2. req' = [req EXCEPT ![t] = [req[t] EXCEPT ![r] = x]]
    BY <1>3
  <2> QED BY <1>0, <2>1, <2>2, ReqOfTab
<1>4. ASSUME NEW t \in Tabs, TryAgain(t) PROVE ReqInv'
  <2>1. Me \in Reqs[t]
    BY DEF SessionAssumption
  <2> QED BY <1>0, <1>3, <1>4, <2>1, IdleTyped DEF TryAgain
<1>5. ASSUME NEW t \in Tabs, NEW r \in Reqs[t], Send(t, r) \/ Answered(t, r) PROVE ReqInv'
  BY <1>0, <1>3, <1>5, IdleTyped DEF Send, Answered
<1>6. ASSUME NEW t \in Tabs, NEW r \in Reqs[t], Unauthorized(t, r) PROVE ReqInv'
  <2>1. CASE req[t][r].retried \/ stored = 0
    BY <1>0, <1>6, <2>1, ExpiredReq DEF Unauthorized
  <2>2. CASE ~(req[t][r].retried \/ stored = 0)
    <3> DEFINE x == [req[t][r] EXCEPT !.st = "waiting", !.retried = TRUE]
    <3>0. req[t][r] \in ReqType
      BY <1>0 DEF ReqInv
    <3>1. x \in ReqType
      BY <3>0 DEF ReqType
    <3>2. req' = [req EXCEPT ![t][r].st = "waiting", ![t][r].retried = TRUE]
      BY <1>6, <2>2 DEF Unauthorized
    <3>3. DOMAIN req = Tabs /\ DOMAIN req[t] = Reqs[t]
      BY <1>0 DEF ReqInv
    <3>4. req' = [req EXCEPT ![t][r] = x]
      BY <3>2, <3>3
    <3> HIDE DEF x
    <3> QED BY <1>3, <3>1, <3>4
  <2> QED BY <2>1, <2>2
<1>7. ASSUME NEW t \in Tabs, NEW r \in Reqs[t], CsrfFailure(t, r) \/ CallFails(t, r) PROVE ReqInv'
  BY <1>0, <1>7, ExpiredReq, HiccupReq DEF CsrfFailure, CallFails
<1>8. ASSUME NEW t \in Tabs, RefreshArrives(t) PROVE ReqInv'
  <2> DEFINE f == [r \in Reqs[t] |-> IF r \in Waiting(t)
                                     THEN [req[t][r] EXCEPT !.st = "sent", !.sent = refr[t].got]
                                     ELSE req[t][r]]
  <2>1. req' = [req EXCEPT ![t] = f]
    BY <1>8 DEF RefreshArrives
  <2>2. refr[t].got \in 0..MaxIssue
    BY DEF IInv, PairInv, Pairs, RefrType
  <2>a. \A r \in Reqs[t] : req[t][r] \in ReqType
    BY <1>0 DEF ReqInv
  <2>b. \A c \in ReqType : [c EXCEPT !.st = "sent", !.sent = refr[t].got] \in ReqType
    BY <2>2 DEF ReqType
  <2>3. f \in [Reqs[t] -> ReqType]
    BY <2>a, <2>b
  <2> HIDE DEF f
  <2> QED BY <1>0, <2>1, <2>3, ReqOfTab
<1>9. ASSUME NEW t \in Tabs, RefreshRefused(t) \/ RefreshLost(t) PROVE ReqInv'
  BY <1>0, <1>9, ExpiredReq, HiccupReq DEF RefreshRefused, RefreshLost
<1>10. ASSUME NEW t \in Tabs,
              \/ Reload(t) \/ Logout(t) \/ Enter(t) \/ ServerRefreshes(t) \/ SignInArrives(t)
              \/ SignInFails(t) \/ \E a \in Accounts : SignIn(t, a) \/ TelegramRetry(t, a)
       PROVE  UNCHANGED req
  BY <1>10 DEF Reload, Logout, Enter, ServerRefreshes, SignInArrives, SignInFails, SignIn, TelegramRetry
<1>11. ASSUME NEW i \in Issues, Expire(i) PROVE UNCHANGED req
  BY <1>11 DEF Expire
<1> QED BY <1>1, <1>2, <1>4, <1>5, <1>6, <1>7, <1>8, <1>9, <1>10, <1>11 DEF Next

-----------------------------------------------------------------------------
LEMMA FlagStep ==
  ASSUME SessionAssumption, IInv, Next
  PROVE  FlagInv'
<1>0. FlagInv /\ NoOne \in Accounts \cup {NoOne} /\ owner \in [Issues -> Accounts \cup {NoOne}]
  BY DEF IInv, PairInv, Pairs
<1>a. \A t \in Tabs : tab[t] \in TabType
  BY <1>0 DEF FlagInv
<1>b. ASSUME UNCHANGED <<tab, relaunches>> PROVE FlagInv'
  BY <1>0, <1>b DEF FlagInv
<1>1. ASSUME NEW t \in Tabs, Load(t) PROVE FlagInv'
  <2>1. \/ tab' = [tab EXCEPT ![t] = [Private(t, NoOne) EXCEPT !.phase = "ready"]]
        \/ tab' = [tab EXCEPT ![t] = [tab[t] EXCEPT !.phase = "loading", !.me = NoOne, !.tries = 0]]
    <3>1. CASE stored' = 0 /\ ~telegram
      BY <1>1, <3>1 DEF Load
    <3>2. CASE ~(stored' = 0 /\ ~telegram)
      BY <1>1, <3>2 DEF Load
    <3> QED BY <3>1, <3>2
  <2>2. \A x \in TabType : /\ [x EXCEPT !.phase = "ready"] \in TabType
                           /\ [x EXCEPT !.phase = "loading", !.me = NoOne, !.tries = 0] \in TabType
    <3>1. 0 \in 0..MeTries
      BY DEF SessionAssumption
    <3>2. ASSUME NEW x \in TabType PROVE [x EXCEPT !.phase = "ready"] \in TabType
      BY DEF TabType
    <3>3. ASSUME NEW x \in TabType PROVE [x EXCEPT !.phase = "loading", !.me = NoOne, !.tries = 0] \in TabType
      BY <3>1 DEF TabType
    <3> QED BY <3>2, <3>3
  <2>3. \A x \in TabType : /\ [x EXCEPT !.phase = "ready"].flag = x.flag
                           /\ [x EXCEPT !.phase = "loading", !.me = NoOne, !.tries = 0].flag = x.flag
    BY DEF TabType
  <2>4. UNCHANGED relaunches
    BY <1>1 DEF Load
  <2>5. Private(t, NoOne) \in TabType /\ (Private(t, NoOne).flag <=> tab[t].flag)
    BY <1>0, PrivateTyped
  <2>6. CASE tab' = [tab EXCEPT ![t] = [Private(t, NoOne) EXCEPT !.phase = "ready"]]
    <3> DEFINE x == [Private(t, NoOne) EXCEPT !.phase = "ready"]
    <3>1. x \in TabType /\ (x.flag <=> tab[t].flag) /\ tab' = [tab EXCEPT ![t] = x]
      BY <2>2, <2>3, <2>5, <2>6
    <3> HIDE DEF x
    <3> QED BY <1>0, <2>4, <3>1, FlagKept
  <2>7. CASE tab' = [tab EXCEPT ![t] = [tab[t] EXCEPT !.phase = "loading", !.me = NoOne, !.tries = 0]]
    <3> DEFINE x == [tab[t] EXCEPT !.phase = "loading", !.me = NoOne, !.tries = 0]
    <3>1. x \in TabType /\ (x.flag <=> tab[t].flag) /\ tab' = [tab EXCEPT ![t] = x]
      BY <1>a, <2>2, <2>3, <2>7
    <3> HIDE DEF x
    <3> QED BY <1>0, <2>4, <3>1, FlagKept
  <2> QED BY <2>1, <2>6, <2>7
<1>2. ASSUME NEW t \in Tabs, NEW r \in Reqs[t], Answered(t, r) PROVE FlagInv'
  <2> DEFINE a == owner[req[t][r].sent]
  <2>1. CASE Starting(t, {r})
    <3>1. req[t][r].sent \in Issues
      <4>1. req[t][r] \in ReqType
        BY DEF IInv, ReqInv
      <4> QED BY <1>2, <4>1 DEF Answered, ReqType, Issues, SessionAssumption
    <3>2. a \in Accounts \cup {NoOne} /\ tab' = [tab EXCEPT ![t] = Private(t, a)] /\ UNCHANGED relaunches
      BY <1>0, <1>2, <2>1, <3>1 DEF Answered
    <3> HIDE DEF a
    <3> QED BY <1>0, <3>2, PrivateTyped, FlagKept
  <2>2. CASE ~Starting(t, {r})
    BY <1>2, <1>b, <2>2 DEF Answered
  <2> QED BY <2>1, <2>2
<1>3. ASSUME NEW t \in Tabs, NEW r \in Reqs[t], Unauthorized(t, r) PROVE FlagInv'
  <2>1. CASE req[t][r].retried \/ stored = 0
    BY <1>0, <1>3, <2>1, RefusalFlag DEF Unauthorized
  <2>2. CASE ~(req[t][r].retried \/ stored = 0)
    BY <1>3, <1>b, <2>2 DEF Unauthorized
  <2> QED BY <2>1, <2>2
<1>4. ASSUME NEW t \in Tabs, NEW r \in Reqs[t], CsrfFailure(t, r) \/ CallFails(t, r) PROVE FlagInv'
  BY <1>0, <1>4, ExpiredFlag, HiccupFlag DEF CsrfFailure, CallFails
<1>5. ASSUME NEW t \in Tabs, RefreshRefused(t) \/ RefreshLost(t) PROVE FlagInv'
  BY <1>0, <1>5, ExpiredFlag, HiccupFlag DEF RefreshRefused, RefreshLost
<1>6. ASSUME NEW t \in Tabs, SignInArrives(t) PROVE FlagInv'
  <2> DEFINE p == Private(t, sign[t].acct)
             x == [p EXCEPT !.path = "site", !.flag = @ /\ ~telegram]
  <2>1. p \in TabType
    <3>1. sign[t].acct \in Accounts \cup {NoOne}
      BY <1>6 DEF IInv, SignInv, SignInArrives
    <3> QED BY <1>0, <3>1, PrivateTyped
  <2>2. tab' = [tab EXCEPT ![t] = x] /\ relaunches' = [relaunches EXCEPT ![t] = 0]
    BY <1>6 DEF SignInArrives
  <2> HIDE DEF p
  <2>3. x \in TabType
    BY <2>1 DEF TabType
  <2> HIDE DEF x
  <2>4. tab' \in [Tabs -> TabType] /\ \A u \in Tabs \ {t} : tab'[u] = tab[u]
    BY <1>0, <2>2, <2>3 DEF FlagInv
  <2>5. relaunches' \in [Tabs -> Nat] /\ relaunches'[t] = 0 /\ \A u \in Tabs \ {t} : relaunches'[u] = relaunches[u]
    BY <1>0, <2>2 DEF FlagInv
  <2> QED BY <1>0, <2>4, <2>5 DEF FlagInv
<1>7. ASSUME NEW t \in Tabs, Reload(t) \/ Enter(t) \/ \E a \in Accounts : TelegramRetry(t, a) PROVE FlagInv'
  <2>1. UNCHANGED relaunches
    BY <1>7 DEF Reload, Enter, TelegramRetry
  <2>2. \E x \in {[tab[t] EXCEPT !.phase = "leaving"], [tab[t] EXCEPT !.path = "site"],
                 [tab[t] EXCEPT !.phase = "loading"]} : tab' = [tab EXCEPT ![t] = x]
    BY <1>7 DEF Reload, Enter, TelegramRetry
  <2>3. \A x \in {[tab[t] EXCEPT !.phase = "leaving"], [tab[t] EXCEPT !.path = "site"],
                 [tab[t] EXCEPT !.phase = "loading"]} : x \in TabType /\ x.flag = tab[t].flag
    BY <1>a DEF TabType
  <2> QED BY <1>0, <2>1, <2>2, <2>3, FlagKept
<1>8. ASSUME NEW t \in Tabs, Logout(t) \/ SignInFails(t) PROVE FlagInv'
  <2>1. UNCHANGED relaunches /\ (tab' = [tab EXCEPT ![t] = Private(t, NoOne)] \/ tab' = tab)
    BY <1>8 DEF Logout, SignInFails
  <2> QED BY <1>0, <1>b, <2>1, PrivateTyped, FlagKept
<1>9. ASSUME NEW t \in Tabs,
             TryAgain(t) \/ RefreshArrives(t) \/ ServerRefreshes(t) \/ \E a \in Accounts : SignIn(t, a)
      PROVE  FlagInv'
  BY <1>9, <1>b DEF TryAgain, RefreshArrives, ServerRefreshes, SignIn
<1>10. ASSUME NEW t \in Tabs, NEW r \in Reqs[t], Send(t, r) PROVE FlagInv'
  BY <1>10, <1>b DEF Send
<1>11. ASSUME NEW i \in Issues, Expire(i) PROVE FlagInv'
  BY <1>11, <1>b DEF Expire
<1> QED BY <1>1, <1>2, <1>3, <1>4, <1>5, <1>6, <1>7, <1>8, <1>9, <1>10, <1>11 DEF Next

LEMMA RestStep ==
  ASSUME SessionAssumption, IInv, Next
  PROVE  Rest'
<1>0. Rest /\ \A t \in Tabs : refr[t].st # "none" => refr[t].tok \in Issues
  BY DEF IInv, PairInv, Pairs, Issued
<1>1. ASSUME NEW t \in Tabs, Load(t) \/ RefreshLost(t) PROVE Rest'
  <2>1. UNCHANGED <<telegram, fate, stale>>
        /\ missed' = IF refr[t].st = "granted" THEN missed \cup {refr[t].tok} ELSE missed
    BY <1>1 DEF Load, RefreshLost
  <2> QED BY <1>0, <2>1 DEF Rest
<1>2. ASSUME NEW t \in Tabs, ServerRefreshes(t) PROVE Rest'
  <2>1. UNCHANGED <<telegram, missed, stale>> /\ (fate' = fate \/ fate' = [fate EXCEPT ![refr[t].tok] = "spent"])
    BY <1>2 DEF ServerRefreshes
  <2> QED BY <1>0, <2>1 DEF Rest
<1>3. ASSUME NEW t \in Tabs, Logout(t) PROVE Rest'
  <2>1. UNCHANGED <<telegram, missed, stale>>
        /\ fate' \in {fate, [i \in Issues |-> IF i = stored /\ fate[i] = "live" THEN "revoked" ELSE fate[i]]}
    BY <1>3 DEF Logout
  <2> QED BY <1>0, <2>1 DEF Rest
<1>4. ASSUME NEW i \in Issues, Expire(i) PROVE Rest'
  <2>1. UNCHANGED <<telegram, fate, missed>> /\ stale' = stale \cup {i}
    BY <1>4 DEF Expire
  <2> QED BY <1>0, <2>1 DEF Rest
<1>5. ASSUME UNCHANGED <<telegram, fate, missed, stale>> PROVE Rest'
  BY <1>0, <1>5 DEF Rest
<1>6. ASSUME NEW t \in Tabs,
             \/ Reload(t) \/ TryAgain(t) \/ Enter(t) \/ RefreshArrives(t) \/ RefreshRefused(t)
             \/ SignInArrives(t) \/ SignInFails(t) \/ \E a \in Accounts : SignIn(t, a) \/ TelegramRetry(t, a)
      PROVE  UNCHANGED <<telegram, fate, missed, stale>>
  BY <1>6 DEF Reload, TryAgain, Enter, RefreshArrives, RefreshRefused, SignInArrives, SignInFails, SignIn, TelegramRetry
<1>7. ASSUME NEW t \in Tabs, NEW r \in Reqs[t],
             Send(t, r) \/ Answered(t, r) \/ Unauthorized(t, r) \/ CsrfFailure(t, r) \/ CallFails(t, r)
      PROVE  UNCHANGED <<telegram, fate, missed, stale>>
  BY <1>7 DEF Send, Answered, Unauthorized, CsrfFailure, CallFails
<1> QED BY <1>1, <1>2, <1>3, <1>4, <1>5, <1>6, <1>7 DEF Next
-----------------------------------------------------------------------------
LEMMA SessionInit == SessionAssumption /\ Init => IInv
<1> SUFFICES ASSUME SessionAssumption, Init PROVE IInv
  OBVIOUS
<1>1. PairInv
  BY PairsInit
<1>2. SignInv
  BY DEF Init, SignInv, NoSignIn
<1>3. FlagInv
  <2>1. PICK w \in Tabs :
          tab = [t \in Tabs |-> [path |-> "site", me |-> NoOne, tries |-> 0, flag |-> FALSE,
                                phase |-> IF telegram /\ t # w THEN "closed" ELSE "leaving"]]
    BY DEF Init
  <2>2. tab \in [Tabs -> TabType]
    BY <2>1 DEF TabType, SessionAssumption
  <2> QED BY <2>2 DEF Init, FlagInv
<1>4. ReqInv
  BY IdleTyped DEF Init, ReqInv
<1>5. Rest
  BY DEF Init, Rest
<1> QED BY <1>1, <1>2, <1>3, <1>4, <1>5 DEF IInv

LEMMA SessionStep == SessionAssumption /\ IInv /\ [Next]_vars => IInv'
<1> SUFFICES ASSUME SessionAssumption, IInv, [Next]_vars PROVE IInv'
  OBVIOUS
<1>1. CASE Next
  BY <1>1, PairsStep, SignStep, FlagStep, ReqStep, RestStep DEF IInv
<1>2. CASE UNCHANGED vars
  BY <1>2 DEF vars, IInv, PairInv, Pairs, OnTheWay, Spending, Issued, SignInv, FlagInv, ReqInv, Rest
<1> QED BY <1>1, <1>2

(* The shared store, every tab's refresh and the relaunch mark stay in step, whatever the order of
   401s, refreshes, sign-ins, sign-outs and navigations of any number of tabs (lib/api.js, lib/auth.jsx). *)
THEOREM SessionInvariant == Spec => []IInv
BY SessionInit, SessionStep, SessionAssumption, PTL DEF Spec

(* Every tab, call, token pair and refresh stays one of the kinds the code knows (Session.TypeOK). *)
THEOREM SessionTyped == Spec => []TypeOK
<1>1. SessionAssumption /\ IInv => TypeOK
  <2> SUFFICES ASSUME SessionAssumption, IInv PROVE TypeOK
    OBVIOUS
  <2>1. stored \in 0..MaxIssue
    BY DEF IInv, PairInv, Pairs, Issued, Issues, SessionAssumption
  <2> QED BY <2>1 DEF IInv, PairInv, Pairs, SignInv, FlagInv, ReqInv, Rest, TabType, RefrType, ReqType, TypeOK
<1> QED BY <1>1, SessionInvariant, SessionAssumption, PTL

(* No tab sends a refresh token twice, so several calls that meet a 401 do not sign the visitor out. *)
THEOREM SessionSpentOnce == Spec => []SpentOnce
<1>1. IInv => SpentOnce
  <2> SUFFICES ASSUME IInv, NEW t \in Tabs, refr[t].st = "refused",
                      spender[refr[t].tok] = t, refr[t].tok \notin missed
               PROVE  FALSE
    BY DEF SpentOnce
  <2>1. refr[t].tok \in Issues
    BY DEF IInv, PairInv, Pairs, Issued
  <2> QED BY <2>1 DEF IInv, PairInv, Spending
<1> QED BY <1>1, SessionInvariant, PTL

(* A Telegram tab relaunches at most once between two sign-ins. *)
THEOREM SessionRelaunchOnce == Spec => []RelaunchOnce
<1>1. IInv => RelaunchOnce
  BY DEF IInv, FlagInv, RelaunchOnce
<1> QED BY <1>1, SessionInvariant, PTL

(***************************************************************************)
(* 2. The live feeds: for any number of sockets, changes, broken           *)
(* connections, expired tokens, lost pushes and calls.                     *)
(*                                                                         *)
(* A live socket is the effect's own one and excludes a timer in hand      *)
(* (Single), which is why a wake-up that finds `ws' closed may connect.  A *)
(* badge that is wrong while a socket is open has the right number still   *)
(* to come (WillShow): in a push that is owed, read or on its way to this  *)
(* socket, as an answer or as a call the server has yet to read; and       *)
(* nothing on its way is ahead of the server (Told).                       *)
(***************************************************************************)
SockState == {"free", "opening", "expired", "joined", "open"}

(* Signed out there is neither; signed in one of the two at most. *)
Single ==
  /\ \A s \in Socks : sock[s] # "free" => s = ws /\ ~timer /\ on
  /\ orphans = 0 /\ (timer => on)

(* No number is of a state the server was not in yet. *)
Told ==
  /\ owed \in 0..now /\ frames \subseteq 0..now /\ answers \subseteq 0..now /\ badge \in 0..now
  /\ inbox \in [Socks -> Seq(0..now)]

(* An open socket of a feed that catches up: the number of now is shown or still to come. *)
WillShow(s) ==
  \/ asks > 0 \/ owed > 0 \/ now \in answers \/ now \in frames \/ badge = now \/ doubt
  \/ \E i \in 1..Len(inbox[s]) : inbox[s][i] = now
Fresher == \A s \in Socks : feed.catchUp /\ sock[s] = "open" => WillShow(s)

(* The type invariant in two parts, flags and the rest. *)
FeedFlags == on \in BOOLEAN /\ timer \in BOOLEAN /\ doubt \in BOOLEAN
FeedRest ==
  /\ feed \in Feeds /\ token \in {"none", "good", "stale"}
  /\ now \in 0..MaxNow /\ asks \in 0..MaxAsks
  /\ sock \in [Socks -> SockState] /\ ws \in Socks \cup {NoSock} /\ orphans \in Nat
  /\ drops \in 0..MaxDrops /\ expires \in 0..MaxExpires

FeedInv == FeedFlags /\ FeedRest /\ Told /\ Single /\ Fresher
-----------------------------------------------------------------------------
LEMMA Widen ==
  ASSUME NEW S, NEW T, S \subseteq T, NEW q, q \in Seq(S)
  PROVE  q \in Seq(T)
<1>1. q \in [1..Len(q) -> S] /\ Len(q) \in Nat
  OBVIOUS
<1>2. q \in [1..Len(q) -> T]
  BY <1>1
<1> QED BY <1>1, <1>2

(* The first push and the rest. *)
LEMMA Ends ==
  ASSUME NEW S, NEW q, q \in Seq(S), q # <<>>
  PROVE  /\ Head(q) \in S /\ Tail(q) \in Seq(S)
         /\ \A i \in 1..Len(q) : q[i] = Head(q) \/ \E j \in 1..Len(Tail(q)) : Tail(q)[j] = q[i]
<1>1. Head(q) = q[1] /\ Tail(q) \in Seq(S) /\ Len(Tail(q)) = Len(q) - 1 /\ Len(q) \in Nat \ {0}
  OBVIOUS
<1>2. \A j \in 1..Len(Tail(q)) : Tail(q)[j] = q[j + 1]
  OBVIOUS
<1>3. ASSUME NEW i \in 1..Len(q), i # 1
      PROVE  \E j \in 1..Len(Tail(q)) : Tail(q)[j] = q[i]
  <2>1. i - 1 \in 1..Len(Tail(q)) /\ (i - 1) + 1 = i
    BY <1>1, <1>3
  <2> QED BY <1>2, <2>1
<1> QED BY <1>1, <1>3

LEMMA FeedTyped == ASSUME LiveFeedAssumption, FeedInv PROVE FeedTypeOK
<1>1. 0..now \subseteq 0..MaxNow
  BY DEF FeedInv, FeedRest, LiveFeedAssumption
<1>2. /\ owed \in 0..MaxNow /\ frames \subseteq 0..MaxNow /\ answers \subseteq 0..MaxNow /\ badge \in 0..MaxNow
  BY <1>1 DEF FeedInv, Told
<1>3. inbox \in [Socks -> Seq(0..MaxNow)]
  <2>1. \A s \in Socks : inbox[s] \in Seq(0..MaxNow)
    BY <1>1, Widen DEF FeedInv, Told
  <2> QED BY <2>1 DEF FeedInv, Told
<1> QED BY <1>2, <1>3, Zenon DEF FeedInv, FeedFlags, FeedRest, FeedTypeOK, SockState

LEMMA FeedStart == ASSUME LiveFeedAssumption, FeedInit PROVE FeedInv
<1> USE DEF FeedInit
<1>1. FeedFlags
  BY Zenon DEF FeedFlags
<1>2. FeedRest
  BY DEF FeedRest, LiveFeedAssumption, SockState
<1>3. Told
  BY DEF Told
<1>4. Single /\ Fresher
  BY DEF Single, Fresher
<1> QED BY <1>1, <1>2, <1>3, <1>4 DEF FeedInv

(* A connection begins, or there is no token. *)
LEMMA Connects ==
  ASSUME FeedRest, Connect
  PROVE  /\ sock' \in [Socks -> SockState] /\ ws' \in Socks \cup {NoSock}
         /\ \A s \in Socks : sock'[s] = "open" => sock[s] = "open"
         /\ (\A s \in Socks : sock[s] = "free") => \A s \in Socks : sock'[s] # "free" => s = ws'
<1>1. CASE token = "none"
  BY <1>1 DEF Connect, FeedRest
<1>2. CASE token # "none"
  <2>1. PICK s \in Socks : /\ sock[s] = "free" /\ ws' = s
                           /\ sock' = [sock EXCEPT ![s] = IF token = "good" THEN "opening" ELSE "expired"]
    BY <1>2 DEF Connect
  <2> QED BY <2>1 DEF FeedRest, SockState
<1> QED BY <1>1, <1>2

(* Numbers that do not move. *)
LEMMA ToldKept ==
  ASSUME Told, UNCHANGED <<now, owed, frames, badge, answers, inbox>>
  PROVE  Told'
BY DEF Told

(* A socket that opens aside, what was to come is to come still. *)
LEMMA FresherKept ==
  ASSUME Fresher, FeedRest, UNCHANGED <<feed, now, owed, frames, badge, answers, inbox>>,
         asks' >= asks, asks' \in Nat, doubt => doubt',
         \A s \in Socks : sock'[s] = "open" => sock[s] = "open"
  PROVE  Fresher'
<1> SUFFICES ASSUME NEW s \in Socks, feed.catchUp, sock'[s] = "open" PROVE WillShow(s)'
  BY DEF Fresher
<1>1. WillShow(s)
  BY DEF Fresher
<1> QED BY <1>1 DEF WillShow, FeedRest
-----------------------------------------------------------------------------
(* The effect. *)
LEMMA EnableStep == ASSUME LiveFeedAssumption, FeedInv, Enable PROVE FeedInv'
<1> USE DEF FeedInv, serverVars
<1>1. /\ ~on /\ asks < MaxAsks /\ on' = TRUE /\ asks' = asks + 1 /\ Connect
      /\ UNCHANGED <<feed, token, now, owed, frames, badge, answers, inbox, timer, orphans, drops, expires, doubt>>
  BY DEF Enable
<1>2. FeedFlags'
  BY <1>1, Zenon DEF FeedFlags
<1>3. FeedRest'
  BY <1>1, Connects DEF FeedRest, LiveFeedAssumption
<1>4. Told'
  BY <1>1, ToldKept
<1>5. Single'
  <2>1. \A s \in Socks : sock[s] = "free"
    BY <1>1 DEF Single
  <2>2. ~timer
    BY <1>1 DEF Single
  <2> QED BY <1>1, <2>1, <2>2, Connects DEF Single
<1>6. Fresher'
  BY <1>1, Connects, FresherKept DEF FeedRest
<1> QED BY <1>2, <1>3, <1>4, <1>5, <1>6

LEMMA DisableStep == ASSUME LiveFeedAssumption, FeedInv, Disable PROVE FeedInv'
<1> USE DEF FeedInv, serverVars
<1>1. /\ sock' = [s \in Socks |-> IF s = ws THEN "free" ELSE sock[s]]
      /\ inbox' = [s \in Socks |-> IF s = ws THEN <<>> ELSE inbox[s]]
      /\ on' = FALSE /\ ws' = NoSock /\ timer' = FALSE /\ orphans' = 0 /\ badge' = 0 /\ doubt' = TRUE
      /\ UNCHANGED <<feed, token, now, owed, frames, asks, answers, drops, expires>>
  BY DEF Disable
<1>2. FeedFlags'
  BY <1>1, Zenon DEF FeedFlags
<1>3. FeedRest'
  BY <1>1 DEF FeedRest, SockState
<1>4. Told'
  <2>1. now \in Nat
    BY DEF FeedRest
  <2>2. inbox' \in [Socks -> Seq(0..now)]
    <3>1. ASSUME NEW s \in Socks PROVE (IF s = ws THEN <<>> ELSE inbox[s]) \in Seq(0..now)
      <4>1. inbox[s] \in Seq(0..now)
        BY DEF Told
      <4>2. <<>> \in Seq(0..now)
        OBVIOUS
      <4> QED BY <4>1, <4>2
    <3>2. inbox' = [s \in Socks |-> IF s = ws THEN <<>> ELSE inbox[s]]
      BY <1>1
    <3> QED BY <3>1, <3>2, Zenon
  <2> QED BY <1>1, <2>1, <2>2 DEF Told
<1>5. Single'
  BY <1>1 DEF Single
<1>6. Fresher'
  BY <1>1 DEF Fresher, WillShow
<1> QED BY <1>2, <1>3, <1>4, <1>5, <1>6

(* onclose of a socket that lives: no timer was in hand. *)
LEMMA ClosedStep ==
  ASSUME FeedInv, NEW s \in Socks, sock[s] # "free", Closed(s),
         UNCHANGED <<feed, on, token, now, owed, frames, badge, asks, answers, ws, expires, doubt>>,
         drops' \in 0..MaxDrops
  PROVE  FeedInv'
<1> USE DEF FeedInv
<1>1. /\ sock' = [sock EXCEPT ![s] = "free"] /\ inbox' = [inbox EXCEPT ![s] = <<>>]
      /\ timer' = TRUE /\ orphans' = IF timer THEN orphans + 1 ELSE orphans
  BY DEF Closed, Arm
<1>2. s = ws /\ ~timer /\ on
  BY DEF Single
<1>3. FeedFlags'
  BY <1>1, Zenon DEF FeedFlags
<1>4. FeedRest'
  BY <1>1, <1>2 DEF FeedRest, SockState
<1>5. Told'
  <2>1. inbox' \in [Socks -> Seq(0..now)]
    BY <1>1 DEF Told
  <2> QED BY <2>1 DEF Told
<1>6. \A t \in Socks : sock'[t] = "free"
  BY <1>1, <1>2 DEF Single, FeedRest
<1>7. Single'
  BY <1>1, <1>2, <1>6 DEF Single
<1>8. Fresher'
  BY <1>6 DEF Fresher
<1> QED BY <1>3, <1>4, <1>5, <1>7, <1>8

LEMMA EndStep ==
  ASSUME LiveFeedAssumption, FeedInv, NEW s \in Socks, Dropped(s) \/ Refused(s)
  PROVE  FeedInv'
<1>1. /\ sock[s] # "free" /\ Closed(s)
      /\ UNCHANGED <<feed, on, token, now, owed, frames, badge, asks, answers, ws, expires, doubt>>
  BY DEF Dropped, Refused, serverVars
<1>2. drops' \in 0..MaxDrops
  BY DEF Dropped, Refused, FeedInv, FeedRest, LiveFeedAssumption
<1> QED BY <1>1, <1>2, ClosedStep

LEMMA JoinedStep == ASSUME FeedInv, NEW s \in Socks, Joined(s) PROVE FeedInv'
<1> USE DEF FeedInv, serverVars, tabVars
<1>1. /\ sock[s] = "opening" /\ sock' = [sock EXCEPT ![s] = "joined"]
      /\ UNCHANGED <<feed, token, now, owed, frames, on, ws, timer, orphans, badge, asks, answers, inbox,
                     drops, expires, doubt>>
  BY DEF Joined
<1>2. FeedFlags'
  BY <1>1, Zenon DEF FeedFlags
<1>3. FeedRest'
  BY <1>1 DEF FeedRest, SockState
<1>4. Told'
  BY <1>1, ToldKept
<1>5. Single'
  BY <1>1 DEF Single, FeedRest
<1>6. Fresher'
  BY <1>1, FresherKept DEF FeedRest
<1> QED BY <1>2, <1>3, <1>4, <1>5, <1>6

(* What was missed is asked for. *)
LEMMA OpenedStep == ASSUME LiveFeedAssumption, FeedInv, NEW s \in Socks, Opened(s) PROVE FeedInv'
<1> USE DEF FeedInv, serverVars, tabVars
<1>1. /\ sock[s] = "joined" /\ sock' = [sock EXCEPT ![s] = "open"]
      /\ UNCHANGED <<feed, token, now, owed, frames, on, ws, timer, orphans, badge, answers, inbox,
                     drops, expires, doubt>>
  BY DEF Opened
<1>2. IF feed.catchUp THEN asks < MaxAsks /\ asks' = asks + 1 ELSE asks' = asks
  BY DEF Opened
<1>3. asks' \in 0..MaxAsks /\ (feed.catchUp => asks' > 0)
  BY <1>2 DEF FeedRest, LiveFeedAssumption
<1>4. FeedFlags'
  BY <1>1, Zenon DEF FeedFlags
<1>5. FeedRest'
  BY <1>1, <1>3 DEF FeedRest, SockState
<1>6. Told'
  BY <1>1, ToldKept
<1>7. Single'
  BY <1>1 DEF Single, FeedRest
<1>8. Fresher'
  BY <1>1, <1>3 DEF Fresher, WillShow
<1> QED BY <1>4, <1>5, <1>6, <1>7, <1>8

LEMMA RetryStep == ASSUME LiveFeedAssumption, FeedInv, Retry PROVE FeedInv'
<1> USE DEF FeedInv, serverVars
<1>1. /\ Connect
      /\ UNCHANGED <<feed, on, token, now, owed, frames, badge, asks, answers, inbox, drops, expires, doubt>>
  BY DEF Retry
<1>2. timer /\ timer' = FALSE /\ orphans' = orphans /\ orphans = 0 /\ on
  BY DEF Retry, Single
<1>3. FeedFlags'
  BY <1>1, <1>2, Zenon DEF FeedFlags
<1>4. FeedRest'
  BY <1>1, <1>2, Connects DEF FeedRest
<1>5. Told'
  BY <1>1, ToldKept
<1>6. \A s \in Socks : sock[s] = "free"
  BY <1>2 DEF Single
<1>7. Single'
  BY <1>1, <1>2, <1>6, Connects DEF Single
<1>8. Fresher'
  BY <1>1, Connects, FresherKept DEF FeedRest
<1> QED BY <1>3, <1>4, <1>5, <1>7, <1>8

(* A socket that died is the only one there was. *)
LEMMA VisibleStep == ASSUME LiveFeedAssumption, FeedInv, Visible PROVE FeedInv'
<1> USE DEF FeedInv, serverVars
<1>1. /\ on /\ asks < MaxAsks /\ asks' = asks + 1
      /\ UNCHANGED <<feed, on, token, now, owed, frames, badge, answers, inbox, orphans, drops, expires, doubt>>
      /\ \/ Gone(ws) /\ timer' = FALSE /\ Connect
         \/ UNCHANGED <<timer, sock, ws>>
  BY DEF Visible
<1>2. FeedFlags'
  BY <1>1, Zenon DEF FeedFlags
<1>3. Told'
  BY <1>1, ToldKept
<1>4. asks' \in 0..MaxAsks /\ asks' >= asks
  BY <1>1 DEF FeedRest, LiveFeedAssumption
<1>5. /\ sock' \in [Socks -> SockState] /\ ws' \in Socks \cup {NoSock}
      /\ \A s \in Socks : sock'[s] = "open" => sock[s] = "open"
  BY <1>1, Connects DEF FeedRest
<1>6. FeedRest'
  BY <1>1, <1>4, <1>5 DEF FeedRest
<1>7. Single'
  <2>1. CASE Gone(ws) /\ timer' = FALSE /\ Connect
    <3>1. \A s \in Socks : sock[s] = "free"
      BY <2>1 DEF Single, Gone, LiveFeedAssumption
    <3> QED BY <1>1, <2>1, <3>1, Connects DEF Single
  <2>2. CASE UNCHANGED <<timer, sock, ws>>
    BY <1>1, <2>2 DEF Single
  <2> QED BY <1>1, <2>1, <2>2
<1>8. Fresher'
  BY <1>1, <1>4, <1>5, FresherKept DEF FeedRest
<1> QED BY <1>2, <1>3, <1>6, <1>7, <1>8
-----------------------------------------------------------------------------
(* Tokens. *)
LEMMA TokenStep ==
  ASSUME LiveFeedAssumption, FeedInv, TokenExpires \/ TokenChanges PROVE FeedInv'
<1> USE DEF FeedInv, serverVars, tabVars
<1>1. UNCHANGED <<feed, now, owed, frames, on, ws, timer, orphans, badge, asks, answers, inbox, drops, doubt>>
  BY DEF TokenExpires, TokenChanges
<1>2. token' \in {"none", "good", "stale"} /\ expires' \in 0..MaxExpires
  BY DEF TokenExpires, TokenChanges, FeedRest, LiveFeedAssumption
<1>3. /\ sock' \in [Socks -> SockState]
      /\ \A s \in Socks : /\ sock'[s] = "open" => sock[s] = "open"
                          /\ sock'[s] # "free" => sock[s] # "free"
  <2>1. CASE TokenExpires
    BY <2>1 DEF TokenExpires, FeedRest, SockState
  <2>2. CASE TokenChanges
    BY <2>2 DEF TokenChanges, FeedRest
  <2> QED BY <2>1, <2>2
<1>4. FeedFlags'
  BY <1>1, Zenon DEF FeedFlags
<1>5. FeedRest'
  BY <1>1, <1>2, <1>3 DEF FeedRest
<1>6. Told'
  BY <1>1, ToldKept
<1>7. Single'
  BY <1>1, <1>3 DEF Single
<1>8. Fresher'
  BY <1>1, <1>3, FresherKept DEF FeedRest
<1> QED BY <1>4, <1>5, <1>6, <1>7, <1>8
-----------------------------------------------------------------------------
(* Numbers.  The sockets and the timer stay as they are. *)
LEMMA NumbersOnly ==
  ASSUME FeedInv, UNCHANGED <<on, sock, ws, timer, orphans>> PROVE Single'
BY DEF FeedInv, Single

LEMMA ChangeStep == ASSUME LiveFeedAssumption, FeedInv, Change PROVE FeedInv'
<1> USE DEF FeedInv, tabVars
<1>1. /\ now < MaxNow /\ now' = now + 1 /\ owed' = owed + 1
      /\ UNCHANGED <<feed, token, frames, on, ws, timer, orphans, badge, asks, answers, sock, inbox,
                     drops, expires, doubt>>
  BY DEF Change
<1>2. FeedFlags'
  BY <1>1, Zenon DEF FeedFlags
<1>3. FeedRest'
  BY <1>1 DEF FeedRest, LiveFeedAssumption
<1>4. 0..now \subseteq 0..now' /\ owed' \in 0..now' /\ owed' > 0
  BY <1>1 DEF FeedRest, Told
<1>5. inbox' \in [Socks -> Seq(0..now')]
  <2>1. \A s \in Socks : inbox[s] \in Seq(0..now')
    BY <1>4, Widen DEF Told
  <2> QED BY <1>1, <2>1 DEF Told
<1>6. Told'
  BY <1>1, <1>4, <1>5 DEF Told
<1>7. Single'
  BY <1>1, NumbersOnly
<1>8. Fresher'
  BY <1>4 DEF Fresher, WillShow
<1> QED BY <1>2, <1>3, <1>6, <1>7, <1>8

LEMMA PushReadStep == ASSUME FeedInv, PushRead PROVE FeedInv'
<1> USE DEF FeedInv, tabVars
<1>1. /\ owed > 0 /\ owed' = owed - 1 /\ frames' = frames \cup {now}
      /\ UNCHANGED <<feed, token, now, on, ws, timer, orphans, badge, asks, answers, sock, inbox,
                     drops, expires, doubt>>
  BY DEF PushRead
<1>2. FeedFlags'
  BY <1>1, Zenon DEF FeedFlags
<1>3. FeedRest'
  BY <1>1 DEF FeedRest
<1>4. owed' \in 0..now /\ frames' \subseteq 0..now
  BY <1>1 DEF FeedRest, Told
<1>5. Told'
  BY <1>1, <1>4 DEF Told
<1>6. Single'
  BY <1>1, NumbersOnly
<1>7. Fresher'
  BY <1>1 DEF Fresher, WillShow
<1> QED BY <1>2, <1>3, <1>5, <1>6, <1>7

LEMMA PushSentStep == ASSUME FeedInv, NEW v \in 0..MaxNow, PushSent(v) PROVE FeedInv'
<1> USE DEF FeedInv, tabVars
<1>1. /\ v \in frames /\ frames' = frames \ {v}
      /\ inbox' = [s \in Socks |-> IF sock[s] \in {"joined", "open"} THEN Append(inbox[s], v) ELSE inbox[s]]
      /\ UNCHANGED <<feed, token, now, owed, on, ws, timer, orphans, badge, asks, answers, sock,
                     drops, expires, doubt>>
  BY DEF PushSent
<1>2. FeedFlags'
  BY <1>1, Zenon DEF FeedFlags
<1>3. FeedRest'
  BY <1>1 DEF FeedRest
<1>4. v \in 0..now /\ inbox \in [Socks -> Seq(0..now)]
  BY <1>1 DEF Told
<1>5. \A s \in Socks : /\ Append(inbox[s], v) \in Seq(0..now)
                       /\ Len(Append(inbox[s], v)) = Len(inbox[s]) + 1 /\ Len(inbox[s]) \in Nat
                       /\ Append(inbox[s], v)[Len(inbox[s]) + 1] = v
                       /\ \A i \in 1..Len(inbox[s]) : Append(inbox[s], v)[i] = inbox[s][i]
  BY <1>4
<1>6. inbox' \in [Socks -> Seq(0..now)]
  BY <1>1, <1>4, <1>5
<1>7. Told'
  BY <1>1, <1>6 DEF Told
<1>8. Single'
  BY <1>1, NumbersOnly
<1>9. Fresher'
  <2> SUFFICES ASSUME NEW s \in Socks, feed.catchUp, sock[s] = "open" PROVE WillShow(s)'
    BY <1>1 DEF Fresher
  <2>1. WillShow(s)
    BY DEF Fresher
  <2>2. inbox'[s] = Append(inbox[s], v)
    BY <1>1
  <2>3. CASE v = now
    <3>1. Len(inbox[s]) + 1 \in 1..Len(inbox'[s]) /\ inbox'[s][Len(inbox[s]) + 1] = now
      BY <1>5, <2>2, <2>3
    <3> QED BY <1>1, <3>1 DEF WillShow
  <2>4. CASE v # now
    <3>1. ASSUME NEW i \in 1..Len(inbox[s]), inbox[s][i] = now
          PROVE  i \in 1..Len(inbox'[s]) /\ inbox'[s][i] = now
      BY <1>5, <2>2, <3>1
    <3>2. now \in frames => now \in frames'
      BY <1>1, <2>4
    <3> QED BY <1>1, <2>1, <3>1, <3>2 DEF WillShow
  <2> QED BY <2>3, <2>4
<1> QED BY <1>2, <1>3, <1>7, <1>8, <1>9

(* A push that is lost, or a count call that fails: from now on there is a doubt. *)
LEMMA LossStep == ASSUME LiveFeedAssumption, FeedInv, PushLost \/ CountFails PROVE FeedInv'
<1> USE DEF FeedInv, tabVars, serverVars
<1>1. /\ doubt' = TRUE
      /\ UNCHANGED <<feed, token, now, on, ws, timer, orphans, badge, answers, sock, inbox, expires>>
  BY DEF PushLost, CountFails
<1>2. owed' \in 0..now /\ frames' \subseteq frames
  BY DEF PushLost, CountFails, Told, FeedRest
<1>3. asks' \in 0..MaxAsks /\ drops' \in 0..MaxDrops
  <2>1. CASE PushLost
    BY <2>1 DEF PushLost, FeedRest
  <2>2. CASE CountFails
    BY <2>2 DEF CountFails, FeedRest, LiveFeedAssumption
  <2> QED BY <2>1, <2>2
<1>4. FeedFlags'
  BY <1>1, Zenon DEF FeedFlags
<1>5. FeedRest'
  BY <1>1, <1>3 DEF FeedRest
<1>6. Told'
  BY <1>1, <1>2 DEF Told
<1>7. Single'
  BY <1>1, NumbersOnly
<1>8. Fresher'
  BY <1>1 DEF Fresher, WillShow
<1> QED BY <1>4, <1>5, <1>6, <1>7, <1>8

LEMMA CountReadStep == ASSUME LiveFeedAssumption, FeedInv, CountRead PROVE FeedInv'
<1> USE DEF FeedInv, tabVars, serverVars
<1>1. /\ asks > 0 /\ asks' = asks - 1 /\ token' = "good" /\ answers' = answers \cup {now}
      /\ UNCHANGED <<feed, now, owed, frames, on, ws, timer, orphans, badge, sock, inbox, drops, expires, doubt>>
  BY DEF CountRead
<1>2. FeedFlags'
  BY <1>1, Zenon DEF FeedFlags
<1>3. FeedRest'
  BY <1>1 DEF FeedRest, LiveFeedAssumption
<1>4. Told'
  <2>1. answers' \subseteq 0..now
    BY <1>1 DEF Told, FeedRest
  <2> QED BY <1>1, <2>1 DEF Told
<1>5. Single'
  BY <1>1, NumbersOnly
<1>6. Fresher'
  BY <1>1 DEF Fresher, WillShow
<1> QED BY <1>2, <1>3, <1>4, <1>5, <1>6

(* Showing an older number than that of now leaves a doubt, if the right one was shown. *)
LEMMA Shows ==
  ASSUME FeedInv, NEW v \in 0..now, Show(v)
  PROVE  /\ badge' = v /\ doubt' \in BOOLEAN
         /\ v = now => badge' = now
         /\ v # now /\ (badge = now \/ doubt) => doubt'
<1>1. badge \in 0..now /\ now \in Nat
  BY DEF FeedInv, Told, FeedRest
<1>2. badge = now /\ v # now => v < badge
  BY <1>1
<1>3. doubt' = (v # now /\ (doubt \/ v < badge)) /\ badge' = v
  BY DEF Show
<1> QED BY <1>2, <1>3

LEMMA PushedStep == ASSUME FeedInv, NEW s \in Socks, Pushed(s) PROVE FeedInv'
<1> USE DEF FeedInv, tabVars, serverVars
<1>1. /\ inbox[s] # <<>> /\ Show(Head(inbox[s])) /\ inbox' = [inbox EXCEPT ![s] = Tail(@)]
      /\ sock[s] = "open"
      /\ UNCHANGED <<feed, token, now, owed, frames, on, ws, timer, orphans, asks, answers, sock, drops, expires>>
  BY DEF Pushed
<1>2. inbox[s] \in Seq(0..now)
  BY DEF Told
<1>3. /\ Head(inbox[s]) \in 0..now /\ Tail(inbox[s]) \in Seq(0..now)
      /\ \A i \in 1..Len(inbox[s]) :
           inbox[s][i] = Head(inbox[s]) \/ \E j \in 1..Len(Tail(inbox[s])) : Tail(inbox[s])[j] = inbox[s][i]
  BY <1>1, <1>2, Ends
<1>4. /\ badge' = Head(inbox[s]) /\ doubt' \in BOOLEAN
      /\ Head(inbox[s]) # now /\ (badge = now \/ doubt) => doubt'
  BY <1>1, <1>3, Shows
<1>5. FeedFlags'
  BY <1>1, <1>4, Zenon DEF FeedFlags
<1>6. FeedRest'
  BY <1>1 DEF FeedRest
<1>7. Told'
  <2>1. inbox' \in [Socks -> Seq(0..now)]
    BY <1>1, <1>3 DEF Told
  <2> QED BY <1>1, <1>3, <1>4, <2>1 DEF Told
<1>8. Single'
  BY <1>1, NumbersOnly
<1>9. Fresher'
  <2> SUFFICES ASSUME NEW t \in Socks, feed.catchUp, sock[t] = "open" PROVE WillShow(t)'
    BY <1>1 DEF Fresher
  <2>1. t = s /\ WillShow(s) /\ inbox'[s] = Tail(inbox[s])
    BY <1>1 DEF Fresher, Single, Told
  <2>2. CASE Head(inbox[s]) = now
    BY <1>1, <1>4, <2>1, <2>2 DEF WillShow
  <2>3. CASE Head(inbox[s]) # now
    <3>1. ASSUME NEW i \in 1..Len(inbox[s]), inbox[s][i] = now
          PROVE  \E j \in 1..Len(inbox'[s]) : inbox'[s][j] = now
      BY <1>3, <2>1, <2>3, <3>1
    <3> QED BY <1>1, <1>4, <2>1, <2>3, <3>1 DEF WillShow
  <2> QED BY <2>2, <2>3
<1> QED BY <1>5, <1>6, <1>7, <1>8, <1>9

LEMMA CountedStep == ASSUME FeedInv, NEW v \in 0..MaxNow, Counted(v) PROVE FeedInv'
<1> USE DEF FeedInv, tabVars, serverVars
<1>1. /\ v \in answers /\ answers' = answers \ {v} /\ Show(v)
      /\ UNCHANGED <<feed, token, now, owed, frames, on, ws, timer, orphans, asks, sock, inbox, drops, expires>>
  BY DEF Counted
<1>2. v \in 0..now
  BY <1>1 DEF Told
<1>3. /\ badge' = v /\ doubt' \in BOOLEAN
      /\ v # now /\ (badge = now \/ doubt) => doubt'
  BY <1>1, <1>2, Shows
<1>4. FeedFlags'
  BY <1>1, <1>3, Zenon DEF FeedFlags
<1>5. FeedRest'
  BY <1>1 DEF FeedRest
<1>6. Told'
  BY <1>1, <1>2, <1>3 DEF Told
<1>7. Single'
  BY <1>1, NumbersOnly
<1>8. Fresher'
  <2> SUFFICES ASSUME NEW t \in Socks, feed.catchUp, sock[t] = "open" PROVE WillShow(t)'
    BY <1>1 DEF Fresher
  <2>1. WillShow(t)
    BY DEF Fresher
  <2>2. CASE v = now
    BY <1>1, <1>3, <2>2 DEF WillShow
  <2>3. CASE v # now
    BY <1>1, <1>3, <2>1, <2>3 DEF WillShow
  <2> QED BY <2>2, <2>3
<1> QED BY <1>4, <1>5, <1>6, <1>7, <1>8

LEMMA FeedIdle == ASSUME FeedInv, UNCHANGED feedVars PROVE FeedInv'
<1> USE DEF FeedInv, feedVars
<1>1. FeedFlags'
  BY Zenon DEF FeedFlags
<1>2. FeedRest' /\ Told' /\ Single'
  BY DEF FeedRest, Told, Single
<1>3. Fresher'
  BY DEF Fresher, WillShow
<1> QED BY <1>1, <1>2, <1>3
-----------------------------------------------------------------------------
LEMMA FeedStep == ASSUME LiveFeedAssumption, FeedInv, [FeedNext]_feedVars PROVE FeedInv'
<1>1. CASE FeedNext
  BY <1>1, EnableStep, DisableStep, RetryStep, VisibleStep, TokenStep, ChangeStep, PushReadStep, PushSentStep,
     LossStep, CountReadStep, CountedStep, EndStep, JoinedStep, OpenedStep, PushedStep DEF FeedNext
<1> QED BY <1>1, FeedIdle

(* Every reachable state of a live feed satisfies the inductive invariant. *)
THEOREM FeedSound == FeedSpec => []FeedInv
BY LiveFeedAssumption, FeedStart, FeedStep, PTL DEF FeedSpec

(* Sockets, timers, pushes and counts stay of their kinds (LiveFeed.FeedTypeOK). *)
THEOREM FeedTypes == FeedSpec => []FeedTypeOK
BY LiveFeedAssumption, FeedTyped, FeedSound, PTL

(* A connected feed with nothing on its way shows the server's number, unless since it was last
   right a push was lost, a count call failed or an older number overtook a newer one: ws.onopen
   asks for what was missed, and the socket joins its group before that. *)
THEOREM FeedBadge == FeedSpec => []BadgeRight
<1>1. FeedInv => BadgeRight
  <2> SUFFICES ASSUME FeedInv, on, feed.catchUp, Connected, Quiet PROVE badge = now \/ doubt
    BY DEF BadgeRight
  <2>1. PICK s \in Socks : sock[s] = "open"
    BY DEF Connected
  <2>2. WillShow(s) /\ inbox[s] = <<>>
    BY <2>1 DEF FeedInv, Fresher, Quiet
  <2> QED BY <2>2 DEF WillShow, Quiet
<1> QED BY <1>1, FeedSound, PTL

(* "One WebSocket per admin tab", whatever breaks, is refused or wakes up. *)
THEOREM FeedOneSocket == FeedSpec => []OneSocket
<1>1. FeedInv => OneSocket
  BY DEF FeedInv, Single, OneSocket, Live
<1> QED BY <1>1, FeedSound, PTL
=============================================================================
