--------------------------- MODULE WebSessionProofs ---------------------------
(***************************************************************************)
(* Proofs about WebSession, for any number of tabs, any roles and sections *)
(* and any bounds.                                                         *)
(***************************************************************************)
EXTENDS WebSession, TLAPS

(***************************************************************************)
(* Types                                                                   *)
(***************************************************************************)

Places == Sections \cup {"closed", "login", "bridge", "provider", "callback"}

\* A token is one the API has issued.
TokensTyped ==
  /\ owners \in Seq(Users) /\ Len(owners) <= MaxTokens
  /\ live \subseteq 1..Len(owners)
  /\ store \in 0..Len(owners)

\* So is the token of a request, and it is one if the request succeeded.
IsCall(c, n) ==
  /\ c \in Call /\ c.token \in 0..n
  /\ c.ans = "ok" => c.token # 0
  /\ c.kind = "login" => c.who \in Users

CallsTyped == \A c \in calls : IsCall(c, Len(owners))

TabsTyped ==
  /\ at \in [Tabs -> Places]
  /\ user \in [Tabs -> Users \cup {NoUser}]
  /\ loading \in [Tabs -> BOOLEAN]
  /\ removed \subseteq Tabs /\ late \subseteq Tabs

SsoTyped ==
  /\ cookie \in 0..MaxFlows /\ flow \in [Tabs -> 0..MaxFlows] /\ flows \in 0..MaxFlows
  /\ errors \in 0..MaxErrors /\ loads \in 0..MaxLoads

Typed == TokensTyped /\ CallsTyped /\ TabsTyped /\ SsoTyped

\* A request is of one of the kinds, and stays one when more tokens are issued.
LEMMA CallLater ==
  ASSUME NEW c, NEW m \in Nat, NEW n \in Nat, m <= n, IsCall(c, m)
  PROVE  IsCall(c, n)
  BY DEF IsCall

\* A request that is sent carries a token that was issued, or none.
LEMMA NewCall ==
  ASSUME NEW t \in Tabs, NEW kind \in Kinds, NEW n \in Nat, n <= MaxTokens, NEW token \in 0..n,
         NEW who \in Users \cup {NoUser}, kind = "login" => who \in Users
  PROVE  IsCall([tab |-> t, kind |-> kind, token |-> token, who |-> who, ans |-> "none"], n)
  BY SessionAssumption DEF IsCall, Call

\* A token that is issued is the next one.
LEMMA IssueType ==
  ASSUME TokensTyped, NEW u \in Users, Issue(u)
  PROVE  /\ owners' \in Seq(Users) /\ Len(owners') = Len(owners) + 1 /\ Len(owners') <= MaxTokens
         /\ live' \subseteq 1..Len(owners') /\ live' \subseteq live \cup {Len(owners')}
<1>1. owners' \in Seq(Users) /\ Len(owners') = Len(owners) + 1 /\ Len(owners) \in Nat
  BY DEF Issue, TokensTyped
<1>2. live' = live \cup {Len(owners')} /\ Len(owners') <= MaxTokens
  BY <1>1, SessionAssumption DEF Issue
<1>3. ASSUME NEW k \in live'
      PROVE  k \in 1..Len(owners')
  <2>1. CASE k \in live
    <3>1. k \in 1..Len(owners)
      BY <2>1 DEF TokensTyped
    <3> QED
      BY <1>1, <3>1
  <2>2. CASE k = Len(owners')
    BY <1>1, <2>2
  <2> QED
    BY <1>2, <2>1, <2>2
<1> QED
  BY <1>1, <1>2, <1>3

\* What the API answers.
Answered(c, q) ==
  /\ q.tab = c.tab /\ q.kind = c.kind
  /\ q.ans = "401" => q.token \notin live'
  /\ q.ans = "ok" /\ q.kind = "logout" => q.token \notin live'

\* The API answers a request of a tab with the same kind of answer to it.
LEMMA Served ==
  ASSUME Typed, NEW c \in calls, Serve(c)
  PROVE  /\ TokensTyped'
         /\ live' \subseteq live \cup {Len(owners) + 1}
         /\ Len(owners) <= Len(owners')
         /\ \E q : calls' = (calls \ {c}) \cup {q} /\ IsCall(q, Len(owners')) /\ Answered(c, q)
<1>1. /\ c \in Call /\ c.token \in 0..Len(owners) /\ (c.kind = "login" => c.who \in Users)
      /\ Len(owners) \in Nat /\ Len(owners) + 1 \in Nat /\ store' = store
  BY DEF Typed, TokensTyped, CallsTyped, IsCall, Serve
<1>2. CASE c.kind = "login"
  <2> DEFINE q == [c EXCEPT !.ans = "ok", !.token = Len(owners) + 1]
  <2>1. Issue(c.who) /\ calls' = (calls \ {c}) \cup {q}
    BY <1>2 DEF Serve
  <2>2. owners' \in Seq(Users) /\ Len(owners') = Len(owners) + 1 /\ Len(owners') <= MaxTokens
    BY <1>1, <1>2, <2>1, SessionAssumption DEF Issue, Typed, TokensTyped
  <2>3. Len(owners) + 1 \in 0..MaxTokens
    BY <1>1, <2>2, SessionAssumption
  <2>4. q \in Call /\ q.tab = c.tab /\ q.kind = c.kind /\ q.ans = "ok" /\ q.token = Len(owners) + 1
        /\ q.who = c.who
    BY <1>1, <2>3 DEF Call
  <2>5. TokensTyped' /\ live' \subseteq live \cup {Len(owners) + 1}
    BY <1>1, <2>1, <2>2 DEF Issue, Typed, TokensTyped
  <2> HIDE DEF q
  <2>6. IsCall(q, Len(owners')) /\ Answered(c, q)
    BY <1>1, <1>2, <2>2, <2>4 DEF IsCall, Answered
  <2> QED
    BY <1>1, <2>1, <2>2, <2>5, <2>6
<1>3. CASE c.kind = "logout"
  <2> DEFINE a == IF c.token = 0 THEN "401" ELSE "ok"
             q == [c EXCEPT !.ans = a]
  <2>1. UNCHANGED owners /\ live' = live \ {c.token} /\ calls' = (calls \ {c}) \cup {q}
    BY <1>3 DEF Serve
  <2>2. q \in Call /\ q.tab = c.tab /\ q.kind = c.kind /\ q.ans = a /\ q.token = c.token
    BY <1>1 DEF Call
  <2>3. TokensTyped' /\ live' \subseteq live
    BY <1>1, <2>1 DEF Typed, TokensTyped
  <2> HIDE DEF q
  <2>4. IsCall(q, Len(owners')) /\ Answered(c, q)
    BY <1>1, <1>3, <2>1, <2>2 DEF IsCall, Answered
  <2> QED
    BY <1>1, <2>1, <2>3, <2>4
<1>4. CASE c.kind \notin {"login", "logout"}
  <2> DEFINE a == IF c.token \in live THEN "ok" ELSE "401"
             q == [c EXCEPT !.ans = a]
  <2>1. UNCHANGED <<owners, live>> /\ calls' = (calls \ {c}) \cup {q}
    BY <1>4 DEF Serve
  <2>2. q \in Call /\ q.tab = c.tab /\ q.kind = c.kind /\ q.ans = a /\ q.token = c.token
    BY <1>1 DEF Call
  <2>3. TokensTyped' /\ live' \subseteq live
    BY <1>1, <2>1 DEF Typed, TokensTyped
  <2>4. 0 \notin live
    BY DEF Typed, TokensTyped
  <2> HIDE DEF q
  <2>5. IsCall(q, Len(owners')) /\ Answered(c, q)
    BY <1>1, <1>4, <2>1, <2>2, <2>4 DEF IsCall, Answered
  <2> QED
    BY <1>1, <2>1, <2>3, <2>5
<1> QED
  BY <1>2, <1>3, <1>4

\* A request that breaks is still the same request.
LEMMA Broken ==
  ASSUME Typed, NEW c \in calls, Break(c)
  PROVE  \E q : /\ calls' = (calls \ {c}) \cup {q} /\ IsCall(q, Len(owners))
               /\ q.ans = "error" /\ q.tab = c.tab /\ q.kind = c.kind
<1> DEFINE q == [c EXCEPT !.ans = "error"]
<1>1. IsCall(c, Len(owners)) /\ c \in Call
  BY DEF Typed, CallsTyped, IsCall
<1>2. /\ q \in Call /\ q.ans = "error" /\ q.tab = c.tab /\ q.kind = c.kind /\ q.token = c.token
      /\ q.who = c.who
  BY <1>1 DEF Call
<1>3. calls' = (calls \ {c}) \cup {q}
  BY DEF Break
<1> HIDE DEF q
<1> QED
  BY <1>1, <1>2, <1>3 DEF IsCall

\* A request that a tab sends joins those in flight.
LEMMA SentType ==
  ASSUME Typed, NEW t \in Tabs, NEW kind \in Kinds, NEW token \in 0..Len(owners),
         NEW who \in Users \cup {NoUser}, kind = "login" => who \in Users,
         NEW others \in SUBSET calls, Send(t, kind, token, who, others), UNCHANGED owners
  PROVE  CallsTyped'
<1>1. Len(owners) \in Nat /\ Len(owners) <= MaxTokens
  BY DEF Typed, TokensTyped
<1> QED
  BY <1>1, NewCall DEF Send, Typed, CallsTyped

\* A page that is loaded has the token it brought or the one in the store.
LEMMA MountedType ==
  ASSUME Typed, NEW t \in Tabs, NEW where \in Places, NEW k, Mounted(t, k, where),
         owners' \in Seq(Users), Len(owners) <= Len(owners'), Len(owners') <= MaxTokens,
         k \in 0..Len(owners')
  PROVE  TabsTyped' /\ store' \in 0..Len(owners') /\ CallsTyped'
<1>1. Len(owners) \in Nat /\ Len(owners') \in Nat /\ store' \in 0..Len(owners')
  BY DEF Mounted, Typed, TokensTyped
<1>2. TabsTyped'
  BY DEF Mounted, Typed, TabsTyped
<1>3. ASSUME NEW c \in calls'
      PROVE  IsCall(c, Len(owners'))
  <2>1. CASE c \in calls
    BY <1>1, <2>1, CallLater DEF Typed, CallsTyped
  <2>2. CASE c \notin calls
    <3>1. \E kind \in {"restore", "applySession"} :
            c = [tab |-> t, kind |-> kind, token |-> store', who |-> NoUser, ans |-> "none"]
      BY <1>3, <2>2 DEF Mounted
    <3> QED
      BY <1>1, <3>1, NewCall DEF Kinds
  <2> QED
    BY <2>1, <2>2
<1> QED
  BY <1>1, <1>2, <1>3 DEF CallsTyped

\* The user a tab shows is one of the accounts.
LEMMA ShowUserType ==
  ASSUME Typed, NEW c \in calls, c.ans = "ok", ShowUser(c)
  PROVE  /\ owners[c.token] \in Users
         /\ user' \in [Tabs -> Users \cup {NoUser}] /\ late' \subseteq Tabs
<1>1. c.tab \in Tabs /\ c.token \in 1..Len(owners)
  BY DEF Typed, CallsTyped, IsCall, Call, TokensTyped
<1>2. owners[c.token] \in Users
  BY <1>1 DEF Typed, TokensTyped
<1> QED
  BY <1>1, <1>2 DEF ShowUser, Typed, TabsTyped

\* Applying an answer keeps the types.
LEMMA ApplyType ==
  ASSUME Typed, NEW c \in calls, Apply(c)
  PROVE  Typed'
<1>1. c.tab \in Tabs /\ c.token \in 0..Len(owners) /\ NoUser \in Users \cup {NoUser}
  BY DEF Typed, CallsTyped, IsCall, Call
<1>2. UNCHANGED owners /\ UNCHANGED live /\ SsoTyped'
  BY DEF Apply, api, sso, Typed, SsoTyped
<1>3. TokensTyped'
  BY <1>1, <1>2
  DEF Apply, ApplyRestore, ApplyLogin, ApplyLoginMe, ApplyLogout, ApplyRefresh, ApplySession,
      ClearTokenIn, Typed, TokensTyped
<1>4. CallsTyped'
  <2>1. CASE ApplyLogin(c) /\ c.ans = "ok"
    <3>1. Send(c.tab, "loginMe", c.token, NoUser, calls \ {c})
      BY <2>1 DEF ApplyLogin
    <3>2. "loginMe" \in Kinds /\ calls \ {c} \in SUBSET calls
      BY DEF Kinds
    <3> QED
      BY <1>1, <1>2, <3>1, <3>2, SentType
  <2>2. CASE calls' = calls \ {c}
    BY <1>2, <2>2 DEF Typed, CallsTyped
  <2> QED
    BY <2>1, <2>2
    DEF Apply, ApplyRestore, ApplyLogin, ApplyLoginMe, ApplyLogout, ApplyRefresh, ApplySession
<1>5. TabsTyped'
  <2>1. at' \in [Tabs -> Places]
    BY SessionAssumption
    DEF Apply, ApplyRestore, ApplyLogin, ApplyLoginMe, ApplyLogout, ApplyRefresh, ApplySession,
        Typed, TabsTyped, Places
  <2>2. loading' \in [Tabs -> BOOLEAN]
    BY DEF Apply, ApplyRestore, ApplyLogin, ApplyLoginMe, ApplyLogout, ApplyRefresh, ApplySession,
        Loaded, Typed, TabsTyped
  <2>3. removed' \subseteq Tabs
    BY DEF Apply, ApplyRestore, ApplyLogin, ApplyLoginMe, ApplyLogout, ApplyRefresh, ApplySession,
        ClearTokenIn, Typed, TabsTyped
  <2>4. user' \in [Tabs -> Users \cup {NoUser}] /\ late' \subseteq Tabs
    <3>1. CASE c.ans = "ok" /\ ShowUser(c)
      BY <3>1, ShowUserType
    <3>2. CASE HideUser(c.tab)
      BY <3>2 DEF HideUser, Typed, TabsTyped
    <3>3. CASE UNCHANGED user /\ (UNCHANGED late \/ late' = late \cup {c.tab})
      BY <1>1, <3>3 DEF Typed, TabsTyped
    <3> QED
      BY <3>1, <3>2, <3>3
      DEF Apply, ApplyRestore, ApplyLogin, ApplyLoginMe, ApplyLogout, ApplyRefresh, ApplySession
  <2> QED
    BY <2>1, <2>2, <2>3, <2>4 DEF TabsTyped
<1> QED
  BY <1>2, <1>3, <1>4, <1>5 DEF Typed

\* Every step keeps the types.
LEMMA TypeStep ==
  ASSUME Typed, [Next]_vars
  PROVE  Typed'
<1>n. /\ owners \in Seq(Users) /\ Len(owners) \in Nat /\ Len(owners) <= MaxTokens
      /\ store \in 0..Len(owners)
      /\ {"closed", "login", "bridge", "provider", "callback", "dashboard"} \subseteq Places
      /\ Sections \subseteq Places
  BY SessionAssumption DEF Typed, TokensTyped, Places
<1>1. CASE UNCHANGED vars
  BY <1>1 DEF vars, Typed, TokensTyped, CallsTyped, TabsTyped, SsoTyped
<1>2. ASSUME NEW t \in Tabs, Open(t)
      PROVE  Typed'
  <2>1. PICK where \in Places : Mounted(t, 0, where)
    BY <1>2, <1>n DEF Open
  <2>2. UNCHANGED owners /\ live' \subseteq live
    BY <1>2 DEF Open
  <2>3. TabsTyped' /\ store' \in 0..Len(owners') /\ CallsTyped'
    BY <1>n, <2>1, <2>2, MountedType
  <2>4. SsoTyped'
    BY <1>2, SessionAssumption DEF Open, sso, Typed, SsoTyped
  <2> QED
    BY <1>n, <2>2, <2>3, <2>4 DEF Typed, TokensTyped
<1>3. ASSUME NEW t \in Tabs, Logout(t) \/ Refresh(t) \/ \E u \in Users : SubmitLogin(t, u)
      PROVE  Typed'
  <2>1. UNCHANGED <<store, at, user, loading, removed, late, api, sso>>
    BY <1>3 DEF Logout, Refresh, SubmitLogin
  <2>2. CallsTyped'
    BY <1>3, <1>n, SentType DEF Logout, Refresh, SubmitLogin, Kinds, api
  <2> QED
    BY <2>1, <2>2 DEF api, sso, Typed, TokensTyped, TabsTyped, SsoTyped
<1>4. ASSUME NEW t \in Tabs, StorageEvent(t)
      PROVE  Typed'
  BY <1>4 DEF StorageEvent, HideUser, api, sso, Typed, TokensTyped, CallsTyped, TabsTyped, SsoTyped
<1>5. ASSUME NEW t \in Tabs, Redirect(t) \/ BackToSignIn(t) \/ \E s \in Sections : Navigate(t, s)
      PROVE  Typed'
  <2>1. UNCHANGED <<store, user, loading, removed, calls, late, api, sso>>
    BY <1>5 DEF Redirect, BackToSignIn, Navigate
  <2>2. \E where \in Places : at' = [at EXCEPT ![t] = where]
    BY <1>5, <1>n DEF Redirect, BackToSignIn, Navigate
  <2> QED
    BY <2>1, <2>2 DEF api, sso, Typed, TokensTyped, CallsTyped, TabsTyped, SsoTyped
<1>6. ASSUME NEW t \in Tabs, NEW where \in Places, Unload(t, where), UNCHANGED <<store, owners, live>>
      PROVE  TokensTyped' /\ CallsTyped' /\ TabsTyped'
  BY <1>6 DEF Unload, HideUser, Typed, TokensTyped, CallsTyped, TabsTyped
<1>7. ASSUME NEW t \in Tabs, StartSso(t)
      PROVE  Typed'
  <2>1. SsoTyped'
    BY <1>7, SessionAssumption DEF StartSso, NewFlow, api, Typed, SsoTyped
  <2> QED
    BY <1>6, <1>7, <1>n, <2>1 DEF StartSso, NewFlow, api, Typed
<1>8. ASSUME NEW t \in Tabs, Mounted(t, 0, "login"), UNCHANGED <<owners, live>>
      PROVE  TokensTyped' /\ CallsTyped' /\ TabsTyped'
  BY <1>8, <1>n, MountedType DEF Typed, TokensTyped
<1>9. ASSUME NEW t \in Tabs, Callback(t)
      PROVE  Typed'
  <2>1. SsoTyped'
    BY <1>9, SessionAssumption DEF Callback, Fail, Typed, SsoTyped
  <2> QED
    BY <1>6, <1>8, <1>9, <1>n, <2>1 DEF Callback, Fail, Typed
<1>10. ASSUME NEW t \in Tabs, CallbackEnds(t)
       PROVE  Typed'
  <2>1. SsoTyped'
    BY <1>10, SessionAssumption DEF CallbackEnds, CodeExchanged, ExchangeFails, Fail, Typed, SsoTyped
  <2>2. ASSUME NEW u \in Users, Issue(u), Mounted(t, Len(owners) + 1, "bridge")
        PROVE  TokensTyped' /\ CallsTyped' /\ TabsTyped'
    <3>1. /\ owners' \in Seq(Users) /\ Len(owners') = Len(owners) + 1 /\ Len(owners') <= MaxTokens
          /\ live' \subseteq 1..Len(owners')
      BY <2>2, IssueType DEF Typed
    <3>2. TabsTyped' /\ store' \in 0..Len(owners') /\ CallsTyped'
      BY <1>n, <2>2, <3>1, MountedType
    <3> QED
      BY <3>1, <3>2 DEF TokensTyped
  <2> QED
    BY <1>8, <1>10, <2>1, <2>2 DEF CallbackEnds, CodeExchanged, ExchangeFails, Fail, Typed
<1>11. ASSUME NEW c \in calls, Serve(c)
       PROVE  Typed'
  <2>1. CallsTyped' /\ TokensTyped'
    BY <1>11, <1>n, Served, CallLater DEF Typed, CallsTyped, TokensTyped
  <2> QED
    BY <1>11, <2>1 DEF Serve, sso, Typed, TabsTyped, SsoTyped
<1>12. ASSUME NEW c \in calls, Break(c)
       PROVE  Typed'
  <2>1. CallsTyped'
    BY <1>12, Broken DEF Break, Typed, CallsTyped
  <2>2. SsoTyped'
    BY <1>12, SessionAssumption DEF Break, sso, Typed, SsoTyped
  <2> QED
    BY <1>12, <2>1, <2>2 DEF Break, Typed, TokensTyped, TabsTyped
<1>13. ASSUME NEW k \in live, Expire(k)
       PROVE  Typed'
  BY <1>13 DEF Expire, sso, Typed, TokensTyped, CallsTyped, TabsTyped, SsoTyped
<1>14. CASE CookiesExpire
  BY <1>14, SessionAssumption
  DEF CookiesExpire, api, Typed, TokensTyped, CallsTyped, TabsTyped, SsoTyped
<1> QED
  BY <1>1, <1>2, <1>3, <1>4, <1>5, <1>7, <1>9, <1>10, <1>11, <1>12, <1>13, <1>14, ApplyType DEF Next

\* The invariant of the types holds throughout.
LEMMA TypedAlways == Spec => []Typed
<1>1. Init => Typed
  BY SessionAssumption
  DEF Init, Typed, TokensTyped, CallsTyped, TabsTyped, SsoTyped, Places
<1> QED
  BY <1>1, TypeStep, PTL DEF Spec

\* Every variable keeps its type; no tab shows a user that is no account.
THEOREM TypeCorrect == Spec => []TypeOK
<1>1. Typed => TypeOK
  BY SessionAssumption
  DEF Typed, TokensTyped, CallsTyped, IsCall, TabsTyped, SsoTyped, Places, TypeOK, Tokens
<1> QED
  BY <1>1, TypedAlways, PTL

(***************************************************************************)
(* Loading, and users without a token                                      *)
(***************************************************************************)

\* Only the application has requests in flight and shows a user; and
\* LoadingIsAwaited, TokenlessTabIsExplained.
TabInv ==
  /\ \A c \in calls : InApp(c.tab)
  /\ \A t \in Tabs : user[t] # NoUser => InApp(t)
  /\ LoadingIsAwaited
  /\ TokenlessTabIsExplained

\* A tab that leaves the application leaves nothing behind.
LEMMA UnloadTab ==
  ASSUME Typed, TabInv, NEW t \in Tabs, NEW where \in {"provider", "callback"}, Unload(t, where),
         UNCHANGED store
  PROVE  TabInv'
<1>1. /\ at' = [at EXCEPT ![t] = where] /\ user' = [user EXCEPT ![t] = NoUser]
      /\ late' = late \ {t} /\ removed' = removed \ {t} /\ calls' = calls \ CallsOf(t)
      /\ loading' = [loading EXCEPT ![t] = TRUE]
  BY DEF Unload, HideUser
<1>2. ~InApp(t)' /\ \A o \in Tabs \ {t} : /\ InApp(o)' <=> InApp(o)
                                         /\ user'[o] = user[o] /\ loading'[o] = loading[o]
  BY <1>1, SessionAssumption DEF InApp, Typed, TabsTyped
<1>3. \A c \in calls' : c \in calls /\ c.tab \in Tabs \ {t}
  BY <1>1 DEF CallsOf, Typed, CallsTyped, IsCall, Call
<1>4. \A c \in calls' : InApp(c.tab)'
  BY <1>2, <1>3 DEF TabInv
<1>5. user'[t] = NoUser
  BY <1>1 DEF Typed, TabsTyped
<1>6. \A o \in Tabs : user'[o] # NoUser => InApp(o)'
  BY <1>2, <1>5 DEF TabInv
<1>7. LoadingIsAwaited'
  <2>1. \A o \in Tabs \ {t} : CallsOf(o)' = CallsOf(o)
    BY <1>1 DEF CallsOf
  <2> QED
    BY <1>2, <2>1 DEF TabInv, LoadingIsAwaited
<1>8. TokenlessTabIsExplained'
  BY <1>1, <1>2, <1>5 DEF TabInv, TokenlessTabIsExplained
<1> QED
  BY <1>4, <1>6, <1>7, <1>8 DEF TabInv

\* A page that is loaded awaits its session, or finds no token.
LEMMA MountedTab ==
  ASSUME Typed, TabInv, NEW t \in Tabs, NEW where \in Sections \cup {"login", "bridge"}, NEW k,
         Mounted(t, k, where), k = 0 \/ store' # 0
  PROVE  TabInv'
<1> DEFINE restore == [tab |-> t, kind |-> "restore", token |-> store', who |-> NoUser, ans |-> "none"]
           apply == [tab |-> t, kind |-> "applySession", token |-> store', who |-> NoUser, ans |-> "none"]
<1>1. /\ at' = [at EXCEPT ![t] = where] /\ user' = [user EXCEPT ![t] = NoUser]
      /\ late' = late \ {t} /\ removed' = removed \ {t}
      /\ loading' = [loading EXCEPT ![t] = (store' # 0)]
      /\ store' # 0 \/ store' = store
  BY DEF Mounted
<1>2. calls' = (calls \ CallsOf(t)) \cup (IF store' = 0 THEN {} ELSE {restore})
                                    \cup (IF k = 0 THEN {} ELSE {apply})
  BY DEF Mounted
<1>3. InApp(t)' /\ \A o \in Tabs \ {t} : /\ InApp(o)' <=> InApp(o)
                                        /\ user'[o] = user[o] /\ loading'[o] = loading[o]
  BY <1>1 DEF InApp, Typed, TabsTyped
<1>4. restore.tab = t /\ restore.kind = "restore" /\ apply.tab = t
  OBVIOUS
<1> HIDE DEF restore, apply
<1>5. \A c \in calls' : InApp(c.tab)'
  BY <1>2, <1>3, <1>4 DEF TabInv, CallsOf, Typed, CallsTyped, IsCall, Call
<1>6. user'[t] = NoUser
  BY <1>1 DEF Typed, TabsTyped
<1>7. \A o \in Tabs : user'[o] # NoUser => InApp(o)'
  BY <1>3, <1>6 DEF TabInv
<1>8. LoadingIsAwaited'
  <2>1. \A o \in Tabs \ {t} : CallsOf(o) \subseteq CallsOf(o)'
    BY <1>2 DEF CallsOf
  <2>2. loading'[t] => restore \in CallsOf(t)'
    BY <1>1, <1>2, <1>4 DEF CallsOf, Typed, TabsTyped
  <2>3. ASSUME NEW o \in Tabs, InApp(o)', loading'[o]
        PROVE  \E c \in CallsOf(o)' : c.kind = "restore"
    BY <1>3, <1>4, <2>1, <2>2, <2>3 DEF TabInv, LoadingIsAwaited
  <2> QED
    BY <2>3 DEF LoadingIsAwaited
<1>9. TokenlessTabIsExplained'
  BY <1>1, <1>3, <1>6 DEF TabInv, TokenlessTabIsExplained
<1> QED
  BY <1>5, <1>7, <1>8, <1>9 DEF TabInv

\* What a step owes the tabs when none enters or leaves the application.
LEMMA KeepTabs ==
  ASSUME TabInv,
         \A t \in Tabs : InApp(t)' <=> InApp(t),
         \A q \in calls' : q.tab \in Tabs /\ InApp(q.tab),
         \A c \in calls : c.kind = "restore" /\ c.tab \in Tabs /\ loading'[c.tab] =>
                          \E q \in calls' : q.tab = c.tab /\ q.kind = "restore",
         \A t \in Tabs : loading'[t] => loading[t],
         \A t \in Tabs : user'[t] # NoUser => InApp(t),
         store' = 0 => \A t \in Tabs : user'[t] # NoUser => t \in removed' \cup late'
  PROVE  TabInv'
<1>1. LoadingIsAwaited'
  <2>1. ASSUME NEW t \in Tabs, InApp(t)', loading'[t]
        PROVE  \E c \in CallsOf(t)' : c.kind = "restore"
    <3>1. PICK c \in CallsOf(t) : c.kind = "restore"
      BY <2>1 DEF TabInv, LoadingIsAwaited
    <3> QED
      BY <2>1, <3>1 DEF CallsOf
  <2> QED
    BY <2>1 DEF LoadingIsAwaited
<1>2. TokenlessTabIsExplained'
  BY DEF TokenlessTabIsExplained
<1> QED
  BY <1>1, <1>2 DEF TabInv

\* Applying an answer.
LEMMA ApplyTab ==
  ASSUME Typed, TabInv, NEW c \in calls, Apply(c)
  PROVE  TabInv'
<1> DEFINE t == c.tab
<1>1. t \in Tabs /\ InApp(t) /\ (c.ans = "ok" => c.token # 0)
  BY DEF Typed, CallsTyped, IsCall, Call, TabInv
<1> HIDE DEF t
<1>2. \A o \in Tabs : InApp(o)' <=> InApp(o)
  <2>1. at' = at \/ at' = [at EXCEPT ![t] = "dashboard"]
    BY DEF Apply, ApplyRestore, ApplyLogin, ApplyLoginMe, ApplyLogout, ApplyRefresh,
           ApplySession, t
  <2> QED
    BY <1>1, <2>1, SessionAssumption DEF InApp, Typed, TabsTyped
<1>3. \A q \in calls' : q.tab \in Tabs /\ InApp(q.tab)
  <2>1. ASSUME NEW q \in calls'
        PROVE  q \in calls \/ q.tab = t
    BY <2>1
    DEF Apply, ApplyRestore, ApplyLogin, ApplyLoginMe, ApplyLogout, ApplyRefresh,
        ApplySession, Send, t
  <2> QED
    BY <1>1, <2>1 DEF TabInv, Typed, CallsTyped, IsCall, Call
<1>4. calls \ {c} \subseteq calls'
  BY DEF Apply, ApplyRestore, ApplyLogin, ApplyLoginMe, ApplyLogout, ApplyRefresh,
         ApplySession, Send
<1>5. IF c.kind = "restore" THEN loading' = [loading EXCEPT ![t] = FALSE] ELSE loading' = loading
  BY DEF Apply, ApplyRestore, ApplyLogin, ApplyLoginMe, ApplyLogout, ApplyRefresh,
         ApplySession, Loaded, t
<1>6. /\ \A d \in calls : d.kind = "restore" /\ d.tab \in Tabs /\ loading'[d.tab] =>
                          \E q \in calls' : q.tab = d.tab /\ q.kind = "restore"
      /\ \A o \in Tabs : loading'[o] => loading[o]
  BY <1>1, <1>4, <1>5 DEF Typed, TabsTyped, t
<1>7. \A o \in Tabs \ {t} : user'[o] = user[o]
  <2>1. user' = user \/ \E u : user' = [user EXCEPT ![t] = u]
    BY DEF Apply, ApplyRestore, ApplyLogin, ApplyLoginMe, ApplyLogout, ApplyRefresh,
           ApplySession, ShowUser, HideUser, t
  <2> QED
    BY <2>1 DEF Typed, TabsTyped
<1>8. \A o \in Tabs : user'[o] # NoUser => InApp(o)
  BY <1>1, <1>7 DEF TabInv
<1>9. ASSUME store' = 0, NEW o \in Tabs, user'[o] # NoUser
      PROVE  o \in removed' \cup late'
  <2>1. CASE ShowUser(c) /\ c.ans = "ok" /\ UNCHANGED <<store, removed>>
    BY <1>1, <1>7, <1>9, <2>1 DEF ShowUser, TabInv, TokenlessTabIsExplained, t
  <2>2. ASSUME ClearTokenIn(t), late \ {t} \subseteq late',
               user'[t] # NoUser => t \in late'
        PROVE  o \in removed' \cup late'
    BY <1>7, <1>9, <2>2 DEF ClearTokenIn, TabInv, TokenlessTabIsExplained
  <2>3. CASE ClearTokenIn(t) /\ HideUser(t)
    BY <1>1, <2>2, <2>3 DEF HideUser, Typed, TabsTyped
  <2>4. CASE /\ ClearTokenIn(t) /\ UNCHANGED user
             /\ late' = IF user[t] = NoUser THEN late ELSE late \cup {t}
    BY <2>2, <2>4
  <2>5. CASE UNCHANGED <<store, user, removed, late>>
    BY <1>9, <2>5 DEF TabInv, TokenlessTabIsExplained
  <2>6. CASE store' = c.token /\ c.ans = "ok"
    BY <1>1, <1>9, <2>6
  <2> QED
    BY <2>1, <2>3, <2>4, <2>5, <2>6
    DEF Apply, ApplyRestore, ApplyLogin, ApplyLoginMe, ApplyLogout, ApplyRefresh, ApplySession, t
<1> QED
  BY <1>2, <1>3, <1>6, <1>8, <1>9, KeepTabs

\* Every step keeps what is said of the tabs.
LEMMA TabStep ==
  ASSUME Typed, TabInv, [Next]_vars
  PROVE  TabInv'
<1>c. \A c \in calls : c.tab \in Tabs /\ InApp(c.tab)
  BY DEF Typed, CallsTyped, IsCall, Call, TabInv
<1>k. ASSUME UNCHANGED <<store, user, loading, removed, late>>,
             \A t \in Tabs : InApp(t)' <=> InApp(t),
             \A q \in calls' : q.tab \in Tabs /\ InApp(q.tab),
             \A c \in calls : \E q \in calls' : q.tab = c.tab /\ q.kind = c.kind
      PROVE  TabInv'
  <2>1. \A c \in calls : c.kind = "restore" /\ c.tab \in Tabs /\ loading'[c.tab] =>
          \E q \in calls' : q.tab = c.tab /\ q.kind = "restore"
    BY <1>k
  <2>2. /\ \A t \in Tabs : loading'[t] => loading[t]
        /\ \A t \in Tabs : user'[t] # NoUser => InApp(t)
        /\ store' = 0 => \A t \in Tabs : user'[t] # NoUser => t \in removed' \cup late'
    BY <1>k DEF TabInv, TokenlessTabIsExplained
  <2> QED
    BY <1>k, <2>1, <2>2, KeepTabs
<1>1. ASSUME NEW t \in Tabs, Logout(t) \/ Refresh(t) \/ \E u \in Users : SubmitLogin(t, u)
      PROVE  TabInv'
  <2>1. InApp(t) /\ UNCHANGED at
    BY <1>1, SessionAssumption DEF Logout, Refresh, SubmitLogin, InApp, Typed, TabsTyped, Places
  <2>2. calls \subseteq calls' /\ \A q \in calls' : q \in calls \/ q.tab = t
    BY <1>1 DEF Logout, Refresh, SubmitLogin, Send
  <2> QED
    BY <1>1, <1>c, <1>k, <2>1, <2>2 DEF Logout, Refresh, SubmitLogin, InApp
<1>2. ASSUME NEW t \in Tabs, StorageEvent(t)
      PROVE  TabInv'
  <2>1. /\ user' = [user EXCEPT ![t] = NoUser] /\ removed' = removed \ {t} /\ late' = late \ {t}
        /\ UNCHANGED <<store, at, loading, calls>>
    BY <1>2 DEF StorageEvent, HideUser
  <2>2. \A o \in Tabs : user'[o] # NoUser => o # t /\ user[o] # NoUser
    BY <2>1 DEF Typed, TabsTyped
  <2>3. store' = 0 => \A o \in Tabs : user'[o] # NoUser => o \in removed' \cup late'
    BY <2>1, <2>2 DEF TabInv, TokenlessTabIsExplained
  <2> QED
    BY <1>c, <2>1, <2>2, <2>3, KeepTabs DEF TabInv, InApp
<1>3. ASSUME NEW t \in Tabs, Redirect(t) \/ BackToSignIn(t) \/ \E s \in Sections : Navigate(t, s)
      PROVE  TabInv'
  <2>1. InApp(t) /\ \E where \in Sections \cup {"login"} : at' = [at EXCEPT ![t] = where]
    BY <1>3, SessionAssumption
    DEF Redirect, RoleLayouts, BackToSignIn, Navigate, InApp, Typed, TabsTyped, Places
  <2>2. \A o \in Tabs : InApp(o)' <=> InApp(o)
    BY <2>1 DEF InApp, Typed, TabsTyped
  <2>3. UNCHANGED <<store, user, loading, removed, calls, late>>
    BY <1>3 DEF Redirect, BackToSignIn, Navigate
  <2> QED
    BY <1>c, <1>k, <2>2, <2>3
<1>4. ASSUME NEW c \in calls, Serve(c) \/ Break(c)
      PROVE  TabInv'
  <2>1. PICK q : calls' = (calls \ {c}) \cup {q} /\ q.tab = c.tab /\ q.kind = c.kind
    BY <1>4, Served, Broken DEF Answered
  <2>2. UNCHANGED <<store, user, loading, removed, late, at>>
    BY <1>4 DEF Serve, Break
  <2> QED
    BY <1>c, <1>k, <2>1, <2>2 DEF InApp
<1>5. ASSUME NEW t \in Tabs, Open(t)
      PROVE  TabInv'
  BY <1>5, MountedTab DEF Open
<1>6. ASSUME NEW t \in Tabs, StartSso(t)
      PROVE  TabInv'
  BY <1>6, UnloadTab DEF StartSso
<1>7. ASSUME NEW t \in Tabs, Callback(t)
      PROVE  TabInv'
  BY <1>7, UnloadTab, MountedTab DEF Callback, Fail
<1>8. ASSUME NEW t \in Tabs, CallbackEnds(t)
      PROVE  TabInv'
  <2>1. ASSUME Mounted(t, Len(owners) + 1, "bridge")
        PROVE  TabInv'
    <3>1. Len(owners) + 1 # 0
      BY DEF Typed, TokensTyped
    <3>2. store' # 0
      BY <2>1, <3>1 DEF Mounted
    <3> QED
      BY <2>1, <3>2, MountedTab
  <2> QED
    BY <1>8, <2>1, MountedTab DEF CallbackEnds, CodeExchanged, ExchangeFails, Fail
<1>9. ASSUME UNCHANGED <<store, user, loading, removed, late, at, calls>>
      PROVE  TabInv'
  BY <1>9, <1>c, <1>k DEF InApp
<1> QED
  BY <1>1, <1>2, <1>3, <1>4, <1>5, <1>6, <1>7, <1>8, <1>9, ApplyTab
  DEF Next, vars, Expire, CookiesExpire

\* TabInv is an invariant.
LEMMA TabAlways == Spec => []TabInv
<1>1. Init => TabInv
  BY SessionAssumption DEF Init, TabInv, LoadingIsAwaited, TokenlessTabIsExplained, InApp
<1>2. Typed /\ TabInv /\ [Next]_vars => TabInv'
  BY TabStep
<1> QED
  BY <1>1, <1>2, TypedAlways, PTL DEF Spec

\* A tab that shows "Loading..." has the request that ends it under way.
THEOREM NoTabLoadsForGood == Spec => []LoadingIsAwaited
  BY TabAlways, PTL DEF TabInv

\* A tab that shows a user although the store is empty will be told of it, or
\* applied an answer that came too late.
THEOREM TokenlessTabsAreExplained == Spec => []TokenlessTabIsExplained
  BY TabAlways, PTL DEF TabInv

(***************************************************************************)
(* Sessions are not dropped                                                *)
(***************************************************************************)

\* A 401, and a confirmed sign-out, is about a session that is over.
AnswersInv ==
  \A c \in calls : c.ans = "401" \/ (c.ans = "ok" /\ c.kind = "logout") => c.token \notin live

\* Every step keeps such an answer about a session that is over.
LEMMA AnswersStep ==
  ASSUME Typed, AnswersInv, [Next]_vars
  PROVE  AnswersInv'
<1>n. /\ Len(owners) \in Nat /\ Len(owners) + 1 \notin 0..Len(owners)
      /\ \A c \in calls : c.token \in 0..Len(owners)
  BY DEF Typed, TokensTyped, CallsTyped, IsCall
<1>1. ASSUME \A q \in calls' : q \in calls \/ q.ans \in {"none", "error"},
             live' \subseteq live \cup {Len(owners) + 1}
      PROVE  AnswersInv'
  BY <1>1, <1>n DEF AnswersInv
<1>2. ASSUME NEW c \in calls, Serve(c)
      PROVE  AnswersInv'
  <2>1. live' \subseteq live \cup {Len(owners) + 1}
    BY <1>2, Served
  <2>2. PICK q : calls' = (calls \ {c}) \cup {q} /\ Answered(c, q)
    BY <1>2, Served
  <2> QED
    BY <1>n, <2>1, <2>2 DEF AnswersInv, Answered
<1>3. ASSUME NEW c \in calls, Break(c)
      PROVE  AnswersInv'
  <2>1. \E q : calls' = (calls \ {c}) \cup {q} /\ q.ans = "error"
    BY <1>3, Broken
  <2> QED
    BY <1>1, <1>3, <2>1 DEF Break
<1>4. ASSUME NEW t, NEW k, NEW where, Mounted(t, k, where), live' \subseteq live \cup {Len(owners) + 1}
      PROVE  AnswersInv'
  <2>1. ASSUME NEW q \in calls', q \notin calls
        PROVE  q.ans = "none"
    BY <1>4, <2>1 DEF Mounted
  <2> QED
    BY <1>1, <1>4, <2>1
<1>5. ASSUME NEW t \in Tabs, Open(t) \/ Callback(t) \/ CallbackEnds(t)
      PROVE  AnswersInv'
  <2>1. CASE Unload(t, "callback") /\ live' = live
    BY <1>1, <2>1 DEF Unload
  <2> QED
    BY <1>4, <1>5, <2>1 DEF Open, Callback, CallbackEnds, CodeExchanged, ExchangeFails,
           Fail, Issue
<1>6. ASSUME NEW t \in Tabs, Logout(t) \/ Refresh(t) \/ \E u \in Users : SubmitLogin(t, u)
      PROVE  AnswersInv'
  BY <1>1, <1>6 DEF Logout, Refresh, SubmitLogin, Send, api
<1>7. ASSUME NEW t \in Tabs, StartSso(t)
      PROVE  AnswersInv'
  BY <1>1, <1>7 DEF StartSso, NewFlow, Unload, api
<1>8. ASSUME NEW c \in calls, Apply(c)
      PROVE  AnswersInv'
  BY <1>1, <1>8
  DEF Apply, ApplyRestore, ApplyLogin, ApplyLoginMe, ApplyLogout, ApplyRefresh, ApplySession,
      Send, api
<1>9. ASSUME UNCHANGED calls, live' \subseteq live
      PROVE  AnswersInv'
  BY <1>1, <1>9
<1> QED
  BY <1>2, <1>3, <1>5, <1>6, <1>7, <1>8, <1>9
  DEF Next, vars, api, StorageEvent, Redirect, BackToSignIn, Navigate, Expire, CookiesExpire

\* A stored token whose session is alive is removed only by an answer to
\* another token, or by the me() of a page load that got no answer.
THEOREM LiveSessionsAreKept == Spec => SessionNotDropped
<1>1. Init => AnswersInv
  BY DEF Init, AnswersInv
<1>2. Typed /\ AnswersInv /\ [Next]_vars => AnswersInv'
  BY AnswersStep
<1>3. Typed /\ AnswersInv /\ [Next]_vars =>
        [(store \in live /\ store' = 0)
           => \E c \in calls \ calls' :
                (c.token # store \/ (c.ans = "error" /\ c.kind \in {"restore", "applySession"}))]_vars
  <2> SUFFICES ASSUME Typed, AnswersInv, Next, store \in live, store' = 0
               PROVE  \E c \in calls \ calls' :
                 (c.token # store \/ (c.ans = "error" /\ c.kind \in {"restore", "applySession"}))
    OBVIOUS
  <2>1. store # 0
    BY DEF Typed, TokensTyped
  <2>2. \A t, k, where : ~Mounted(t, k, where) \/ k # 0
    BY <2>1 DEF Mounted
  <2>3. \E c \in calls : Apply(c)
    <3>1. \A t : ~Mounted(t, Len(owners) + 1, "bridge")
      <4>1. Len(owners) + 1 # 0
        BY DEF Typed, TokensTyped
      <4> QED
        BY <4>1 DEF Mounted
    <3> QED
      BY <2>1, <2>2, <3>1
      DEF Next, Open, Logout, Refresh, StorageEvent, Redirect, BackToSignIn, StartSso, Callback,
          CallbackEnds, CodeExchanged, ExchangeFails, Fail, SubmitLogin, Navigate,
          Serve, Break, Expire, CookiesExpire
  <2>4. PICK c \in calls : Apply(c)
    BY <2>3
  <2>5. c.ans \in {"ok", "401", "error"} /\ (c.ans = "ok" => c.token # 0)
    BY <2>4 DEF Apply, Typed, CallsTyped, IsCall, Call
  <2>6. calls' = calls \ {c}
    BY <2>1, <2>4, <2>5
    DEF Apply, ApplyRestore, ApplyLogin, ApplyLoginMe, ApplyLogout, ApplyRefresh, ApplySession
  <2>7. \/ c.kind \in {"restore", "applySession"} /\ c.ans # "ok"
        \/ c.kind = "logout" /\ c.ans = "ok"
        \/ c.ans = "401"
    BY <2>1, <2>4, <2>5
    DEF Apply, ApplyRestore, ApplyLogin, ApplyLoginMe, ApplyLogout, ApplyRefresh, ApplySession,
        SignsOut
  <2> QED
    BY <2>5, <2>6, <2>7 DEF AnswersInv
<1> QED
  BY <1>1, <1>2, <1>3, TypedAlways, PTL DEF Spec, SessionNotDropped

=============================================================================
