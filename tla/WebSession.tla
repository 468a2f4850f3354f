----------------------------- MODULE WebSession -----------------------------
(***************************************************************************)
(* Who is signed in to the web client: the tabs of one browser, the token  *)
(* they share in localStorage (web/src/lib/api.ts), the AuthProvider of    *)
(* each tab (contexts/auth.tsx), the OIDC flow through the routes          *)
(* app/api/auth/oidc/{login,callback}, the bridge page that adopts its     *)
(* token, and the layouts that admit a role or send the tab elsewhere.     *)
(*                                                                         *)
(* A request is three steps: the tab sends it with the token that is in    *)
(* the store at that moment, the API answers it, the tab applies the       *)
(* answer.  Anything may happen in between, in this tab and in the others. *)
(* A token stands for its provider session: it is accepted while that      *)
(* session lives (api/app/middleware/auth.py, external to the client).     *)
(* Effects of a child run before those of its parent, so the bridge page   *)
(* stores its token before the AuthProvider looks for one.                 *)
(***************************************************************************)
EXTENDS Naturals, Sequences, FiniteSets

CONSTANTS
  Tabs,       \* tabs of the browser
  Sections,   \* parts of the application that tabs visit
  Users,      \* accounts, one for a role and named by it
  NoUser,     \* nobody is shown as signed in
  MaxTokens,  \* bound on the sessions that are issued
  MaxFlows,   \* bound on the OIDC flows that are started
  MaxCalls,   \* bound on the requests in flight
  MaxLoads,   \* bound on the pages that are opened or reloaded
  MaxErrors,  \* bound on the requests that fail without an answer
  Configured  \* ssoConfigured()

Roles == {"JAS_Developer", "JAS-Staff", "JAS-Faculty"}

ASSUME SessionAssumption ==
  /\ Sections \subseteq {"dashboard", "settings", "staff", "faculty", "admin"}
  /\ "dashboard" \in Sections
  /\ Users \subseteq Roles /\ NoUser \notin Users
  /\ MaxTokens \in Nat /\ MaxFlows \in Nat /\ MaxCalls \in Nat
  /\ MaxErrors \in Nat /\ MaxLoads \in Nat
  /\ Configured \in BOOLEAN

VARIABLES
  store,     \* localStorage "tbd_token": a token, 0 without one
  owners,    \* the account of every token the API has issued
  live,      \* the tokens whose provider session is alive
  at,        \* where each tab is
  user,      \* AuthProvider: user
  loading,   \* AuthProvider: loading
  removed,   \* tabs that have a storage event of a removal to handle
  calls,     \* requests in flight
  cookie,    \* the OIDC flow of the cookies oidc_state, _verifier, _nonce; 0 without
  flow,      \* the flow whose state a tab carries
  flows,     \* flows started
  errors,    \* requests that have failed without an answer
  late,      \* history: tabs that showed a user from an answer to another token,
             \* or that lost the token under a user they show
  loads      \* pages loaded by hand

vars == <<store, owners, live, at, user, loading, removed, calls, cookie, flow,
          flows, errors, late, loads>>
sso  == <<cookie, flow, flows>>
api  == <<owners, live, errors, loads>>

Kinds    == {"restore", "login", "loginMe", "refresh", "applySession", "logout"}
Tokens   == 1..MaxTokens
Call     == [tab : Tabs, kind : Kinds, token : 0..MaxTokens, who : Users \cup {NoUser},
             ans : {"none", "ok", "401", "error"}]

TypeOK ==
  /\ store \in 0..MaxTokens
  /\ owners \in Seq(Users) /\ Len(owners) <= MaxTokens
  /\ live \subseteq Tokens
  /\ at \in [Tabs -> Sections \cup {"closed", "login", "bridge", "provider", "callback"}]
  /\ user \in [Tabs -> Users \cup {NoUser}]
  /\ loading \in [Tabs -> BOOLEAN]
  /\ removed \subseteq Tabs
  /\ calls \subseteq Call
  /\ cookie \in 0..MaxFlows
  /\ flow \in [Tabs -> 0..MaxFlows]
  /\ flows \in 0..MaxFlows
  /\ errors \in 0..MaxErrors
  /\ late \subseteq Tabs
  /\ loads \in 0..MaxLoads

Init ==
  /\ store = 0 /\ owners = <<>> /\ live = {}
  /\ at = [t \in Tabs |-> "closed"]
  /\ user = [t \in Tabs |-> NoUser]
  /\ loading = [t \in Tabs |-> TRUE]
  /\ removed = {} /\ calls = {}
  /\ cookie = 0 /\ flow = [t \in Tabs |-> 0] /\ flows = 0
  /\ errors = 0 /\ late = {} /\ loads = 0

-----------------------------------------------------------------------------
\* The stored token and the requests of lib/api.ts

InApp(t) == at[t] \in Sections \cup {"login", "bridge"}

CallsOf(t) == {c \in calls : c.tab = t}

\* One request of a kind at a time in a tab.
Send(t, kind, token, who, others) ==
  /\ Cardinality(others) < MaxCalls
  /\ calls' = others \cup {[tab |-> t, kind |-> kind, token |-> token, who |-> who,
                            ans |-> "none"]}

\* clearToken(): the other tabs are told when there was a token to remove, and
\* this tab may be left showing a user.
ClearTokenIn(t) ==
  /\ store' = 0
  /\ removed' = IF store = 0 THEN removed
                ELSE removed \cup {o \in Tabs \ {t} : InApp(o)}

\* setUser(me) and setUser(null)
ShowUser(c) ==
  /\ user' = [user EXCEPT ![c.tab] = owners[c.token]]
  /\ late' = IF store = c.token THEN late \ {c.tab} ELSE late \cup {c.tab}

\* Mutant: an empty user in place of none.
EmptyUser(t) ==
  /\ user' = [user EXCEPT ![t] = ""]
  /\ late' = late \ {t}

HideUser(t) ==
  /\ user' = [user EXCEPT ![t] = NoUser]
  /\ late' = late \ {t}

\* The application of a tab is unloaded, its requests with it.
Unload(t, where) ==
  /\ at' = [at EXCEPT ![t] = where]
  /\ HideUser(t)
  /\ loading' = [loading EXCEPT ![t] = TRUE]
  /\ calls' = calls \ CallsOf(t)
  /\ removed' = removed \ {t}

Issue(u) ==
  /\ Len(owners) < MaxTokens
  /\ owners' = Append(owners, u)
  /\ live' = live \cup {Len(owners) + 1}

\* The API answers a request: 401 for a token that is not accepted, or no
\* token; a logout ends the session of its token, accepted or not; a login
\* issues a token.
Serve(c) ==
  /\ c \in calls /\ c.ans = "none"
  /\ CASE c.kind = "login" ->
            /\ Issue(c.who)
            /\ calls' = (calls \ {c})
                 \cup {[c EXCEPT !.ans = "ok", !.token = Len(owners) + 1]}
       [] c.kind = "logout" ->
            /\ live' = live \ {c.token}
            /\ calls' = (calls \ {c})
                 \cup {[c EXCEPT !.ans = IF c.token = 0 THEN "401" ELSE "ok"]}
            /\ UNCHANGED owners
       [] OTHER ->
            /\ calls' = (calls \ {c})
                 \cup {[c EXCEPT !.ans = IF c.token \in live THEN "ok" ELSE "401"]}
            /\ UNCHANGED <<owners, live>>
  /\ UNCHANGED <<store, at, user, loading, removed, errors, late, loads, sso>>

\* The connection breaks or the API answers 5xx.
Break(c) ==
  /\ c \in calls /\ c.ans = "none" /\ errors < MaxErrors
  /\ calls' = (calls \ {c}) \cup {[c EXCEPT !.ans = "error"]}
  /\ errors' = errors + 1
  /\ UNCHANGED <<store, owners, live, at, user, loading, removed, late, loads, sso>>

\* A provider session ends elsewhere, or its token expires.
Expire(k) ==
  /\ k \in live
  /\ live' = live \ {k}
  /\ UNCHANGED <<store, owners, at, user, loading, removed, calls, errors, late, loads, sso>>

-----------------------------------------------------------------------------
\* AuthProvider

\* The effect that runs when the application is loaded in a tab; k is the
\* token the page just loaded has stored before it (the bridge page), or 0.
Mounted(t, k, where) ==
  LET token  == IF k = 0 THEN store ELSE k
      me(kd) == [tab |-> t, kind |-> kd, token |-> token, who |-> NoUser, ans |-> "none"]
  IN  /\ at' = [at EXCEPT ![t] = where]
      /\ user' = [user EXCEPT ![t] = NoUser]
      /\ loading' = [loading EXCEPT ![t] = token # 0]
      /\ store' = token
      /\ calls' = (calls \ CallsOf(t))
           \cup (IF token = 0 THEN {} ELSE {me("restore")})
           \cup (IF k = 0 THEN {} ELSE {me("applySession")})
      /\ Cardinality(calls') <= MaxCalls
      /\ removed' = removed \ {t}
      /\ late' = late \ {t}

\* A page is opened or reloaded; a logout the page had sent may still arrive.
Open(t) ==
  /\ at[t] \in Sections \cup {"closed", "login"}
  /\ loads < MaxLoads /\ loads' = loads + 1
  /\ \E where \in Sections \cup {"login"} : Mounted(t, 0, where)
  /\ \E gone \in {{}, {c.token : c \in {d \in CallsOf(t) : d.kind = "logout"}}} :
       live' = live \ gone
  /\ UNCHANGED <<owners, errors, sso>>

\* Mutant: the loading page is only left with a user.
LoadedOnSuccess(c) ==
  loading' = [loading EXCEPT ![c.tab] = c.ans # "ok"]

Loaded(c) == loading' = [loading EXCEPT ![c.tab] = FALSE]

\* The session is restored from the stored token; any failure clears the store.
ApplyRestore(c) ==
  /\ c.kind = "restore"
  /\ Loaded(c)
  /\ IF c.ans = "ok"
     THEN /\ ShowUser(c)
          /\ UNCHANGED <<store, removed>>
     ELSE /\ ClearTokenIn(c.tab)
          /\ late' = IF user[c.tab] = NoUser THEN late ELSE late \cup {c.tab}
          /\ UNCHANGED user
  /\ calls' = calls \ {c}
  /\ UNCHANGED at

\* The form's button is disabled while login() is under way.
FormEnabled(t) == \A c \in CallsOf(t) : c.kind \notin {"login", "loginMe"}

\* login() of the form.
SubmitLogin(t, u) ==
  /\ at[t] = "login" /\ user[t] = NoUser
  /\ FormEnabled(t)
  /\ Send(t, "login", store, u, calls)
  /\ UNCHANGED <<store, at, user, loading, removed, late, api, sso>>

\* setToken(res.access_token), then me() with it.
ApplyLogin(c) ==
  /\ c.kind = "login"
  /\ IF c.ans = "ok"
     THEN /\ store' = c.token
          /\ Send(c.tab, "loginMe", c.token, NoUser, calls \ {c})
     ELSE /\ calls' = calls \ {c}
          /\ UNCHANGED store
  /\ UNCHANGED <<at, user, loading, removed, late>>

\* setUser(me) and on to the dashboard; a failure leaves the token stored.
ApplyLoginMe(c) ==
  /\ c.kind = "loginMe"
  /\ IF c.ans = "ok"
     THEN /\ ShowUser(c)
          /\ at' = [at EXCEPT ![c.tab] = "dashboard"]
     ELSE UNCHANGED <<user, at, late>>
  /\ calls' = calls \ {c}
  /\ UNCHANGED <<store, loading, removed>>

\* The sign-out button of the sidebar.
Logout(t) ==
  /\ at[t] \in Sections /\ user[t] # NoUser
  /\ \A c \in CallsOf(t) : c.kind # "logout"
  /\ Send(t, "logout", store, NoUser, calls)
  /\ UNCHANGED <<store, at, user, loading, removed, late, api, sso>>

\* Only a confirmed sign-out clears the token and the user.
ApplyLogout(c) ==
  /\ c.kind = "logout"
  /\ IF c.ans = "ok"
     THEN /\ ClearTokenIn(c.tab)
          /\ HideUser(c.tab)
     ELSE UNCHANGED <<store, removed, user, late>>
  /\ calls' = calls \ {c}
  /\ UNCHANGED <<at, loading>>

\* refreshUser(), called by the settings page after GitHub was linked or
\* unlinked.
Refresh(t) ==
  /\ at[t] = "settings" /\ user[t] # NoUser
  /\ \A c \in CallsOf(t) : c.kind # "refresh"
  /\ Send(t, "refresh", store, NoUser, calls)
  /\ UNCHANGED <<store, at, user, loading, removed, late, api, sso>>

\* Mutant: every failure of refreshUser() signs out.
SignsOutOnFailure(c) == c.ans # "ok"

SignsOut(c) == c.ans = "401"

\* refreshUser(): only a 401 signs out.
ApplyRefresh(c) ==
  /\ c.kind = "refresh"
  /\ CASE c.ans = "ok"   -> ShowUser(c) /\ UNCHANGED <<store, removed>>
       [] SignsOut(c)     -> ClearTokenIn(c.tab) /\ HideUser(c.tab)
       [] OTHER           -> UNCHANGED <<store, removed, user, late>>
  /\ calls' = calls \ {c}
  /\ UNCHANGED <<at, loading>>

\* applySession() of the bridge page: on to the page the flow was started for,
\* or the store is cleared and the page shows an error.
ApplySession(c) ==
  /\ c.kind = "applySession"
  /\ IF c.ans = "ok"
     THEN /\ ShowUser(c)
          /\ at' = [at EXCEPT ![c.tab] = "dashboard"]
          /\ UNCHANGED <<store, removed>>
     ELSE /\ ClearTokenIn(c.tab)
          /\ late' = IF user[c.tab] = NoUser THEN late ELSE late \cup {c.tab}
          /\ UNCHANGED <<user, at>>
  /\ calls' = calls \ {c}
  /\ UNCHANGED loading

Apply(c) ==
  /\ c \in calls /\ c.ans # "none"
  /\ \/ ApplyRestore(c)
     \/ ApplyLogin(c)
     \/ ApplyLoginMe(c)
     \/ ApplyLogout(c)
     \/ ApplyRefresh(c)
     \/ ApplySession(c)
  /\ UNCHANGED <<api, sso>>

\* Mutant: the tab does not listen.
StorageEventIgnored(t) ==
  /\ t \in removed
  /\ removed' = removed \ {t}
  /\ UNCHANGED <<store, at, user, loading, calls, late, api, sso>>

\* The storage event of a removal in another tab.
StorageEvent(t) ==
  /\ t \in removed
  /\ removed' = removed \ {t}
  /\ HideUser(t)
  /\ UNCHANGED <<store, at, loading, calls, api, sso>>

-----------------------------------------------------------------------------
\* Layouts, login page and sidebar

\* The sections whose layout asks for a role before it renders the shell.
RoleLayouts == {"staff", "faculty"}

Admitted(role, s) ==
  CASE s = "staff"   -> role \in {"JAS-Staff", "JAS-Faculty"}
    [] s = "faculty" -> role = "JAS-Faculty"

\* NAV_ITEMS.filter(...): the sections a role finds in the sidebar.
VisibleItems(role) ==
  {"dashboard", "settings"}
  \cup (IF role = "JAS-Staff" THEN {"staff", "admin"} ELSE {})
  \cup (IF role = "JAS-Faculty" THEN {"faculty", "admin"} ELSE {})

Navigate(t, s) ==
  /\ at[t] \in Sections /\ user[t] # NoUser /\ ~loading[t]
  /\ s \in VisibleItems(user[t]) /\ s # at[t]
  /\ at' = [at EXCEPT ![t] = s]
  /\ UNCHANGED <<store, user, loading, removed, calls, late, api, sso>>

\* The link of the bridge page's error.
BackToSignIn(t) ==
  /\ at[t] = "bridge" /\ \A c \in CallsOf(t) : c.kind # "applySession"
  /\ at' = [at EXCEPT ![t] = "login"]
  /\ UNCHANGED <<store, user, loading, removed, calls, late, api, sso>>

\* The effects that send a tab elsewhere.  AppShell sends a tab without a user
\* to the login page, but a RoleLayout returns null without a user, before it
\* renders the shell, and its own effect only runs with one.
Redirect(t) ==
  /\ \/ /\ at[t] \in Sections \ RoleLayouts /\ ~loading[t] /\ user[t] = NoUser
        /\ at' = [at EXCEPT ![t] = "login"]
     \/ /\ at[t] \in RoleLayouts /\ ~loading[t] /\ user[t] # NoUser
        /\ ~Admitted(user[t], at[t])
        /\ at' = [at EXCEPT ![t] = "dashboard"]
     \/ /\ at[t] = "login" /\ user[t] # NoUser
        /\ at' = [at EXCEPT ![t] = "dashboard"]
  /\ UNCHANGED <<store, user, loading, removed, calls, late, api, sso>>

-----------------------------------------------------------------------------
\* The OIDC flow

\* createPkcePair: the verifier, like state and nonce, is one no flow had before.
\* authorizeEndpoint falls back on the standard address, so a flow always starts.
NewFlow == flows + 1

\* GET /api/auth/oidc/login: a new flow in the cookies, on to the provider.
\* The application of the tab is unloaded.
StartSso(t) ==
  /\ at[t] = "login"
  /\ Configured /\ flows < MaxFlows
  /\ flows' = NewFlow
  /\ cookie' = NewFlow
  /\ flow' = [flow EXCEPT ![t] = NewFlow]
  /\ Unload(t, "provider")
  /\ UNCHANGED <<store, api>>

\* maxAge: 600
CookiesExpire ==
  /\ cookie # 0
  /\ cookie' = 0
  /\ UNCHANGED <<store, at, user, loading, removed, calls, late, api, flow, flows>>

\* fail(reason): back to the login page, the cookies removed.
Fail(t) ==
  /\ Mounted(t, 0, "login")
  /\ cookie' = 0

\* The provider sends the tab to the callback, with a code or an error; the
\* state has to be the one in the cookies.  The user may come back to the same
\* address later.
Callback(t) ==
  /\ at[t] \in {"provider", "login", "callback"} /\ flow[t] # 0
  /\ \/ /\ cookie = flow[t]
        /\ Unload(t, "callback")
        /\ UNCHANGED <<store, cookie, errors>>
     \/ /\ cookie # flow[t]
        /\ Fail(t)
        /\ UNCHANGED errors
     \/ /\ at[t] = "provider" /\ errors < MaxErrors
        /\ errors' = errors + 1
        /\ Fail(t)
  /\ UNCHANGED <<owners, live, flow, flows, loads>>

\* The code and then the ID token are exchanged: the session token goes to the
\* bridge page in the fragment, and the cookies are removed.
CodeExchanged(t) ==
  \E u \in Users :
    /\ Issue(u)
    /\ Mounted(t, Len(owners) + 1, "bridge")
    /\ cookie' = 0
    /\ UNCHANGED errors

\* exchangeCode throws, the ID token cannot be decoded, or the API refuses it.
ExchangeFails(t) ==
  /\ errors < MaxErrors
  /\ errors' = errors + 1
  /\ Fail(t)
  /\ UNCHANGED <<owners, live>>

CallbackEnds(t) ==
  /\ at[t] = "callback"
  /\ CodeExchanged(t) \/ ExchangeFails(t)
  /\ UNCHANGED <<flow, flows, loads>>

-----------------------------------------------------------------------------
Next ==
  \/ \E t \in Tabs :
       \/ Open(t) \/ Logout(t) \/ Refresh(t) \/ StorageEvent(t)
       \/ Redirect(t) \/ BackToSignIn(t) \/ StartSso(t) \/ Callback(t) \/ CallbackEnds(t)
       \/ \E u \in Users : SubmitLogin(t, u)
       \/ \E s \in Sections : Navigate(t, s)
  \/ \E c \in calls : Serve(c) \/ Break(c) \/ Apply(c)
  \/ \E k \in live : Expire(k)
  \/ CookiesExpire

Spec == Init /\ [][Next]_vars

-----------------------------------------------------------------------------
(* Properties *)

\* A stored token whose session is alive is removed only by the answer to
\* another token that a tab was still waiting for, or when the me() of a page
\* load or of the bridge page got no answer.  A sign-out that is not confirmed
\* and a refreshUser() that got no answer leave it alone.
SessionNotDropped ==
  [][(store \in live /\ store' = 0)
       => \E c \in calls \ calls' :
            (c.token # store \/ (c.ans = "error" /\ c.kind \in {"restore", "applySession"}))]_vars

\* A tab that shows a user when the store is empty is about to be told, or is
\* explained: it applied an answer to a token that was gone, or it removed the
\* token itself by the late failure of another request.
TokenlessTabIsExplained ==
  store = 0 => \A t \in Tabs : user[t] # NoUser => t \in removed \cup late

\* A tab that shows "Loading..." has its request under way: no order of
\* answers, removals and sign-ins leaves it loading for good.
LoadingIsAwaited ==
  \A t \in Tabs : InApp(t) /\ loading[t] => \E c \in CallsOf(t) : c.kind = "restore"
=============================================================================
