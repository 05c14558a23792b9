------------------------------- MODULE Session -------------------------------
(***************************************************************************)
(* The session of one user: apps/api/src/auth issues the tokens, the tabs  *)
(* of the user's browser (apps/web: lib/api-client.ts, the auth context,   *)
(* the dashboard's layout, middleware.ts) keep it alive.  A login or a     *)
(* refresh issues an access token, kept in the tab's memory for 15 minutes,*)
(* and a refresh token, kept in a cookie all tabs share for 7 days; the    *)
(* n-th of both is numbered n.  A call refused with 401 starts a refresh in*)
(* its tab, or waits for the one in flight; all tabs refresh on their own. *)
(*                                                                         *)
(* A lost request or answer is an error for the tab that waits for it.     *)
(***************************************************************************)
EXTENDS Naturals, FiniteSets

CONSTANTS
    Tabs,       \* browser tabs, each opened at most once
    Calls,      \* calls of the API other than those of auth
    MaxSigns,   \* bound on the logins and signups
    MaxFaults,  \* bound on the requests and answers lost
    MaxSpent    \* bound on the pairs of tokens that live long enough to expire

ASSUME SessionAssumption ==
    /\ MaxSigns \in Nat /\ MaxFaults \in Nat /\ MaxSpent \in Nat

VARIABLES
    issued,     \* number of the last pair of tokens
    stored,     \* the refresh tokens in table refresh_tokens
    spent,      \* how many access tokens, and how many refresh tokens, have expired
    jar,        \* the refresh_token cookie, 0 when there is none
    tab,        \* per tab, its page and the state of its api client and auth context
    wire,       \* per tab and endpoint, the auth request in flight
    call,       \* per call, where it is
    signs,      \* logins and signups so far
    faults,     \* messages lost so far
    calm,       \* history: no fault, logout, expired session, nor login before hydration
    gone        \* history: a logout that nothing overlapped ended the session

serverVars == <<issued, stored>>
browserVars == <<jar, tab, call>>
historyVars == <<signs, faults, calm, gone>>
vars == <<serverVars, spent, browserVars, wire, historyVars>>

-----------------------------------------------------------------------------
\* The pairs issued so far; 0 stands for none.
Tokens == 0..issued

\* "refresh" is the interceptor's, "hydrate" the same endpoint called on mount.
Endpoints == {"refresh", "hydrate", "sign", "logout"}

Idle == [at |-> "idle"]
Sent(cookie) == [at |-> "sent", cookie |-> cookie]
Answered(n) == [at |-> "answered", token |-> n]           \* 0: an error
Cleared == [at |-> "cleared"]                             \* the answer deletes the cookie
Wire == {Idle, Cleared} \cup {Sent(c) : c \in Tokens} \cup {Answered(n) : n \in Tokens}

Closed == [page |-> "closed", access |-> 0, user |-> FALSE, loading |-> TRUE,
           refreshing |-> FALSE]
Tab == [page : {"closed", "login", "app"}, access : Tokens, user : BOOLEAN,
        loading : BOOLEAN, refreshing : BOOLEAN]

NoCall == [at |-> "idle"]
Done == [at |-> "done"]
Failed == [at |-> "failed"]
Pending == {"sent", "denied", "first", "queued", "resent"}
Call == {NoCall, Done, Failed}
        \cup [at : Pending, tab : Tabs, token : Tokens]

SessionTypeOK ==
    /\ issued \in Nat
    /\ stored \subseteq Tokens \ {0}
    /\ spent \in [access : Tokens, refresh : Tokens] /\ spent.refresh <= spent.access
    /\ jar \in Tokens
    /\ tab \in [Tabs -> Tab]
    /\ wire \in [Tabs -> [Endpoints -> Wire]]
    /\ call \in [Calls -> Call]
    /\ signs \in 0..MaxSigns /\ faults \in 0..MaxFaults
    /\ calm \in BOOLEAN /\ gone \in BOOLEAN

Init ==
    /\ issued = 0 /\ stored = {} /\ jar = 0
    /\ spent = [access |-> 0, refresh |-> 0]
    /\ tab = [t \in Tabs |-> Closed]
    /\ wire = [t \in Tabs |-> [e \in Endpoints |-> Idle]]
    /\ call = [c \in Calls |-> NoCall]
    /\ signs = 0 /\ faults = 0
    /\ calm = TRUE /\ gone = FALSE

-----------------------------------------------------------------------------
InFlight(t, e) == wire[t][e] # Idle

Quiet == \A t \in Tabs, e \in Endpoints : ~InFlight(t, e)

LeavingNow == \E t \in Tabs : InFlight(t, "logout")

Put(w, t, e, msg) == [w EXCEPT ![t][e] = msg]

Waiting(t) == {c \in Calls : call[c].at \in {"first", "queued"} /\ call[c].tab = t}

MutCookieCleared == jar

\* clearCookie: takes effect only with the options the cookie was set with.
CookieCleared == 0

\* WHERE tokenHash and expiresAt >= now
Live(cookie) == cookie \in stored /\ cookie > spent.refresh

\* JwtAuthGuard
Valid(token) == token > spent.access

-----------------------------------------------------------------------------
(* The server. *)

MutStoredWith(n) == {n}
\* generateTokens: deletes the user's expired tokens, creates the new one.
StoredWith(n) == {r \in stored : r > spent.refresh} \cup {n}

GenerateTokens(t, e) ==
    /\ issued' = issued + 1
    /\ stored' = StoredWith(issued')
    /\ wire' = Put(wire, t, e, Answered(issued'))

\* The row is read, then the new one created, in two statements: a logout between them
\* deletes another row, so that the order of the two does not show.
Refresh(t, e) ==
    /\ e \in {"refresh", "hydrate"}
    /\ wire[t][e].at = "sent"
    /\ IF Live(wire[t][e].cookie) THEN GenerateTokens(t, e)
       ELSE wire' = Put(wire, t, e, Answered(0)) /\ UNCHANGED serverVars
    /\ UNCHANGED <<spent, browserVars, historyVars>>

Login(t) ==
    /\ wire[t]["sign"].at = "sent"
    /\ GenerateTokens(t, "sign")
    /\ UNCHANGED <<spent, browserVars, historyVars>>

EndSession(t) ==
    /\ wire[t]["logout"].at = "sent"
    /\ stored' = stored \ {wire[t]["logout"].cookie}
    /\ wire' = Put(wire, t, "logout", Cleared)
    /\ UNCHANGED <<issued, spent, browserVars, historyVars>>

\* Access tokens expire one by one, in the order of their issue; the refresh tokens together,
\* in a week without a refresh.
Expire ==
    /\ \/ /\ spent.access < issued /\ spent.access < MaxSpent
          /\ spent' = [spent EXCEPT !.access = @ + 1]
          /\ UNCHANGED calm
       \/ /\ spent.refresh < issued /\ issued <= MaxSpent
          /\ spent' = [access |-> issued, refresh |-> issued]
          /\ calm' = FALSE
    /\ UNCHANGED <<serverVars, browserVars, wire, signs, faults, gone>>

\* A request, or its answer, is lost; or the server fails.
Lose(t, e) ==
    /\ wire[t][e] \notin {Idle, Answered(0)} /\ faults < MaxFaults
    /\ faults' = faults + 1
    /\ wire' = Put(wire, t, e, Answered(0))
    /\ calm' = FALSE
    /\ gone' = (gone /\ e # "logout")
    /\ UNCHANGED <<serverVars, spent, browserVars, signs>>

-----------------------------------------------------------------------------
(* The auth context of a tab. *)

\* The middleware sends a browser without the cookie to the login page.
Open(t) ==
    /\ tab[t].page = "closed"
    /\ tab' = [tab EXCEPT ![t].page = IF jar = 0 THEN "login" ELSE "app"]
    /\ wire' = Put(wire, t, "hydrate", Sent(jar))
    /\ gone' = (gone /\ ~LeavingNow)
    /\ UNCHANGED <<serverVars, spent, jar, call, signs, faults, calm>>

In(s, n) == [s EXCEPT !.access = n, !.user = TRUE]
Out(s) == [s EXCEPT !.access = 0, !.user = FALSE]

Hydrated(t) ==
    /\ wire[t]["hydrate"].at = "answered"
    /\ LET n == wire[t]["hydrate"].token
       IN  /\ tab' = [tab EXCEPT ![t] = [(IF n = 0 THEN Out(@) ELSE In(@, n))
                                            EXCEPT !.loading = FALSE]]
           /\ jar' = IF n = 0 THEN jar ELSE n
    /\ wire' = Put(wire, t, "hydrate", Idle)
    /\ UNCHANGED <<serverVars, spent, call, historyVars>>

\* login or signup, with the right password
Sign(t) ==
    /\ tab[t].page = "login" /\ ~InFlight(t, "sign")
    /\ signs < MaxSigns
    /\ signs' = signs + 1
    /\ wire' = Put(wire, t, "sign", Sent(0))
    /\ calm' = (calm /\ ~InFlight(t, "hydrate"))
    /\ gone' = FALSE
    /\ UNCHANGED <<serverVars, spent, browserVars, faults>>

Signed(t) ==
    /\ wire[t]["sign"].at = "answered"
    /\ LET n == wire[t]["sign"].token
       IN  IF n = 0 THEN UNCHANGED <<tab, jar>>
           ELSE /\ tab' = [tab EXCEPT ![t] = [In(@, n) EXCEPT !.page = "app"]]
                /\ jar' = n
    /\ wire' = Put(wire, t, "sign", Idle)
    /\ UNCHANGED <<serverVars, spent, call, historyVars>>

Logout(t) ==
    /\ tab[t].page = "app" /\ tab[t].user
    /\ ~InFlight(t, "logout")
    /\ wire' = Put(wire, t, "logout", Sent(jar))
    /\ calm' = FALSE
    /\ gone' = (gone \/ Quiet)
    /\ UNCHANGED <<serverVars, spent, browserVars, signs, faults>>

\* finally: the tab forgets the session, whatever the server answered.
LoggedOut(t) ==
    /\ wire[t]["logout"].at \in {"cleared", "answered"}
    /\ tab' = [tab EXCEPT ![t] = Out(@)]
    /\ jar' = IF wire[t]["logout"] = Cleared THEN CookieCleared ELSE jar
    /\ wire' = Put(wire, t, "logout", Idle)
    /\ UNCHANGED <<serverVars, spent, call, historyVars>>

-----------------------------------------------------------------------------
(* The pages: the layout's effect and the middleware. *)

\* The layout leaves for /login?session=expired; on the way the middleware deletes the cookie.
Redirect(t) ==
    /\ tab[t].page = "app" /\ ~tab[t].user /\ ~tab[t].loading
    /\ tab' = [tab EXCEPT ![t].page = "login"]
    /\ jar' = 0
    /\ UNCHANGED <<serverVars, spent, wire, call, historyVars>>

\* A tab that hydrated without a session still takes itself for signed out when another
\* tab's cookie leads it to the dashboard.
Navigate(t) ==
    /\ tab[t].page # "closed"
    /\ tab' = [tab EXCEPT ![t].page = IF jar = 0 THEN "login" ELSE "app"]
    /\ calm' = (calm /\ (jar = 0 \/ tab[t].user))
    /\ UNCHANGED <<serverVars, spent, jar, wire, call, signs, faults, gone>>

-----------------------------------------------------------------------------
(* The api client of a tab. *)

Send(c, t) ==
    /\ call[c] = NoCall
    /\ tab[t].page = "app" /\ tab[t].user
    /\ call' = [call EXCEPT ![c] = [at |-> "sent", tab |-> t, token |-> tab[t].access]]
    /\ UNCHANGED <<serverVars, spent, jar, tab, wire, historyVars>>

\* A call sent again goes out of the interceptors' reach: a second 401 is final.
Serve(c) ==
    /\ call[c].at \in {"sent", "resent"}
    /\ call' = [call EXCEPT ![c] =
                   IF Valid(@.token) THEN Done
                   ELSE IF @.at = "sent" THEN [@ EXCEPT !.at = "denied"] ELSE Failed]
    /\ UNCHANGED <<serverVars, spent, jar, tab, wire, historyVars>>

LoseCall(c) ==
    /\ call[c].at \in {"sent", "resent"} /\ faults < MaxFaults
    /\ call' = [call EXCEPT ![c] = Failed]
    /\ faults' = faults + 1
    /\ calm' = FALSE
    /\ UNCHANGED <<serverVars, spent, jar, tab, wire, signs, gone>>

\* The response interceptor on a 401.
Intercept(c) ==
    /\ call[c].at = "denied"
    /\ LET t == call[c].tab
       IN  IF tab[t].refreshing
           THEN /\ call' = [call EXCEPT ![c].at = "queued"]
                /\ UNCHANGED <<tab, wire, gone>>
           ELSE /\ call' = [call EXCEPT ![c].at = "first"]
                /\ tab' = [tab EXCEPT ![t].refreshing = TRUE]
                /\ wire' = Put(wire, t, "refresh", Sent(jar))
                /\ gone' = (gone /\ ~LeavingNow)
    /\ UNCHANGED <<serverVars, spent, jar, signs, faults, calm>>

MutFlush(t, n) == [c \in Calls |->
    IF c \notin Waiting(t) \/ (n = 0 /\ call[c].at = "queued") THEN call[c]
    ELSE IF n = 0 THEN Failed ELSE [call[c] EXCEPT !.at = "resent", !.token = n]]

MutRejectQueued(t, n) == [c \in Calls |->
    IF c \notin Waiting(t) THEN call[c]
    ELSE IF n = 0 \/ call[c].at = "queued" THEN Failed
    ELSE [call[c] EXCEPT !.at = "resent", !.token = n]]

Flush(t, n) == [c \in Calls |->
    IF c \notin Waiting(t) THEN call[c]
    ELSE IF n = 0 THEN Failed ELSE [call[c] EXCEPT !.at = "resent", !.token = n]]

\* Sends the waiting calls again, or rejects them and forces the logout.
Refreshed(t) ==
    /\ wire[t]["refresh"].at = "answered"
    /\ LET n == wire[t]["refresh"].token
           s == [tab[t] EXCEPT !.access = n, !.refreshing = FALSE]
       IN  /\ tab' = [tab EXCEPT ![t] = IF n = 0 THEN Out(s) ELSE s]
           /\ jar' = IF n = 0 THEN jar ELSE n
           /\ call' = Flush(t, n)
    /\ wire' = Put(wire, t, "refresh", Idle)
    /\ UNCHANGED <<serverVars, spent, historyVars>>

-----------------------------------------------------------------------------
Answer(t) ==
    \/ Login(t) \/ EndSession(t) \/ \E e \in Endpoints : Refresh(t, e)
    \/ Hydrated(t) \/ Signed(t) \/ LoggedOut(t) \/ Refreshed(t)
    \/ Redirect(t)

Proceed(c) == Serve(c) \/ Intercept(c)

UserNext(t) ==
    \/ Open(t) \/ Sign(t) \/ Logout(t) \/ Navigate(t)
    \/ \E c \in Calls : Send(c, t)

Next ==
    \/ \E t \in Tabs : Answer(t) \/ UserNext(t) \/ \E e \in Endpoints : Lose(t, e)
    \/ \E c \in Calls : Proceed(c) \/ LoseCall(c)
    \/ Expire

Spec == Init /\ [][Next]_vars

-----------------------------------------------------------------------------
\* A call that waits for a refresh waits for one that is in flight, started by exactly one
\* call of its tab, and a tab never has two (api-client.ts:75-109, the mutex and the queue).
NoLostWaiter ==
    \A t \in Tabs :
        /\ tab[t].refreshing <=> InFlight(t, "refresh")
        /\ tab[t].refreshing <=> Waiting(t) # {}
        /\ Cardinality({c \in Waiting(t) : call[c].at = "first"}) <= 1

\* The tokens are ones that were issued, and no call waits for nothing.
SessionSafe == SessionTypeOK /\ NoLostWaiter

\* Tabs that refresh side by side with one cookie do not sign each other out: without a
\* fault, a logout or a week's absence, no tab loses its user (auth.service.ts:136-166 leaves
\* the used token valid).
SessionSurvives ==
    calm => \A t \in Tabs : tab[t].page = "app" /\ ~tab[t].loading => tab[t].user

\* ... and no call is lost to an expired access token, save for one whose new token expires
\* before it is sent again (api-client.ts:60-95).
CallsSurvive ==
    [][\A c \in Calls : calm' /\ call'[c] = Failed /\ call[c] # Failed =>
          call[c].at = "resent" /\ ~Valid(call[c].token)]_vars

\* After a logout that no other exchange overlapped, the browser stays without a session
\* until the next login, whatever the other tabs still do (auth.controller.ts:69-77).
LogoutHolds == gone /\ ~LeavingNow => jar = 0
=============================================================================
