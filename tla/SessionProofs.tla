----------------------------- MODULE SessionProofs -----------------------------
(***************************************************************************)
(* Proofs about Session, for any tabs and calls, any number of logins,     *)
(* faults and expired tokens.                                              *)
(*                                                                         *)
(* CalmInv: as long as nothing ended the session, all refresh tokens are   *)
(* still stored and valid, so that a refresh sent with a cookie succeeds;  *)
(* a tab on the dashboard has a user, or is about to.  GoneInv: after a    *)
(* logout that nothing overlapped, requests go out without a cookie, so    *)
(* that none brings one back.  WaitInv: a tab refreshes for one call that  *)
(* was refused first, and the calls that wait do so in such a tab.         *)
(* BoundInv: all tokens in use were issued.                                *)
(***************************************************************************)
EXTENDS Session, FiniteSetTheorems, TLAPS

-----------------------------------------------------------------------------
\* The types, with no bound on the numbers of the tokens.
WireN == {Idle, Cleared} \cup {Sent(c) : c \in Nat} \cup {Answered(n) : n \in Nat}
TabN == [page : {"closed", "login", "app"}, access : Nat, user : BOOLEAN, loading : BOOLEAN,
         refreshing : BOOLEAN]
CallN == {NoCall, Done, Failed} \cup [at : Pending, tab : Tabs, token : Nat]

TypeInv ==
    /\ issued \in Nat /\ stored \subseteq 1..issued /\ jar \in 0..issued
    /\ spent \in [access : Nat, refresh : Nat]
    /\ tab \in [Tabs -> TabN]
    /\ wire \in [Tabs -> [Endpoints -> WireN]]
    /\ call \in [Calls -> CallN]
    /\ \A t \in Tabs, e \in Endpoints :
          /\ wire[t][e].at = "sent" => wire[t][e].cookie <= issued
          /\ wire[t][e].at = "answered" => wire[t][e].token <= issued
    /\ calm \in BOOLEAN /\ gone \in BOOLEAN

\* While nothing ended the session: what a tab has in flight, and what it shows.
CalmTab(t) ==
    /\ wire[t]["logout"].at = "idle"
    /\ wire[t]["refresh"].at = "sent" => wire[t]["refresh"].cookie # 0
    /\ wire[t]["refresh"].at = "answered" => wire[t]["refresh"].token # 0
    /\ wire[t]["sign"].at = "answered" => wire[t]["sign"].token # 0
    /\ wire[t]["sign"].at # "idle" => wire[t]["hydrate"].at = "idle" /\ tab[t].page # "closed"
    /\ wire[t]["hydrate"].at # "idle" => tab[t].loading /\ ~tab[t].user /\ tab[t].page # "closed"
    /\ tab[t].page = "app" =>
          /\ wire[t]["hydrate"].at = "sent" => wire[t]["hydrate"].cookie # 0
          /\ wire[t]["hydrate"].at = "answered" => wire[t]["hydrate"].token # 0
          /\ ~tab[t].user => wire[t]["hydrate"].at # "idle"
    /\ tab[t].page = "closed" => ~tab[t].user /\ tab[t].loading
    /\ tab[t].user => jar # 0

CalmInv ==
    calm => /\ spent.refresh = 0 /\ stored = 1..issued
            /\ \A t \in Tabs : CalmTab(t)
            /\ \A c \in Calls : call[c].at \in Pending => tab[call[c].tab].user

\* After the logout: what is in flight brings no cookie, and the cookie is gone once no logout is.
GoneTab(t) ==
    /\ wire[t]["sign"].at = "idle"
    /\ wire[t]["logout"].at # "answered"
    /\ \A e \in {"refresh", "hydrate"} :
          /\ wire[t][e].at = "sent" => wire[t][e].cookie = 0
          /\ wire[t][e].at = "answered" => wire[t][e].token = 0

Leaving == \E t \in Tabs : wire[t]["logout"].at # "idle"

GoneInv == gone => (\A t \in Tabs : GoneTab(t)) /\ (jar = 0 \/ Leaving)

Inv == TypeInv /\ CalmInv /\ GoneInv

-----------------------------------------------------------------------------
(* Messages and their places *)

LEMMA MessageFacts ==
  ASSUME NEW m \in WireN
  PROVE  /\ m.at \in {"idle", "cleared", "sent", "answered"}
         /\ m = Idle <=> m.at = "idle"
         /\ m = Cleared <=> m.at = "cleared"
         /\ m.at = "sent" => m.cookie \in Nat
         /\ m.at = "answered" => m.token \in Nat
         /\ m = Answered(0) <=> m.at = "answered" /\ m.token = 0
  BY DEF WireN, Idle, Cleared, Sent, Answered

LEMMA NewMessages ==
  /\ Idle \in WireN /\ Idle.at = "idle"
  /\ Cleared \in WireN /\ Cleared.at = "cleared"
  /\ \A c \in Nat : Sent(c) \in WireN /\ Sent(c).at = "sent" /\ Sent(c).cookie = c
  /\ \A n \in Nat : Answered(n) \in WireN /\ Answered(n).at = "answered" /\ Answered(n).token = n
  BY DEF WireN, Idle, Cleared, Sent, Answered

LEMMA PutFacts ==
  ASSUME wire \in [Tabs -> [Endpoints -> WireN]], NEW t \in Tabs, NEW e \in Endpoints,
         NEW m \in WireN, wire' = Put(wire, t, e, m)
  PROVE  /\ wire' \in [Tabs -> [Endpoints -> WireN]]
         /\ wire'[t][e] = m
         /\ \A u \in Tabs, f \in Endpoints : <<u, f>> # <<t, e>> => wire'[u][f] = wire[u][f]
<1>1. PICK row \in [Endpoints -> WireN] : row = [wire[t] EXCEPT ![e] = m]
  OBVIOUS
<1>2. wire' = [wire EXCEPT ![t] = row]
  BY <1>1 DEF Put
<1> QED
  BY <1>1, <1>2

LEMMA LeavingFacts ==
  ASSUME TypeInv
  PROVE  /\ LeavingNow <=> Leaving
         /\ \A t \in Tabs, e \in Endpoints : InFlight(t, e) <=> wire[t][e].at # "idle"
<1>1. \A t \in Tabs, e \in Endpoints : InFlight(t, e) <=> wire[t][e].at # "idle"
  BY MessageFacts DEF TypeInv, InFlight
<1>2. "logout" \in Endpoints
  BY DEF Endpoints
<1> QED
  BY <1>1, <1>2 DEF LeavingNow, Leaving

-----------------------------------------------------------------------------
(* The server *)

LEMMA EndpointNames ==
  /\ "refresh" \in Endpoints /\ "hydrate" \in Endpoints /\ "sign" \in Endpoints
  /\ "logout" \in Endpoints
  /\ \A e \in Endpoints : e \in {"refresh", "hydrate", "sign", "logout"}
  BY DEF Endpoints

\* Tokens are issued to a login, or to a refresh with a cookie that is stored.
LEMMA GenerateKeeps ==
  ASSUME Inv, NEW t \in Tabs, NEW e \in Endpoints, e # "logout", wire[t][e].at = "sent",
         GenerateTokens(t, e), UNCHANGED <<spent, browserVars, historyVars>>,
         gone => e # "sign" /\ wire[t][e].cookie # 0
  PROVE  Inv'
<1>1. /\ issued' = issued + 1
      /\ stored' = {r \in stored : r > spent.refresh} \cup {issued + 1}
      /\ wire' = Put(wire, t, e, Answered(issued + 1))
      /\ UNCHANGED <<spent, jar, tab, call, calm, gone>>
  BY DEF GenerateTokens, StoredWith, browserVars, historyVars
<1>2. /\ issued \in Nat /\ stored \subseteq 1..issued /\ jar \in 0..issued
      /\ wire \in [Tabs -> [Endpoints -> WireN]] /\ spent.refresh \in Nat
  BY DEF Inv, TypeInv
<1>3. PICK m \in WireN : m = Answered(issued + 1) /\ m.at = "answered" /\ m.token = issued + 1
  BY <1>2, NewMessages
<1>4. /\ wire' \in [Tabs -> [Endpoints -> WireN]]
      /\ wire'[t][e] = m
      /\ \A u \in Tabs, f \in Endpoints : <<u, f>> # <<t, e>> => wire'[u][f] = wire[u][f]
  BY <1>1, <1>2, <1>3, PutFacts
<1>5. TypeInv'
  <2>1. \A u \in Tabs, f \in Endpoints :
          /\ wire'[u][f].at = "sent" => wire'[u][f].cookie <= issued + 1
          /\ wire'[u][f].at = "answered" => wire'[u][f].token <= issued + 1
    <3> SUFFICES ASSUME NEW u \in Tabs, NEW f \in Endpoints
                 PROVE  /\ wire'[u][f].at = "sent" => wire'[u][f].cookie <= issued + 1
                        /\ wire'[u][f].at = "answered" => wire'[u][f].token <= issued + 1
      OBVIOUS
    <3>1. CASE <<u, f>> = <<t, e>>
      BY <1>2, <1>3, <1>4, <3>1
    <3>2. CASE <<u, f>> # <<t, e>>
      <4>1. wire'[u][f] = wire[u][f] /\ wire[u][f] \in WireN
        BY <1>2, <1>4, <3>2
      <4>2. /\ wire[u][f].at = "sent" => wire[u][f].cookie <= issued /\ wire[u][f].cookie \in Nat
            /\ wire[u][f].at = "answered" => wire[u][f].token <= issued /\ wire[u][f].token \in Nat
        BY <4>1, MessageFacts DEF Inv, TypeInv
      <4> QED
        BY <1>2, <4>1, <4>2
    <3> QED
      BY <3>1, <3>2
  <2>2. issued' \in Nat /\ stored' \subseteq 1..issued' /\ jar' \in 0..issued'
    <3>1. issued' \in Nat /\ jar' \in 0..issued'
      BY <1>1, <1>2
    <3>2. ASSUME NEW r \in stored'
          PROVE  r \in 1..(issued + 1)
      <4>1. r \in 1..issued \/ r = issued + 1
        BY <1>1, <1>2
      <4> QED
        BY <1>2, <4>1
    <3> QED
      BY <1>1, <3>1, <3>2
  <2> QED
    BY <1>1, <1>4, <2>1, <2>2 DEF Inv, TypeInv
<1>6. CalmInv'
  <2> SUFFICES ASSUME calm
               PROVE  /\ spent.refresh = 0 /\ stored' = 1..issued'
                      /\ \A u \in Tabs : CalmTab(u)'
                      /\ \A c \in Calls : call[c].at \in Pending => tab[call[c].tab].user
    BY <1>1 DEF CalmInv
  <2>1. /\ spent.refresh = 0 /\ stored = 1..issued
        /\ \A u \in Tabs : CalmTab(u)
        /\ \A c \in Calls : call[c].at \in Pending => tab[call[c].tab].user
    BY DEF Inv, CalmInv
  <2>2. stored' = 1..issued'
    BY <1>1, <1>2, <2>1
  <2>3. ASSUME NEW u \in Tabs
        PROVE  CalmTab(u)'
    <3>1. CASE u # t
      BY <1>1, <1>4, <2>1, <3>1, EndpointNames DEF CalmTab
    <3>2. CASE u = t
      <4>1. m.token # 0
        BY <1>2, <1>3
      <4> QED
        BY <1>1, <1>3, <1>4, <2>1, <3>2, <4>1, EndpointNames DEF CalmTab
    <3> QED
      BY <3>1, <3>2
  <2> QED
    BY <2>1, <2>2, <2>3
<1>7. GoneInv'
  <2> SUFFICES ASSUME gone
               PROVE  FALSE
    BY <1>1 DEF GoneInv
  <2>1. e \in {"refresh", "hydrate"}
    BY EndpointNames
  <2> QED
    BY <2>1 DEF Inv, GoneInv, GoneTab
<1> QED
  BY <1>5, <1>6, <1>7 DEF Inv

\* A message is put where the tokens it names were issued.
LEMMA PutTyped ==
  ASSUME TypeInv, NEW t \in Tabs, NEW e \in Endpoints, NEW m \in WireN, wire' = Put(wire, t, e, m),
         m.at = "sent" => m.cookie <= issued, m.at = "answered" => m.token <= issued,
         UNCHANGED issued, stored' \subseteq stored, jar' \in 0..issued,
         spent' \in [access : Nat, refresh : Nat],
         tab' \in [Tabs -> TabN], call' \in [Calls -> CallN], calm' \in BOOLEAN, gone' \in BOOLEAN
  PROVE  /\ TypeInv'
         /\ wire'[t][e] = m
         /\ \A u \in Tabs, f \in Endpoints : <<u, f>> # <<t, e>> => wire'[u][f] = wire[u][f]
<1>1. /\ wire' \in [Tabs -> [Endpoints -> WireN]]
      /\ wire'[t][e] = m
      /\ \A u \in Tabs, f \in Endpoints : <<u, f>> # <<t, e>> => wire'[u][f] = wire[u][f]
  BY PutFacts DEF TypeInv
<1>2. \A u \in Tabs, f \in Endpoints :
        /\ wire'[u][f].at = "sent" => wire'[u][f].cookie <= issued
        /\ wire'[u][f].at = "answered" => wire'[u][f].token <= issued
  <2> SUFFICES ASSUME NEW u \in Tabs, NEW f \in Endpoints
               PROVE  /\ wire'[u][f].at = "sent" => wire'[u][f].cookie <= issued
                      /\ wire'[u][f].at = "answered" => wire'[u][f].token <= issued
    OBVIOUS
  <2>1. CASE <<u, f>> = <<t, e>>
    BY <1>1, <2>1
  <2>2. CASE <<u, f>> # <<t, e>>
    BY <1>1, <2>2 DEF TypeInv
  <2> QED
    BY <2>1, <2>2
<1> QED
  BY <1>1, <1>2 DEF TypeInv

LEMMA RefreshKeeps ==
  ASSUME Inv, NEW t \in Tabs, NEW e \in Endpoints, Refresh(t, e)
  PROVE  Inv'
<1>1. /\ e \in {"refresh", "hydrate"} /\ wire[t][e].at = "sent"
      /\ UNCHANGED <<spent, browserVars, historyVars>>
  BY DEF Refresh
<1>2. wire[t][e].cookie \in Nat /\ wire[t][e].cookie <= issued /\ issued \in Nat
  BY <1>1, MessageFacts DEF Inv, TypeInv
<1>3. CASE Live(wire[t][e].cookie)
  <2>1. GenerateTokens(t, e) /\ wire[t][e].cookie # 0
    BY <1>3 DEF Refresh, Live, Inv, TypeInv
  <2> QED
    BY <1>1, <2>1, GenerateKeeps
<1>4. CASE ~Live(wire[t][e].cookie)
  <2>1. wire' = Put(wire, t, e, Answered(0)) /\ UNCHANGED <<issued, stored>>
    BY <1>4 DEF Refresh, serverVars
  <2>2. UNCHANGED <<issued, stored, spent, jar, tab, call, calm, gone>>
    BY <1>1, <2>1 DEF browserVars, historyVars
  <2>3. PICK m \in WireN : m = Answered(0) /\ m.at = "answered" /\ m.token = 0
    BY NewMessages
  <2>4. /\ TypeInv'
        /\ wire'[t][e] = m
        /\ \A u \in Tabs, f \in Endpoints : <<u, f>> # <<t, e>> => wire'[u][f] = wire[u][f]
    BY <1>2, <2>1, <2>2, <2>3, PutTyped DEF Inv, TypeInv
  <2>5. CalmInv'
    <3> SUFFICES ASSUME calm, NEW u \in Tabs
                 PROVE  CalmTab(u)'
      BY <2>2 DEF Inv, CalmInv
    <3>1. CalmTab(u) /\ CalmTab(t) /\ stored = 1..issued /\ spent.refresh = 0
      BY DEF Inv, CalmInv
    <3>2. wire[t][e].cookie = 0
      BY <1>2, <1>4, <3>1 DEF Live
    <3>3. e = "hydrate" /\ tab[t].page # "app"
      BY <1>1, <3>1, <3>2 DEF CalmTab
    <3>4. CASE u # t
      BY <2>2, <2>4, <3>1, <3>4, EndpointNames DEF CalmTab
    <3>5. CASE u = t
      BY <1>1, <2>2, <2>3, <2>4, <3>1, <3>3, <3>5, EndpointNames DEF CalmTab
    <3> QED
      BY <3>4, <3>5
  <2>6. GoneInv'
    <3> SUFFICES ASSUME gone
                 PROVE  (\A u \in Tabs : GoneTab(u)') /\ (jar = 0 \/ Leaving')
      BY <2>2 DEF GoneInv
    <3>1. (\A u \in Tabs : GoneTab(u)) /\ (jar = 0 \/ Leaving)
      BY DEF Inv, GoneInv
    <3>2. \A u \in Tabs : GoneTab(u)'
      BY <1>1, <2>3, <2>4, <3>1, EndpointNames DEF GoneTab
    <3>3. Leaving => Leaving'
      BY <1>1, <2>4, EndpointNames DEF Leaving
    <3> QED
      BY <3>1, <3>2, <3>3
  <2> QED
    BY <2>4, <2>5, <2>6 DEF Inv
<1> QED
  BY <1>3, <1>4

LEMMA LoginKeeps ==
  ASSUME Inv, NEW t \in Tabs, Login(t)
  PROVE  Inv'
<1>1. /\ wire[t]["sign"].at = "sent" /\ GenerateTokens(t, "sign")
      /\ UNCHANGED <<spent, browserVars, historyVars>>
  BY DEF Login
<1>2. ~gone
  BY <1>1 DEF Inv, GoneInv, GoneTab
<1> QED
  BY <1>1, <1>2, EndpointNames, GenerateKeeps

LEMMA EndSessionKeeps ==
  ASSUME Inv, NEW t \in Tabs, EndSession(t)
  PROVE  Inv'
<1>1. /\ wire[t]["logout"].at = "sent" /\ stored' \subseteq stored
      /\ wire' = Put(wire, t, "logout", Cleared)
      /\ UNCHANGED <<issued, spent, jar, tab, call, calm, gone>>
  BY DEF EndSession, browserVars, historyVars
<1>2. /\ TypeInv'
      /\ wire'[t]["logout"] = Cleared
      /\ \A u \in Tabs, f \in Endpoints : <<u, f>> # <<t, "logout">> => wire'[u][f] = wire[u][f]
  <2>1. PICK m \in WireN : m = Cleared /\ m.at = "cleared"
    BY NewMessages
  <2> QED
    BY <1>1, <2>1, EndpointNames, PutTyped DEF Inv, TypeInv
<1>3. ~calm
  BY <1>1 DEF Inv, CalmInv, CalmTab
<1>4. GoneInv'
  <2> SUFFICES ASSUME gone
               PROVE  (\A u \in Tabs : GoneTab(u)') /\ Leaving'
    BY <1>1 DEF GoneInv
  <2>1. \A u \in Tabs : GoneTab(u)
    BY DEF Inv, GoneInv
  <2>2. \A u \in Tabs : GoneTab(u)'
    BY <1>2, <2>1, NewMessages, EndpointNames DEF GoneTab
  <2>3. Leaving'
    BY <1>2, NewMessages DEF Leaving
  <2> QED
    BY <2>2, <2>3
<1> QED
  BY <1>1, <1>2, <1>3, <1>4 DEF Inv, CalmInv

LEMMA ExpireKeeps ==
  ASSUME Inv, Expire
  PROVE  Inv'
<1>1. UNCHANGED <<issued, stored, jar, tab, call, wire, gone>>
  BY DEF Expire, serverVars, browserVars
<1>2. /\ spent' \in [access : Nat, refresh : Nat]
      /\ calm' \in BOOLEAN /\ (calm' => calm /\ spent'.refresh = spent.refresh)
  <2>0. issued \in Nat /\ spent \in [access : Nat, refresh : Nat] /\ calm \in BOOLEAN
    BY DEF Inv, TypeInv
  <2>1. CASE spent' = [spent EXCEPT !.access = spent.access + 1] /\ UNCHANGED calm
    <3>1. PICK n \in Nat : n = spent.access + 1
      BY <2>0
    <3>2. spent' = [spent EXCEPT !.access = n]
      BY <2>1, <3>1
    <3> QED
      BY <2>0, <2>1, <3>2
  <2>2. CASE spent' = [access |-> issued, refresh |-> issued] /\ calm' = FALSE
    BY <2>0, <2>2
  <2> QED
    BY <2>1, <2>2 DEF Expire
<1>3. TypeInv'
  BY <1>1, <1>2 DEF Inv, TypeInv
<1>4. CalmInv'
  BY <1>1, <1>2 DEF Inv, CalmInv, CalmTab
<1>5. GoneInv'
  BY <1>1 DEF Inv, GoneInv, GoneTab, Leaving
<1> QED
  BY <1>3, <1>4, <1>5 DEF Inv

LEMMA LoseKeeps ==
  ASSUME Inv, NEW t \in Tabs, NEW e \in Endpoints, Lose(t, e)
  PROVE  Inv'
<1>1. /\ wire' = Put(wire, t, e, Answered(0)) /\ wire[t][e] # Idle
      /\ ~calm' /\ calm' \in BOOLEAN
      /\ gone' = (gone /\ e # "logout")
      /\ UNCHANGED <<issued, stored, spent, jar, tab, call>>
  BY DEF Lose, serverVars, browserVars
<1>2. PICK m \in WireN : m = Answered(0) /\ m.at = "answered" /\ m.token = 0
  BY NewMessages
<1>3. /\ TypeInv'
      /\ wire'[t][e] = m
      /\ \A u \in Tabs, f \in Endpoints : <<u, f>> # <<t, e>> => wire'[u][f] = wire[u][f]
  BY <1>1, <1>2, PutTyped DEF Inv, TypeInv
<1>4. GoneInv'
  <2> SUFFICES ASSUME gone, e # "logout"
               PROVE  (\A u \in Tabs : GoneTab(u)') /\ (jar = 0 \/ Leaving')
    BY <1>1 DEF GoneInv
  <2>1. (\A u \in Tabs : GoneTab(u)) /\ (jar = 0 \/ Leaving)
    BY DEF Inv, GoneInv
  <2>2. e # "sign"
    BY <1>1, <2>1, MessageFacts, EndpointNames DEF GoneTab, Inv, TypeInv
  <2>3. \A u \in Tabs : GoneTab(u)'
    BY <1>2, <1>3, <2>1, <2>2, EndpointNames DEF GoneTab
  <2>4. Leaving => Leaving'
    BY <1>3, EndpointNames DEF Leaving
  <2> QED
    BY <2>1, <2>3, <2>4
<1> QED
  BY <1>1, <1>3, <1>4 DEF Inv, CalmInv

-----------------------------------------------------------------------------
(* The browser *)

LEMMA TabFacts ==
  ASSUME Inv, NEW t \in Tabs
  PROVE  /\ tab[t] \in TabN
         /\ issued \in Nat /\ jar \in 0..issued /\ jar \in Nat
         /\ wire \in [Tabs -> [Endpoints -> WireN]] /\ tab \in [Tabs -> TabN]
         /\ \A e \in Endpoints : wire[t][e] \in WireN
         /\ \A e \in Endpoints : wire[t][e].at = "answered" =>
               wire[t][e].token \in 0..issued /\ wire[t][e].token \in Nat
<1>1. \A e \in Endpoints : wire[t][e].at = "answered" =>
        wire[t][e].token \in Nat /\ wire[t][e].token <= issued
  BY MessageFacts DEF Inv, TypeInv
<1> QED
  BY <1>1 DEF Inv, TypeInv

LEMMA OpenKeeps ==
  ASSUME Inv, NEW t \in Tabs, Open(t)
  PROVE  Inv'
<1>1. /\ tab[t].page = "closed"
      /\ tab' = [tab EXCEPT ![t].page = IF jar = 0 THEN "login" ELSE "app"]
      /\ wire' = Put(wire, t, "hydrate", Sent(jar))
      /\ gone' = (gone /\ ~LeavingNow)
      /\ UNCHANGED <<issued, stored, spent, jar, call, calm>>
  BY DEF Open, serverVars
<1>2. PICK m \in WireN : m = Sent(jar) /\ m.at = "sent" /\ m.cookie = jar
  BY TabFacts, NewMessages
<1>3. PICK s \in TabN : /\ s = [tab[t] EXCEPT !.page = IF jar = 0 THEN "login" ELSE "app"]
                        /\ s.page = IF jar = 0 THEN "login" ELSE "app"
                        /\ s.user = tab[t].user /\ s.loading = tab[t].loading
  <2>1. PICK p \in {"login", "app"} : p = IF jar = 0 THEN "login" ELSE "app"
    OBVIOUS
  <2>2. PICK r : r = [tab[t] EXCEPT !.page = p]
    OBVIOUS
  <2>3. r \in TabN /\ r.page = p /\ r.user = tab[t].user /\ r.loading = tab[t].loading
    BY <2>2, TabFacts DEF TabN
  <2> QED
    BY <2>1, <2>2, <2>3
<1>4. tab' = [tab EXCEPT ![t] = s]
  BY <1>1, <1>3
<1>5. /\ tab' \in [Tabs -> TabN] /\ tab'[t] = s
      /\ \A u \in Tabs : u # t => tab'[u] = tab[u]
  BY <1>4, TabFacts
<1>a. gone' \in BOOLEAN
  BY <1>1
<1>6. /\ TypeInv'
      /\ wire'[t]["hydrate"] = m
      /\ \A u \in Tabs, f \in Endpoints : <<u, f>> # <<t, "hydrate">> => wire'[u][f] = wire[u][f]
  <2>1. wire' = Put(wire, t, "hydrate", m) /\ m.cookie <= issued
    BY <1>1, <1>2, TabFacts
  <2> QED
    <3>1. /\ TypeInv /\ issued' = issued /\ stored' \subseteq stored /\ jar' \in 0..issued
          /\ spent' \in [access : Nat, refresh : Nat]
          /\ call' \in [Calls -> CallN] /\ calm' \in BOOLEAN
      BY <1>1, TabFacts DEF Inv, TypeInv
    <3>2. m.at # "answered" /\ "hydrate" \in Endpoints
      BY <1>2, EndpointNames
    <3> QED
      BY <1>5, <1>a, <2>1, <3>1, <3>2, PutTyped
<1>7. CalmInv'
  <2> SUFFICES ASSUME calm
               PROVE  /\ \A u \in Tabs : CalmTab(u)'
                      /\ \A c \in Calls : call[c].at \in Pending => tab'[call[c].tab].user
    BY <1>1 DEF Inv, CalmInv
  <2>1. /\ \A u \in Tabs : CalmTab(u)
        /\ \A c \in Calls : call[c].at \in Pending => tab[call[c].tab].user
    BY DEF Inv, CalmInv
  <2>2. \A c \in Calls : call[c].at \in Pending => tab'[call[c].tab].user
    <3>1. \A u \in Tabs : tab'[u].user = tab[u].user
      BY <1>3, <1>5
    <3>2. \A c \in Calls : call[c].at \in Pending => call[c].tab \in Tabs
      BY DEF Inv, TypeInv, CallN, Pending, NoCall, Done, Failed
    <3> QED
      BY <2>1, <3>1, <3>2
  <2>3. ASSUME NEW u \in Tabs
        PROVE  CalmTab(u)'
    <3>1. CASE u # t
      BY <1>1, <1>5, <1>6, <2>1, <3>1, EndpointNames DEF CalmTab
    <3>2. CASE u = t
      BY <1>1, <1>2, <1>3, <1>5, <1>6, <2>1, <3>2, EndpointNames DEF CalmTab
    <3> QED
      BY <3>1, <3>2
  <2> QED
    BY <2>2, <2>3
<1>8. GoneInv'
  <2> SUFFICES ASSUME gone, ~LeavingNow
               PROVE  (\A u \in Tabs : GoneTab(u)') /\ jar = 0
    BY <1>1 DEF GoneInv
  <2>1. (\A u \in Tabs : GoneTab(u)) /\ jar = 0
    BY LeavingFacts DEF Inv, GoneInv
  <2> QED
    BY <1>2, <1>6, <2>1, EndpointNames DEF GoneTab
<1> QED
  BY <1>6, <1>7, <1>8 DEF Inv

LEMMA SetTab ==
  ASSUME Inv, NEW t \in Tabs, NEW s \in TabN, tab' = [tab EXCEPT ![t] = s]
  PROVE  /\ tab' \in [Tabs -> TabN] /\ tab'[t] = s
         /\ \A u \in Tabs : u # t => tab'[u] = tab[u]
  BY TabFacts

\* A call under way has a tab, whose user stays.
LEMMA CallsKeepTheirUser ==
  ASSUME Inv, calm, \A u \in Tabs : tab[u].user => tab'[u].user,
         \A c \in Calls : call'[c].at \in Pending =>
            call[c].at \in Pending /\ call'[c].tab = call[c].tab
  PROVE  \A c \in Calls : call'[c].at \in Pending => tab'[call'[c].tab].user
<1>1. \A c \in Calls : call[c].at \in Pending => call[c].tab \in Tabs
  BY DEF Inv, TypeInv, CallN, Pending, NoCall, Done, Failed
<1> QED
  BY <1>1 DEF Inv, CalmInv

LEMMA HydratedKeeps ==
  ASSUME Inv, NEW t \in Tabs, Hydrated(t)
  PROVE  Inv'
<1>1. PICK n \in Nat : n = wire[t]["hydrate"].token /\ n \in 0..issued
  BY TabFacts, EndpointNames DEF Hydrated
<1>2. /\ wire[t]["hydrate"].at = "answered"
      /\ tab' = [tab EXCEPT ![t] = [(IF n = 0 THEN Out(tab[t]) ELSE In(tab[t], n))
                                       EXCEPT !.loading = FALSE]]
      /\ jar' = IF n = 0 THEN jar ELSE n
      /\ wire' = Put(wire, t, "hydrate", Idle)
      /\ UNCHANGED <<issued, stored, spent, call, calm, gone>>
  BY <1>1 DEF Hydrated, serverVars, historyVars
<1>3. PICK s : s = [(IF n = 0 THEN Out(tab[t]) ELSE In(tab[t], n)) EXCEPT !.loading = FALSE]
  OBVIOUS
<1>4. s \in TabN /\ s.page = tab[t].page /\ ~s.loading /\ (s.user <=> n # 0)
  <2>1. CASE n = 0
    <3>1. s = [[tab[t] EXCEPT !.access = 0, !.user = FALSE] EXCEPT !.loading = FALSE]
      BY <1>3, <2>1 DEF Out
    <3> QED
      BY <2>1, <3>1, TabFacts DEF TabN
  <2>2. CASE n # 0
    <3>1. s = [[tab[t] EXCEPT !.access = n, !.user = TRUE] EXCEPT !.loading = FALSE]
      BY <1>3, <2>2 DEF In
    <3> QED
      BY <2>2, <3>1, TabFacts DEF TabN
  <2> QED
    BY <2>1, <2>2
<1>5. /\ tab' \in [Tabs -> TabN] /\ tab'[t] = s
      /\ \A u \in Tabs : u # t => tab'[u] = tab[u]
  BY <1>2, <1>3, <1>4, SetTab
<1>6. /\ TypeInv'
      /\ wire'[t]["hydrate"] = Idle
      /\ \A u \in Tabs, f \in Endpoints : <<u, f>> # <<t, "hydrate">> => wire'[u][f] = wire[u][f]
  <2>1. /\ TypeInv /\ jar' \in 0..issued
        /\ spent' \in [access : Nat, refresh : Nat]
        /\ call' \in [Calls -> CallN] /\ calm' \in BOOLEAN /\ gone' \in BOOLEAN
    BY <1>1, <1>2, TabFacts DEF Inv, TypeInv
  <2>2. Idle \in WireN /\ Idle.at # "answered" /\ Idle.at # "sent" /\ "hydrate" \in Endpoints
    BY NewMessages, EndpointNames
  <2> QED
    BY <1>2, <1>5, <2>1, <2>2, PutTyped
<1>7. CalmInv'
  <2> SUFFICES ASSUME calm
               PROVE  /\ \A u \in Tabs : CalmTab(u)'
                      /\ \A c \in Calls : call[c].at \in Pending => tab'[call[c].tab].user
    BY <1>2 DEF Inv, CalmInv
  <2>1. (\A u \in Tabs : CalmTab(u)) /\ ~tab[t].user
    BY <1>2 DEF Inv, CalmInv, CalmTab
  <2>2. \A c \in Calls : call[c].at \in Pending => tab'[call[c].tab].user
    BY <1>2, <1>5, <2>1, CallsKeepTheirUser
  <2>3. ASSUME NEW u \in Tabs
        PROVE  CalmTab(u)'
    <3>1. CASE u # t
      BY <1>2, <1>5, <1>6, <2>1, <3>1, EndpointNames DEF CalmTab
    <3>2. CASE u = t
      <4>1. wire'[t]["hydrate"].at = "idle" /\ tab'[t] = s
        BY <1>5, <1>6, NewMessages
      <4>2. \A e \in {"refresh", "sign", "logout"} : wire'[t][e] = wire[t][e]
        BY <1>6, EndpointNames
      <4>3. CalmTab(t) /\ tab[t].page # "closed" /\ (n = 0 => tab[t].page # "app")
        BY <1>1, <1>2, <2>1 DEF CalmTab
      <4> QED
        BY <1>2, <1>4, <3>2, <4>1, <4>2, <4>3 DEF CalmTab
    <3> QED
      BY <3>1, <3>2
  <2> QED
    BY <2>2, <2>3
<1>8. GoneInv'
  <2> SUFFICES ASSUME gone
               PROVE  (\A u \in Tabs : GoneTab(u)') /\ (jar' = 0 \/ Leaving')
    BY <1>2 DEF GoneInv
  <2>1. (\A u \in Tabs : GoneTab(u)) /\ (jar = 0 \/ Leaving)
    BY DEF Inv, GoneInv
  <2>2. jar' = jar
    BY <1>1, <1>2, <2>1 DEF GoneTab
  <2>3. \A u \in Tabs : GoneTab(u)'
    BY <1>6, <2>1, NewMessages, EndpointNames DEF GoneTab
  <2>4. Leaving => Leaving'
    BY <1>6, EndpointNames DEF Leaving
  <2> QED
    BY <2>1, <2>2, <2>3, <2>4
<1> QED
  BY <1>6, <1>7, <1>8 DEF Inv

LEMMA SignKeeps ==
  ASSUME Inv, NEW t \in Tabs, Sign(t)
  PROVE  Inv'
<1>1. /\ tab[t].page = "login"
      /\ wire' = Put(wire, t, "sign", Sent(0))
      /\ ~gone' /\ gone' \in BOOLEAN
      /\ UNCHANGED <<issued, stored, spent, jar, tab, call>>
  BY DEF Sign, serverVars, browserVars
<1>2. calm' = (calm /\ wire[t]["hydrate"].at = "idle")
  BY LeavingFacts, EndpointNames DEF Sign, Inv
<1>3. PICK m \in WireN : m = Sent(0) /\ m.at = "sent" /\ m.cookie = 0
  BY NewMessages
<1>4. /\ TypeInv'
      /\ wire'[t]["sign"] = m
      /\ \A u \in Tabs, f \in Endpoints : <<u, f>> # <<t, "sign">> => wire'[u][f] = wire[u][f]
  <2>1. /\ TypeInv /\ issued' = issued /\ stored' \subseteq stored /\ jar' \in 0..issued
        /\ spent' \in [access : Nat, refresh : Nat] /\ tab' \in [Tabs -> TabN]
        /\ call' \in [Calls -> CallN]
    BY <1>1, TabFacts DEF Inv, TypeInv
  <2>2. m.at # "answered" /\ m.cookie <= issued /\ "sign" \in Endpoints
    BY <1>3, TabFacts, EndpointNames
  <2>3. calm' \in BOOLEAN
    BY <1>2
  <2> QED
    BY <1>1, <1>3, <2>1, <2>2, <2>3, PutTyped
<1>5. CalmInv'
  <2> SUFFICES ASSUME calm, wire[t]["hydrate"].at = "idle", NEW u \in Tabs
               PROVE  CalmTab(u)'
    BY <1>1, <1>2 DEF Inv, CalmInv
  <2>1. CalmTab(u)
    BY DEF Inv, CalmInv
  <2>2. CASE u # t
    BY <1>1, <1>4, <2>1, <2>2, EndpointNames DEF CalmTab
  <2>3. CASE u = t
    BY <1>1, <1>3, <1>4, <2>1, <2>3, EndpointNames DEF CalmTab
  <2> QED
    BY <2>2, <2>3
<1> QED
  BY <1>1, <1>4, <1>5 DEF Inv, GoneInv

LEMMA SignedKeeps ==
  ASSUME Inv, NEW t \in Tabs, Signed(t)
  PROVE  Inv'
<1>1. PICK n \in Nat : n = wire[t]["sign"].token /\ n \in 0..issued
  BY TabFacts, EndpointNames DEF Signed
<1>2. /\ wire[t]["sign"].at = "answered"
      /\ n = 0 => UNCHANGED <<tab, jar>>
      /\ n # 0 => tab' = [tab EXCEPT ![t] = [In(tab[t], n) EXCEPT !.page = "app"]] /\ jar' = n
      /\ wire' = Put(wire, t, "sign", Idle)
      /\ UNCHANGED <<issued, stored, spent, call, calm, gone>>
  BY <1>1 DEF Signed, serverVars, historyVars
<1>3. PICK s \in TabN : /\ tab' = [tab EXCEPT ![t] = s]
                        /\ n = 0 => s = tab[t]
                        /\ n # 0 => s.page = "app" /\ s.user /\ s.loading = tab[t].loading
  <2>1. CASE n = 0
    BY <1>2, <2>1, TabFacts
  <2>2. CASE n # 0
    <3>1. PICK s : s = [[tab[t] EXCEPT !.access = n, !.user = TRUE] EXCEPT !.page = "app"]
      OBVIOUS
    <3>2. tab' = [tab EXCEPT ![t] = s]
      BY <1>2, <2>2, <3>1 DEF In
    <3>3. s \in TabN /\ s.page = "app" /\ s.user /\ s.loading = tab[t].loading
      BY <3>1, TabFacts DEF TabN
    <3> QED
      BY <2>2, <3>2, <3>3
  <2> QED
    BY <2>1, <2>2
<1>4. /\ tab' \in [Tabs -> TabN] /\ tab'[t] = s
      /\ \A u \in Tabs : u # t => tab'[u] = tab[u]
  BY <1>3, SetTab
<1>5. /\ TypeInv'
      /\ wire'[t]["sign"] = Idle
      /\ \A u \in Tabs, f \in Endpoints : <<u, f>> # <<t, "sign">> => wire'[u][f] = wire[u][f]
  <2>1. /\ TypeInv /\ jar' \in 0..issued
        /\ spent' \in [access : Nat, refresh : Nat]
        /\ call' \in [Calls -> CallN] /\ calm' \in BOOLEAN /\ gone' \in BOOLEAN
    BY <1>1, <1>2, TabFacts DEF Inv, TypeInv
  <2>2. Idle \in WireN /\ Idle.at # "answered" /\ Idle.at # "sent" /\ "sign" \in Endpoints
    BY NewMessages, EndpointNames
  <2> QED
    BY <1>2, <1>4, <2>1, <2>2, PutTyped
<1>6. CalmInv'
  <2> SUFFICES ASSUME calm
               PROVE  /\ \A u \in Tabs : CalmTab(u)'
                      /\ \A c \in Calls : call[c].at \in Pending => tab'[call[c].tab].user
    BY <1>2 DEF Inv, CalmInv
  <2>1. (\A u \in Tabs : CalmTab(u)) /\ n # 0 /\ wire[t]["hydrate"].at = "idle"
    BY <1>1, <1>2 DEF Inv, CalmInv, CalmTab
  <2>2. \A c \in Calls : call[c].at \in Pending => tab'[call[c].tab].user
    BY <1>2, <1>3, <1>4, <2>1, CallsKeepTheirUser
  <2>3. ASSUME NEW u \in Tabs
        PROVE  CalmTab(u)'
    <3>1. CASE u # t
      BY <1>2, <1>4, <1>5, <2>1, <3>1, EndpointNames DEF CalmTab
    <3>2. CASE u = t
      BY <1>2, <1>3, <1>4, <1>5, <2>1, <3>2, NewMessages, EndpointNames DEF CalmTab
    <3> QED
      BY <3>1, <3>2
  <2> QED
    BY <2>2, <2>3
<1>7. ~gone
  BY <1>2 DEF Inv, GoneInv, GoneTab
<1> QED
  BY <1>2, <1>5, <1>6, <1>7 DEF Inv, GoneInv

LEMMA LogoutKeeps ==
  ASSUME Inv, NEW t \in Tabs, Logout(t)
  PROVE  Inv'
<1>1. /\ wire' = Put(wire, t, "logout", Sent(jar))
      /\ ~calm' /\ calm' \in BOOLEAN
      /\ gone' = (gone \/ Quiet)
      /\ UNCHANGED <<issued, stored, spent, jar, tab, call>>
  BY DEF Logout, serverVars, browserVars
<1>2. PICK m \in WireN : m = Sent(jar) /\ m.at = "sent" /\ m.cookie = jar
  BY TabFacts, NewMessages
<1>3. /\ TypeInv'
      /\ wire'[t]["logout"] = m
      /\ \A u \in Tabs, f \in Endpoints : <<u, f>> # <<t, "logout">> => wire'[u][f] = wire[u][f]
  <2>1. /\ TypeInv /\ issued' = issued /\ stored' \subseteq stored /\ jar' \in 0..issued
        /\ spent' \in [access : Nat, refresh : Nat] /\ tab' \in [Tabs -> TabN]
        /\ call' \in [Calls -> CallN]
    BY <1>1, TabFacts DEF Inv, TypeInv
  <2>2. m.at # "answered" /\ m.cookie <= issued /\ "logout" \in Endpoints
    BY <1>2, TabFacts, EndpointNames
  <2>3. gone' \in BOOLEAN
    BY <1>1
  <2>4. wire' = Put(wire, t, "logout", m)
    BY <1>1, <1>2
  <2> QED
    BY <1>1, <2>1, <2>2, <2>3, <2>4, PutTyped
<1>4. GoneInv'
  <2> SUFFICES ASSUME gone \/ Quiet
               PROVE  (\A u \in Tabs : GoneTab(u)') /\ Leaving'
    BY <1>1 DEF GoneInv
  <2>1. ASSUME NEW u \in Tabs
        PROVE  GoneTab(u)
    <3>1. CASE gone
      BY <3>1 DEF Inv, GoneInv
    <3>2. CASE Quiet
      BY <3>2, LeavingFacts, EndpointNames DEF Inv, Quiet, GoneTab
    <3> QED
      BY <3>1, <3>2
  <2>2. \A u \in Tabs : GoneTab(u)'
    BY <1>2, <1>3, <2>1, EndpointNames DEF GoneTab
  <2>3. Leaving'
    BY <1>2, <1>3 DEF Leaving
  <2> QED
    BY <2>2, <2>3
<1> QED
  BY <1>1, <1>3, <1>4 DEF Inv, CalmInv

LEMMA LoggedOutKeeps ==
  ASSUME Inv, NEW t \in Tabs, LoggedOut(t)
  PROVE  Inv'
<1>1. /\ wire[t]["logout"].at \in {"cleared", "answered"}
      /\ tab' = [tab EXCEPT ![t] = Out(tab[t])]
      /\ jar' = IF wire[t]["logout"] = Cleared THEN 0 ELSE jar
      /\ wire' = Put(wire, t, "logout", Idle)
      /\ UNCHANGED <<issued, stored, spent, call, calm, gone>>
  BY DEF LoggedOut, serverVars, historyVars, CookieCleared
<1>2. Out(tab[t]) \in TabN
  BY TabFacts DEF Out, TabN
<1>3. tab' \in [Tabs -> TabN]
  BY <1>1, <1>2, SetTab
<1>4. /\ TypeInv'
      /\ wire'[t]["logout"] = Idle
      /\ \A u \in Tabs, f \in Endpoints : <<u, f>> # <<t, "logout">> => wire'[u][f] = wire[u][f]
  <2>1. /\ TypeInv /\ jar' \in 0..issued
        /\ spent' \in [access : Nat, refresh : Nat]
        /\ call' \in [Calls -> CallN] /\ calm' \in BOOLEAN /\ gone' \in BOOLEAN
    BY <1>1, TabFacts DEF Inv, TypeInv
  <2>2. Idle \in WireN /\ Idle.at # "answered" /\ Idle.at # "sent" /\ "logout" \in Endpoints
    BY NewMessages, EndpointNames
  <2> QED
    BY <1>1, <1>3, <2>1, <2>2, PutTyped
<1>5. ~calm
  BY <1>1 DEF Inv, CalmInv, CalmTab
<1>6. GoneInv'
  <2> SUFFICES ASSUME gone
               PROVE  (\A u \in Tabs : GoneTab(u)') /\ jar' = 0
    BY <1>1 DEF GoneInv
  <2>1. (\A u \in Tabs : GoneTab(u)) /\ wire[t]["logout"].at = "cleared"
    BY <1>1 DEF Inv, GoneInv, GoneTab
  <2>2. wire[t]["logout"] = Cleared
    BY <2>1, TabFacts, EndpointNames, MessageFacts
  <2>3. \A u \in Tabs : GoneTab(u)'
    BY <1>4, <2>1, NewMessages, EndpointNames DEF GoneTab
  <2> QED
    BY <1>1, <2>2, <2>3
<1> QED
  BY <1>1, <1>4, <1>5, <1>6 DEF Inv, CalmInv

LEMMA RedirectKeeps ==
  ASSUME Inv, NEW t \in Tabs, Redirect(t)
  PROVE  Inv'
<1>1. /\ tab[t].page = "app" /\ ~tab[t].user /\ ~tab[t].loading
      /\ tab' = [tab EXCEPT ![t].page = "login"] /\ jar' = 0
      /\ UNCHANGED <<issued, stored, spent, wire, call, calm, gone>>
  BY DEF Redirect, serverVars, historyVars
<1>2. ~calm
  BY <1>1 DEF Inv, CalmInv, CalmTab
<1>3. tab' \in [Tabs -> TabN]
  <2>1. PICK s \in TabN : s = [tab[t] EXCEPT !.page = "login"]
    BY TabFacts DEF TabN
  <2> QED
    BY <1>1, <2>1, SetTab
<1>4. TypeInv'
  BY <1>1, <1>3, TabFacts DEF Inv, TypeInv
<1>5. GoneInv'
  BY <1>1 DEF Inv, GoneInv, GoneTab
<1> QED
  BY <1>1, <1>2, <1>4, <1>5 DEF Inv, CalmInv

LEMMA NavigateKeeps ==
  ASSUME Inv, NEW t \in Tabs, Navigate(t)
  PROVE  Inv'
<1>1. /\ tab[t].page # "closed"
      /\ tab' = [tab EXCEPT ![t].page = IF jar = 0 THEN "login" ELSE "app"]
      /\ calm' = (calm /\ (jar = 0 \/ tab[t].user))
      /\ UNCHANGED <<issued, stored, spent, jar, wire, call, gone>>
  BY DEF Navigate, serverVars
<1>2. PICK p \in {"login", "app"} : p = IF jar = 0 THEN "login" ELSE "app"
  OBVIOUS
<1>3. PICK s : s = [tab[t] EXCEPT !.page = p]
  OBVIOUS
<1>4. s \in TabN /\ s.page = p /\ s.user = tab[t].user /\ s.loading = tab[t].loading
  BY <1>3, TabFacts DEF TabN
<1>5. /\ tab' \in [Tabs -> TabN] /\ tab'[t] = s
      /\ \A u \in Tabs : u # t => tab'[u] = tab[u]
  BY <1>1, <1>2, <1>3, <1>4, SetTab
<1>6. TypeInv'
  <2>1. calm' \in BOOLEAN
    BY <1>1
  <2> QED
    BY <1>1, <1>5, <2>1 DEF Inv, TypeInv
<1>7. CalmInv'
  <2> SUFFICES ASSUME calm, jar = 0 \/ tab[t].user
               PROVE  /\ \A u \in Tabs : CalmTab(u)'
                      /\ \A c \in Calls : call[c].at \in Pending => tab'[call[c].tab].user
    BY <1>1 DEF Inv, CalmInv
  <2>1. \A u \in Tabs : CalmTab(u)
    BY DEF Inv, CalmInv
  <2>2. \A c \in Calls : call[c].at \in Pending => tab'[call[c].tab].user
    BY <1>1, <1>4, <1>5, CallsKeepTheirUser
  <2>3. ASSUME NEW u \in Tabs
        PROVE  CalmTab(u)'
    <3>1. CASE u # t
      BY <1>1, <1>5, <2>1, <3>1 DEF CalmTab
    <3>2. CASE u = t
      <4>1. CalmTab(t)
        BY <2>1
      <4>2. tab[t].user => wire[t]["hydrate"].at = "idle"
        BY <4>1, TabFacts, EndpointNames, MessageFacts DEF CalmTab
      <4> QED
        BY <1>1, <1>2, <1>4, <1>5, <3>2, <4>1, <4>2 DEF CalmTab
    <3> QED
      BY <3>1, <3>2
  <2> QED
    BY <2>2, <2>3
<1>8. GoneInv'
  BY <1>1 DEF Inv, GoneInv, GoneTab, Leaving
<1> QED
  BY <1>6, <1>7, <1>8 DEF Inv

-----------------------------------------------------------------------------
(* The api client *)

LEMMA CallFacts ==
  ASSUME Inv, NEW c \in Calls
  PROVE  /\ call \in [Calls -> CallN]
         /\ call[c].at \in Pending => call[c] \in [at : Pending, tab : Tabs, token : Nat]
         /\ call[c].at \in {"sent", "resent", "denied", "first", "queued"} => call[c].at \in Pending
         /\ NoCall \in CallN /\ Done \in CallN /\ Failed \in CallN
         /\ NoCall.at \notin Pending /\ Done.at \notin Pending /\ Failed.at \notin Pending
  BY DEF Inv, TypeInv, CallN, Pending, NoCall, Done, Failed

\* A step of calls alone, that leaves a call with its tab.
LEMMA CallsMove ==
  ASSUME Inv, UNCHANGED <<issued, stored, spent, jar, tab, wire, gone>>,
         call' \in [Calls -> CallN], calm' \in BOOLEAN, calm' => calm,
         \A c \in Calls : call'[c].at \in Pending =>
            \/ tab[call'[c].tab].user
            \/ call[c].at \in Pending /\ call'[c].tab = call[c].tab
  PROVE  Inv'
<1>1. TypeInv'
  BY DEF Inv, TypeInv
<1>2. CalmInv'
  BY DEF Inv, CalmInv, CalmTab
<1>3. GoneInv'
  BY DEF Inv, GoneInv, GoneTab, Leaving
<1> QED
  BY <1>1, <1>2, <1>3 DEF Inv

LEMMA SendKeeps ==
  ASSUME Inv, NEW c \in Calls, NEW t \in Tabs, Send(c, t)
  PROVE  Inv'
<1>1. /\ tab[t].user
      /\ call' = [call EXCEPT ![c] = [at |-> "sent", tab |-> t, token |-> tab[t].access]]
      /\ UNCHANGED <<issued, stored, spent, jar, tab, wire, calm, gone>>
  BY DEF Send, serverVars, historyVars
<1>2. PICK d : d = [at |-> "sent", tab |-> t, token |-> tab[t].access]
  OBVIOUS
<1>3. d \in CallN /\ d.tab = t
  BY <1>2, TabFacts DEF CallN, TabN, Pending
<1>4. call' \in [Calls -> CallN] /\ call'[c] = d /\ \A b \in Calls : b # c => call'[b] = call[b]
  BY <1>1, <1>2, <1>3, CallFacts
<1>5. calm' \in BOOLEAN /\ calm' = calm
  BY <1>1 DEF Inv, TypeInv
<1>6. \A b \in Calls : call'[b].at \in Pending =>
         \/ tab[call'[b].tab].user
         \/ call[b].at \in Pending /\ call'[b].tab = call[b].tab
  BY <1>1, <1>3, <1>4
<1> QED
  BY <1>1, <1>4, <1>5, <1>6, CallsMove

LEMMA ServeKeeps ==
  ASSUME Inv, NEW c \in Calls, Serve(c) \/ LoseCall(c)
  PROVE  Inv'
<1>1. /\ call[c].at \in Pending /\ calm' \in BOOLEAN /\ (calm' => calm)
      /\ UNCHANGED <<issued, stored, spent, jar, tab, wire, gone>>
  <2>1. call[c].at \in Pending
    BY CallFacts DEF Serve, LoseCall
  <2>2. CASE Serve(c)
    BY <2>1, <2>2 DEF Serve, serverVars, historyVars, Inv, TypeInv
  <2>3. CASE LoseCall(c)
    BY <2>1, <2>3 DEF LoseCall, serverVars
  <2> QED
    BY <2>2, <2>3
<1>2. PICK d : /\ d \in {Done, Failed, [call[c] EXCEPT !.at = "denied"]}
               /\ call' = [call EXCEPT ![c] = d]
  BY DEF Serve, LoseCall
<1>3. d \in CallN /\ (d.at \in Pending => d.tab = call[c].tab)
  <2>1. [call[c] EXCEPT !.at = "denied"] \in [at : Pending, tab : Tabs, token : Nat]
        /\ [call[c] EXCEPT !.at = "denied"].tab = call[c].tab
    BY <1>1, CallFacts DEF Pending
  <2> QED
    BY <1>2, <2>1, CallFacts DEF CallN
<1>4. call' \in [Calls -> CallN] /\ call'[c] = d /\ \A b \in Calls : b # c => call'[b] = call[b]
  BY <1>2, <1>3, CallFacts
<1> QED
  BY <1>1, <1>3, <1>4, CallsMove

LEMMA InterceptKeeps ==
  ASSUME Inv, NEW c \in Calls, Intercept(c)
  PROVE  Inv'
<1>1. /\ call[c].at = "denied" /\ call[c].at \in Pending
      /\ call[c].tab \in Tabs
      /\ UNCHANGED <<issued, stored, spent, jar, calm>>
  BY CallFacts DEF Intercept, serverVars
<1>2. PICK t \in Tabs : t = call[c].tab
  BY <1>1
<1>3. ASSUME NEW a \in {"first", "queued"}, call' = [call EXCEPT ![c].at = a]
      PROVE  /\ call' \in [Calls -> CallN]
             /\ \A b \in Calls : call'[b].at \in Pending =>
                   call[b].at \in Pending /\ call'[b].tab = call[b].tab
  <2>1. PICK d : d = [call[c] EXCEPT !.at = a]
    OBVIOUS
  <2>2. d \in CallN /\ d.tab = call[c].tab
    BY <1>1, <2>1, CallFacts DEF CallN, Pending
  <2>3. call' = [call EXCEPT ![c] = d]
    BY <1>3, <2>1
  <2> QED
    BY <1>1, <2>2, <2>3, CallFacts
<1>4. CASE tab[t].refreshing
  <2>1. call' = [call EXCEPT ![c].at = "queued"] /\ UNCHANGED <<tab, wire, gone>>
    BY <1>2, <1>4 DEF Intercept
  <2>2. calm' \in BOOLEAN /\ calm' = calm
    BY <1>1 DEF Inv, TypeInv
  <2> QED
    BY <1>1, <1>3, <2>1, <2>2, CallsMove
<1>5. CASE ~tab[t].refreshing
  <2>1. /\ call' = [call EXCEPT ![c].at = "first"]
        /\ tab' = [tab EXCEPT ![t].refreshing = TRUE]
        /\ wire' = Put(wire, t, "refresh", Sent(jar))
        /\ gone' = (gone /\ ~LeavingNow)
    BY <1>2, <1>5 DEF Intercept
  <2>2. PICK m \in WireN : m = Sent(jar) /\ m.at = "sent" /\ m.cookie = jar
    BY TabFacts, NewMessages
  <2>3. PICK s : s = [tab[t] EXCEPT !.refreshing = TRUE]
    OBVIOUS
  <2>4. s \in TabN /\ s.page = tab[t].page /\ s.user = tab[t].user /\ s.loading = tab[t].loading
    BY <2>3, TabFacts DEF TabN
  <2>5. /\ tab' \in [Tabs -> TabN] /\ tab'[t] = s
        /\ \A u \in Tabs : u # t => tab'[u] = tab[u]
    BY <2>1, <2>3, <2>4, SetTab
  <2>6. /\ TypeInv'
        /\ wire'[t]["refresh"] = m
        /\ \A u \in Tabs, f \in Endpoints : <<u, f>> # <<t, "refresh">> => wire'[u][f] = wire[u][f]
    <3>1. /\ TypeInv /\ issued' = issued /\ stored' \subseteq stored /\ jar' \in 0..issued
          /\ spent' \in [access : Nat, refresh : Nat]
          /\ calm' \in BOOLEAN
      BY <1>1, TabFacts DEF Inv, TypeInv
    <3>2. m.at # "answered" /\ m.cookie <= issued /\ "refresh" \in Endpoints
      BY <2>2, TabFacts, EndpointNames
    <3>3. gone' \in BOOLEAN
      BY <2>1
    <3>4. wire' = Put(wire, t, "refresh", m)
      BY <2>1, <2>2
    <3>5. call' \in [Calls -> CallN]
      BY <1>3, <2>1
    <3> QED
      BY <2>5, <3>1, <3>2, <3>3, <3>4, <3>5, PutTyped
  <2>7. CalmInv'
    <3> SUFFICES ASSUME calm
                 PROVE  /\ \A u \in Tabs : CalmTab(u)'
                        /\ \A b \in Calls : call'[b].at \in Pending => tab'[call'[b].tab].user
      BY <1>1 DEF Inv, CalmInv
    <3>1. (\A u \in Tabs : CalmTab(u)) /\ tab[t].user /\ jar # 0
      BY <1>1, <1>2 DEF Inv, CalmInv, CalmTab
    <3>2. \A b \in Calls : call'[b].at \in Pending => tab'[call'[b].tab].user
      BY <1>3, <2>1, <2>4, <2>5, CallsKeepTheirUser
    <3>3. ASSUME NEW u \in Tabs
          PROVE  CalmTab(u)'
      <4>1. CASE u # t
        BY <1>1, <2>5, <2>6, <3>1, <4>1, EndpointNames DEF CalmTab
      <4>2. CASE u = t
        <5>1. CalmTab(t) /\ wire'[t]["refresh"].at = "sent" /\ wire'[t]["refresh"].cookie # 0
          BY <2>2, <2>6, <3>1
        <5>2. \A e \in {"hydrate", "sign", "logout"} : wire'[t][e] = wire[t][e]
          BY <2>6, EndpointNames
        <5> QED
          BY <1>1, <2>4, <2>5, <4>2, <5>1, <5>2 DEF CalmTab
      <4> QED
        BY <4>1, <4>2
    <3> QED
      BY <3>2, <3>3
  <2>8. GoneInv'
    <3> SUFFICES ASSUME gone, ~LeavingNow
                 PROVE  (\A u \in Tabs : GoneTab(u)') /\ jar = 0
      BY <1>1, <2>1 DEF GoneInv
    <3>1. (\A u \in Tabs : GoneTab(u)) /\ jar = 0
      BY LeavingFacts DEF Inv, GoneInv
    <3> QED
      BY <2>2, <2>6, <3>1, EndpointNames DEF GoneTab
  <2> QED
    BY <2>6, <2>7, <2>8 DEF Inv
<1> QED
  BY <1>4, <1>5

LEMMA RefreshedFacts ==
  ASSUME Inv, NEW t \in Tabs, Refreshed(t)
  PROVE  \E n \in Nat, s \in TabN :
            /\ n = wire[t]["refresh"].token /\ n \in 0..issued
            /\ wire[t]["refresh"].at = "answered"
            /\ tab' = [tab EXCEPT ![t] = s]
            /\ s.page = tab[t].page /\ s.loading = tab[t].loading
            /\ n # 0 => s.user = tab[t].user
            /\ n = 0 => ~s.user
            /\ jar' = IF n = 0 THEN jar ELSE n
            /\ call' = Flush(t, n) /\ call' \in [Calls -> CallN]
            /\ \A c \in Calls : call'[c].at \in Pending =>
                  call[c].at \in Pending /\ call'[c].tab = call[c].tab
            /\ wire' = Put(wire, t, "refresh", Idle)
            /\ UNCHANGED <<issued, stored, spent, calm, gone>>
<1>1. PICK n \in Nat : n = wire[t]["refresh"].token /\ n \in 0..issued
  BY TabFacts, EndpointNames DEF Refreshed
<1>2. /\ wire[t]["refresh"].at = "answered"
      /\ tab' = [tab EXCEPT ![t] =
                    IF n = 0 THEN Out([tab[t] EXCEPT !.access = n, !.refreshing = FALSE])
                    ELSE [tab[t] EXCEPT !.access = n, !.refreshing = FALSE]]
      /\ jar' = IF n = 0 THEN jar ELSE n
      /\ call' = Flush(t, n)
      /\ wire' = Put(wire, t, "refresh", Idle)
      /\ UNCHANGED <<issued, stored, spent, calm, gone>>
  BY <1>1 DEF Refreshed, serverVars, historyVars
<1>3. PICK s \in TabN : /\ tab' = [tab EXCEPT ![t] = s]
                        /\ s.page = tab[t].page /\ s.loading = tab[t].loading
                        /\ n # 0 => s.user = tab[t].user
                        /\ n = 0 => ~s.user
  <2>1. PICK r : r = [tab[t] EXCEPT !.access = n, !.refreshing = FALSE]
    OBVIOUS
  <2>2. r \in TabN /\ r.page = tab[t].page /\ r.loading = tab[t].loading /\ r.user = tab[t].user
    BY <1>1, <2>1, TabFacts DEF TabN
  <2>3. CASE n = 0
    <3>1. PICK q : q = [r EXCEPT !.access = 0, !.user = FALSE]
      OBVIOUS
    <3>2. q \in TabN /\ q.page = r.page /\ q.loading = r.loading /\ ~q.user
      BY <2>2, <3>1 DEF TabN
    <3>3. tab' = [tab EXCEPT ![t] = q]
      BY <1>2, <2>1, <2>3, <3>1 DEF Out
    <3> QED
      BY <2>2, <2>3, <3>2, <3>3
  <2>4. CASE n # 0
    <3>1. tab' = [tab EXCEPT ![t] = r]
      BY <1>2, <2>1, <2>4
    <3> QED
      BY <2>2, <2>4, <3>1
  <2> QED
    BY <2>3, <2>4
<1>4. ASSUME NEW c \in Calls
      PROVE  /\ call'[c] \in CallN
             /\ call'[c].at \in Pending => call[c].at \in Pending /\ call'[c].tab = call[c].tab
  <2>1. CASE c \notin Waiting(t)
    <3>1. call'[c] = call[c]
      BY <1>2, <2>1 DEF Flush
    <3> QED
      BY <3>1, CallFacts
  <2>2. CASE c \in Waiting(t) /\ n = 0
    <3>1. call'[c] = Failed
      BY <1>2, <2>2 DEF Flush
    <3> QED
      BY <3>1, CallFacts
  <2>3. CASE c \in Waiting(t) /\ n # 0
    <3>1. call[c].at \in Pending
      BY <2>3 DEF Waiting, Pending
    <3>2. PICK d : d = [call[c] EXCEPT !.at = "resent", !.token = n]
      OBVIOUS
    <3>3. d \in [at : Pending, tab : Tabs, token : Nat] /\ d.tab = call[c].tab
      BY <1>1, <3>1, <3>2, CallFacts DEF Pending
    <3>4. call'[c] = d
      BY <1>2, <2>3, <3>2 DEF Flush
    <3> QED
      BY <3>1, <3>3, <3>4 DEF CallN
  <2> QED
    BY <2>1, <2>2, <2>3
<1>5. call' \in [Calls -> CallN]
  BY <1>2, <1>4 DEF Flush
<1> QED
  BY <1>1, <1>2, <1>3, <1>4, <1>5

LEMMA RefreshedKeeps ==
  ASSUME Inv, NEW t \in Tabs, Refreshed(t)
  PROVE  Inv'
<1>1. PICK n \in Nat, s \in TabN :
            /\ n = wire[t]["refresh"].token /\ n \in 0..issued
            /\ wire[t]["refresh"].at = "answered"
            /\ tab' = [tab EXCEPT ![t] = s]
            /\ s.page = tab[t].page /\ s.loading = tab[t].loading
            /\ n # 0 => s.user = tab[t].user
            /\ n = 0 => ~s.user
            /\ jar' = IF n = 0 THEN jar ELSE n
            /\ call' = Flush(t, n) /\ call' \in [Calls -> CallN]
            /\ \A c \in Calls : call'[c].at \in Pending =>
                  call[c].at \in Pending /\ call'[c].tab = call[c].tab
            /\ wire' = Put(wire, t, "refresh", Idle)
            /\ UNCHANGED <<issued, stored, spent, calm, gone>>
  BY RefreshedFacts
<1>2. /\ tab' \in [Tabs -> TabN] /\ tab'[t] = s
      /\ \A u \in Tabs : u # t => tab'[u] = tab[u]
  BY <1>1, SetTab
<1>3. /\ TypeInv'
      /\ wire'[t]["refresh"] = Idle
      /\ \A u \in Tabs, f \in Endpoints : <<u, f>> # <<t, "refresh">> => wire'[u][f] = wire[u][f]
  <2>1. /\ TypeInv /\ jar' \in 0..issued
        /\ spent' \in [access : Nat, refresh : Nat]
        /\ calm' \in BOOLEAN /\ gone' \in BOOLEAN
    BY <1>1, TabFacts DEF Inv, TypeInv
  <2>2. Idle \in WireN /\ Idle.at # "answered" /\ Idle.at # "sent" /\ "refresh" \in Endpoints
    BY NewMessages, EndpointNames
  <2> QED
    BY <1>1, <1>2, <2>1, <2>2, PutTyped
<1>4. CalmInv'
  <2> SUFFICES ASSUME calm
               PROVE  /\ \A u \in Tabs : CalmTab(u)'
                      /\ \A c \in Calls : call'[c].at \in Pending => tab'[call'[c].tab].user
    BY <1>1 DEF Inv, CalmInv
  <2>1. (\A u \in Tabs : CalmTab(u)) /\ n # 0
    BY <1>1 DEF Inv, CalmInv, CalmTab
  <2>2. \A c \in Calls : call'[c].at \in Pending => tab'[call'[c].tab].user
    BY <1>1, <1>2, <2>1, CallsKeepTheirUser
  <2>3. ASSUME NEW u \in Tabs
        PROVE  CalmTab(u)'
    <3>1. CASE u # t
      BY <1>1, <1>2, <1>3, <2>1, <3>1, EndpointNames DEF CalmTab
    <3>2. CASE u = t
      <4>1. CalmTab(t) /\ wire'[t]["refresh"].at = "idle"
        BY <1>3, <2>1, NewMessages
      <4>2. \A e \in {"hydrate", "sign", "logout"} : wire'[t][e] = wire[t][e]
        BY <1>3, EndpointNames
      <4> QED
        BY <1>1, <1>2, <2>1, <3>2, <4>1, <4>2 DEF CalmTab
    <3> QED
      BY <3>1, <3>2
  <2> QED
    BY <2>2, <2>3
<1>5. GoneInv'
  <2> SUFFICES ASSUME gone
               PROVE  (\A u \in Tabs : GoneTab(u)') /\ (jar' = 0 \/ Leaving')
    BY <1>1 DEF GoneInv
  <2>1. (\A u \in Tabs : GoneTab(u)) /\ (jar = 0 \/ Leaving)
    BY DEF Inv, GoneInv
  <2>2. jar' = jar
    BY <1>1, <2>1 DEF GoneTab
  <2>3. \A u \in Tabs : GoneTab(u)'
    BY <1>3, <2>1, NewMessages, EndpointNames DEF GoneTab
  <2>4. Leaving => Leaving'
    BY <1>3, EndpointNames DEF Leaving
  <2> QED
    BY <2>1, <2>2, <2>3, <2>4
<1> QED
  BY <1>3, <1>4, <1>5 DEF Inv

-----------------------------------------------------------------------------
(* The theorems *)

LEMMA SessionInit == Init => Inv
<1> SUFFICES ASSUME Init
             PROVE  Inv
  OBVIOUS
<1>1. \A t \in Tabs, e \in Endpoints : wire[t][e] = Idle /\ wire[t][e].at = "idle"
  BY NewMessages DEF Init
<1>2. wire \in [Tabs -> [Endpoints -> WireN]]
  BY NewMessages DEF Init
<1>3. Closed \in TabN /\ ~Closed.user /\ Closed.loading /\ Closed.page = "closed"
  BY DEF Closed, TabN
<1>4. NoCall \in CallN /\ NoCall.at \notin Pending
  BY DEF CallN, NoCall, Pending
<1>5. TypeInv
  <2>1. issued \in Nat /\ stored \subseteq 1..issued /\ jar \in 0..issued
    BY DEF Init
  <2>3. spent \in [access : Nat, refresh : Nat]
    BY DEF Init
  <2>4. calm \in BOOLEAN /\ gone \in BOOLEAN
    BY DEF Init
  <2>2. tab \in [Tabs -> TabN] /\ call \in [Calls -> CallN]
    BY <1>3, <1>4 DEF Init
  <2> QED
    BY <1>1, <1>2, <2>1, <2>2, <2>3, <2>4 DEF TypeInv
<1>6. CalmInv
  <2>1. \A t \in Tabs : CalmTab(t)
    BY <1>1, <1>3, EndpointNames DEF Init, CalmTab
  <2>2. spent.refresh = 0 /\ stored = 1..issued
    BY DEF Init
  <2> QED
    BY <1>4, <2>1, <2>2 DEF Init, CalmInv
<1>7. GoneInv
  BY DEF Init, GoneInv
<1> QED
  BY <1>5, <1>6, <1>7 DEF Inv

LEMMA SessionNext == Inv /\ [Next]_vars => Inv'
<1> SUFFICES ASSUME Inv, [Next]_vars
             PROVE  Inv'
  OBVIOUS
<1>1. ASSUME NEW t \in Tabs, Answer(t)
      PROVE  Inv'
  BY <1>1, LoginKeeps, EndSessionKeeps, RefreshKeeps, HydratedKeeps, SignedKeeps,
     LoggedOutKeeps, RefreshedKeeps, RedirectKeeps DEF Answer
<1>2. ASSUME NEW t \in Tabs, UserNext(t)
      PROVE  Inv'
  BY <1>2, OpenKeeps, SignKeeps, LogoutKeeps, NavigateKeeps, SendKeeps DEF UserNext
<1>3. ASSUME NEW t \in Tabs, NEW e \in Endpoints, Lose(t, e)
      PROVE  Inv'
  BY <1>3, LoseKeeps
<1>4. ASSUME NEW c \in Calls, Proceed(c) \/ LoseCall(c)
      PROVE  Inv'
  BY <1>4, ServeKeeps, InterceptKeeps DEF Proceed
<1>5. CASE Expire
  BY <1>5, ExpireKeeps
<1>6. CASE UNCHANGED vars
  BY <1>6 DEF vars, serverVars, browserVars, historyVars, Inv, TypeInv, CalmInv, CalmTab,
     GoneInv, GoneTab, Leaving
<1> QED
  BY <1>1, <1>2, <1>3, <1>4, <1>5, <1>6 DEF Next

LEMMA SessionInv == Spec => []Inv
  BY SessionInit, SessionNext, PTL DEF Spec

\* Tabs that refresh side by side, each with the cookie they share, never sign each other out,
\* whatever their number (auth.service.ts:136-166, auth-context.tsx).
THEOREM SessionSurvivesRefreshes == Spec => []SessionSurvives
<1>1. Inv => SessionSurvives
  BY DEF Inv, CalmInv, CalmTab, SessionSurvives
<1> QED
  BY <1>1, SessionInv, PTL

\* No call is lost to an expired access token, unless its new one expires too
\* (api-client.ts:60-95).
THEOREM CallsSurviveRefreshes == Spec => CallsSurvive
<1>1. ASSUME Inv, Next, NEW c \in Calls, calm', call'[c] = Failed, call[c] # Failed
      PROVE  call[c].at = "resent" /\ ~Valid(call[c].token)
  <2>1. ASSUME NEW t \in Tabs
        PROVE  ~Refreshed(t)
    <3> SUFFICES ASSUME Refreshed(t)
                 PROVE  FALSE
      OBVIOUS
    <3>1. PICK n \in Nat : /\ n = wire[t]["refresh"].token /\ wire[t]["refresh"].at = "answered"
                           /\ call' = Flush(t, n) /\ calm' = calm
      BY <1>1, RefreshedFacts
    <3>2. n # 0
      BY <1>1, <3>1 DEF Inv, CalmInv, CalmTab
    <3>3. c \in Waiting(t)
      BY <1>1, <3>1 DEF Flush
    <3>4. call[c].at \in Pending
      BY <3>3 DEF Waiting, Pending
    <3>5. call'[c] = [call[c] EXCEPT !.at = "resent", !.token = n]
      BY <3>1, <3>2, <3>3 DEF Flush
    <3>6. call'[c].at = "resent"
      BY <1>1, <3>4, <3>5, CallFacts
    <3> QED
      BY <1>1, <3>6 DEF Failed
  <2>2. ASSUME NEW d \in Calls, NEW t \in Tabs
        PROVE  ~Send(d, t)
    <3> SUFFICES ASSUME Send(d, t)
                 PROVE  FALSE
      OBVIOUS
    <3>1. call'[c] = call[c] \/ call'[c] = [at |-> "sent", tab |-> t, token |-> tab[t].access]
      BY <1>1, CallFacts DEF Send
    <3> QED
      BY <1>1, <3>1 DEF Failed
  <2>3. ASSUME NEW d \in Calls
        PROVE  ~Intercept(d)
    <3> SUFFICES ASSUME Intercept(d)
                 PROVE  FALSE
      OBVIOUS
    <3>1. call[d].at \in Pending
      BY <1>1, CallFacts DEF Intercept
    <3>2. PICK a \in {"first", "queued"} : call' = [call EXCEPT ![d].at = a]
      BY DEF Intercept
    <3>3. call'[c] = call[c] \/ (call'[c] = [call[c] EXCEPT !.at = a] /\ c = d)
      BY <1>1, <3>2, CallFacts
    <3>4. call'[c] # call[c] => call'[c].at = a
      BY <1>1, <3>1, <3>3, CallFacts
    <3> QED
      BY <1>1, <3>4 DEF Failed
  <2>4. ASSUME NEW d \in Calls
        PROVE  ~LoseCall(d)
    BY <1>1 DEF LoseCall
  <2>5. PICK d \in Calls : Serve(d)
    BY <1>1, <2>1, <2>2, <2>3, <2>4 DEF Next, Answer, UserNext, Proceed, Login, EndSession, Refresh,
       Hydrated, Signed, LoggedOut, Redirect, Open, Sign, Logout, Navigate, Lose, Expire, browserVars
  <2>6. d = c
    BY <1>1, <2>5, CallFacts DEF Serve
  <2>7. call[c].at \in {"sent", "resent"}
        /\ call'[c] = IF Valid(call[c].token) THEN Done
                      ELSE IF call[c].at = "sent" THEN [call[c] EXCEPT !.at = "denied"] ELSE Failed
    BY <1>1, <2>5, <2>6, CallFacts DEF Serve
  <2>8. Done # Failed
    BY DEF Done, Failed
  <2>9. call[c].at = "sent" => [call[c] EXCEPT !.at = "denied"].at = "denied"
    BY <1>1, CallFacts
  <2> QED
    BY <1>1, <2>7, <2>8, <2>9 DEF Failed
<1>2. Inv /\ [Next]_vars => [\A c \in Calls : calm' /\ call'[c] = Failed /\ call[c] # Failed =>
                                call[c].at = "resent" /\ ~Valid(call[c].token)]_vars
  BY <1>1
<1> QED
  BY <1>2, SessionInv, PTL DEF Spec, CallsSurvive

\* After a logout that nothing overlapped, no tab brings the cookie back
\* (auth.controller.ts:69-77).
THEOREM LogoutLasts == Spec => []LogoutHolds
<1>1. Inv => LogoutHolds
  BY LeavingFacts DEF Inv, GoneInv, LogoutHolds
<1> QED
  BY <1>1, SessionInv, PTL

-----------------------------------------------------------------------------
(* The queue of a tab *)

Waits(c) == call[c].at \in {"first", "queued"}

\* A tab refreshes while its request is in flight, for one call that was refused first.
WaitInv ==
    /\ \A t \in Tabs :
          /\ tab[t].refreshing <=> wire[t]["refresh"].at # "idle"
          /\ tab[t].refreshing => \E c \in Calls : call[c].at = "first" /\ call[c].tab = t
    /\ \A c \in Calls : Waits(c) => tab[call[c].tab].refreshing
    /\ \A c, d \in Calls :
          call[c].at = "first" /\ call[d].at = "first" /\ call[c].tab = call[d].tab => c = d

\* What most steps leave alone.
SameQueues ==
    /\ \A t \in Tabs : /\ tab'[t].refreshing <=> tab[t].refreshing
                       /\ wire'[t]["refresh"].at = "idle" <=> wire[t]["refresh"].at = "idle"
    /\ \A c \in Calls : Waits(c) \/ Waits(c)' => call'[c] = call[c]

LEMMA QueuesKept == ASSUME Inv, WaitInv, SameQueues PROVE WaitInv'
<1>1. \A c \in Calls : Waits(c) => call[c].tab \in Tabs
  BY CallFacts DEF Waits
<1>2. \A c \in Calls : (Waits(c)' <=> Waits(c)) /\ (Waits(c)' => call'[c] = call[c])
  BY DEF SameQueues, Waits
<1>3. \A c \in Calls : call'[c].at = "first" => call[c].at = "first" /\ call'[c] = call[c]
  BY <1>2 DEF Waits
<1>4. \A c \in Calls : call[c].at = "first" => call'[c] = call[c]
  BY <1>2 DEF Waits
<1>5. \A t \in Tabs :
         /\ tab'[t].refreshing <=> wire'[t]["refresh"].at # "idle"
         /\ tab'[t].refreshing => \E c \in Calls : call'[c].at = "first" /\ call'[c].tab = t
  BY <1>4 DEF WaitInv, SameQueues
<1>6. \A c \in Calls : Waits(c)' => tab'[call'[c].tab].refreshing
  BY <1>1, <1>2 DEF WaitInv, SameQueues
<1>7. \A c, d \in Calls :
         call'[c].at = "first" /\ call'[d].at = "first" /\ call'[c].tab = call'[d].tab => c = d
  BY <1>3 DEF WaitInv
<1> QED
  BY <1>5, <1>6, <1>7 DEF WaitInv

\* A message of another endpoint, or another message of this one.
LEMMA OtherMessages ==
  ASSUME Inv, NEW t \in Tabs, NEW e \in Endpoints, NEW m \in WireN, wire' = Put(wire, t, e, m),
         e = "refresh" => (m.at = "idle" <=> wire[t][e].at = "idle")
  PROVE  \A u \in Tabs : wire'[u]["refresh"].at = "idle" <=> wire[u]["refresh"].at = "idle"
BY PutFacts, TabFacts, EndpointNames

\* A tab gets another page, user or token.
LEMMA OtherPage ==
  ASSUME Inv, NEW t \in Tabs, NEW s, tab' = [tab EXCEPT ![t] = s], s.refreshing <=> tab[t].refreshing
  PROVE  \A u \in Tabs : tab'[u].refreshing <=> tab[u].refreshing
BY TabFacts

LEMMA PageFacts ==
  ASSUME NEW s \in TabN, NEW n \in Nat, NEW p
  PROVE  /\ In(s, n) \in TabN /\ Out(s) \in TabN
         /\ In(s, n).refreshing = s.refreshing /\ Out(s).refreshing = s.refreshing
         /\ [s EXCEPT !.page = p].refreshing = s.refreshing
         /\ [s EXCEPT !.loading = FALSE].refreshing = s.refreshing
BY DEF TabN, In, Out

LEMMA AnswerQueues ==
  ASSUME Inv, NEW t \in Tabs, Answer(t), ~Refreshed(t)
  PROVE  SameQueues
<1>0. Idle \in WireN /\ Idle.at = "idle" /\ Cleared \in WireN /\ Cleared.at = "cleared"
      /\ \A n \in Nat : Answered(n) \in WireN /\ Answered(n).at = "answered"
  BY NewMessages
<1>1. ASSUME NEW e \in Endpoints, Refresh(t, e) \/ (e = "sign" /\ Login(t)) PROVE SameQueues
  <2>1. /\ wire[t][e].at = "sent" /\ UNCHANGED <<tab, call>>
        /\ \E n \in {0, issued + 1} : wire' = Put(wire, t, e, Answered(n))
    BY <1>1 DEF Refresh, Login, GenerateTokens, browserVars
  <2>2. PICK n \in Nat : wire' = Put(wire, t, e, Answered(n))
    BY <2>1, TabFacts
  <2>3. \A u \in Tabs : wire'[u]["refresh"].at = "idle" <=> wire[u]["refresh"].at = "idle"
    BY <1>0, <2>1, <2>2, OtherMessages
  <2> QED BY <2>1, <2>3 DEF SameQueues
<1>2. CASE EndSession(t)
  <2>1. UNCHANGED <<tab, call>> /\ wire' = Put(wire, t, "logout", Cleared)
    BY <1>2 DEF EndSession, browserVars
  <2>2. \A u \in Tabs : wire'[u]["refresh"].at = "idle" <=> wire[u]["refresh"].at = "idle"
    BY <1>0, <2>1, OtherMessages, EndpointNames
  <2> QED BY <2>1, <2>2 DEF SameQueues
<1>3. CASE Hydrated(t) \/ Signed(t) \/ LoggedOut(t)
  <2>1. call' = call /\ \E e \in {"hydrate", "sign", "logout"} : wire' = Put(wire, t, e, Idle)
    BY <1>3 DEF Hydrated, Signed, LoggedOut
  <2>2. \A u \in Tabs : wire'[u]["refresh"].at = "idle" <=> wire[u]["refresh"].at = "idle"
    BY <1>0, <2>1, OtherMessages, EndpointNames
  <2>3. \A u \in Tabs : tab'[u].refreshing <=> tab[u].refreshing
    <3>1. CASE Hydrated(t)
      <4>1. PICK n \in Nat : n = wire[t]["hydrate"].token
        BY <3>1, TabFacts, EndpointNames DEF Hydrated
      <4>2. tab' = [tab EXCEPT ![t] = [(IF n = 0 THEN Out(tab[t]) ELSE In(tab[t], n))
                                          EXCEPT !.loading = FALSE]]
        BY <3>1, <4>1 DEF Hydrated
      <4>3. PICK s \in TabN : s = (IF n = 0 THEN Out(tab[t]) ELSE In(tab[t], n))
                              /\ s.refreshing = tab[t].refreshing
        BY TabFacts, PageFacts
      <4>4. [s EXCEPT !.loading = FALSE].refreshing = tab[t].refreshing
        BY <4>3, PageFacts
      <4> QED BY <4>2, <4>3, <4>4, OtherPage
    <3>2. CASE Signed(t)
      <4>1. PICK n \in Nat : n = wire[t]["sign"].token
        BY <3>2, TabFacts, EndpointNames DEF Signed
      <4>2. tab' = tab \/ tab' = [tab EXCEPT ![t] = [In(tab[t], n) EXCEPT !.page = "app"]]
        BY <3>2, <4>1 DEF Signed
      <4>3. [In(tab[t], n) EXCEPT !.page = "app"].refreshing = tab[t].refreshing
        <5>1. PICK s \in TabN : s = In(tab[t], n) /\ s.refreshing = tab[t].refreshing
          BY TabFacts, PageFacts
        <5> QED BY <5>1, PageFacts, TabFacts
      <4> QED BY <4>2, <4>3, OtherPage
    <3>3. CASE LoggedOut(t)
      <4>1. tab' = [tab EXCEPT ![t] = Out(tab[t])]
        BY <3>3 DEF LoggedOut
      <4>2. Out(tab[t]).refreshing = tab[t].refreshing
        BY TabFacts, PageFacts
      <4> QED BY <4>1, <4>2, OtherPage
    <3> QED BY <1>3, <3>1, <3>2, <3>3
  <2> QED BY <2>1, <2>2, <2>3 DEF SameQueues
<1>4. CASE Redirect(t)
  <2>1. tab' = [tab EXCEPT ![t] = [tab[t] EXCEPT !.page = "login"]] /\ UNCHANGED <<wire, call>>
    BY <1>4 DEF Redirect
  <2>2. [tab[t] EXCEPT !.page = "login"].refreshing = tab[t].refreshing
    BY TabFacts, PageFacts
  <2>3. \A u \in Tabs : tab'[u].refreshing <=> tab[u].refreshing
    BY <2>1, <2>2, OtherPage
  <2> QED BY <2>1, <2>3 DEF SameQueues
<1> QED
  BY <1>1, <1>2, <1>3, <1>4, EndpointNames DEF Answer

LEMMA UserQueues ==
  ASSUME Inv, NEW t \in Tabs, UserNext(t)
  PROVE  SameQueues
<1>1. CASE Open(t) \/ Sign(t) \/ Logout(t)
  <2>1. call' = call /\ \E e \in {"hydrate", "sign", "logout"}, n \in {0, jar} : wire' = Put(wire, t, e, Sent(n))
    BY <1>1 DEF Open, Sign, Logout, browserVars
  <2>2. \A u \in Tabs : wire'[u]["refresh"].at = "idle" <=> wire[u]["refresh"].at = "idle"
    BY <2>1, NewMessages, OtherMessages, EndpointNames, TabFacts
  <2>3. tab' = tab \/ \E p : tab' = [tab EXCEPT ![t] = [tab[t] EXCEPT !.page = p]]
    BY <1>1 DEF Open, Sign, Logout, browserVars
  <2>4. \A p : [tab[t] EXCEPT !.page = p].refreshing <=> tab[t].refreshing
    BY TabFacts, PageFacts
  <2>5. \A u \in Tabs : tab'[u].refreshing <=> tab[u].refreshing
    BY <2>3, <2>4, OtherPage
  <2> QED BY <2>1, <2>2, <2>5 DEF SameQueues
<1>2. CASE Navigate(t)
  <2>1. UNCHANGED <<wire, call>> /\ \E p : tab' = [tab EXCEPT ![t] = [tab[t] EXCEPT !.page = p]]
    BY <1>2 DEF Navigate
  <2>2. \A u \in Tabs : tab'[u].refreshing <=> tab[u].refreshing
    BY <2>1, TabFacts, PageFacts, OtherPage
  <2> QED BY <2>1, <2>2 DEF SameQueues
<1>3. CASE \E c \in Calls : Send(c, t)
  <2> PICK c \in Calls : Send(c, t)
    BY <1>3
  <2>1. /\ UNCHANGED <<wire, tab>> /\ call[c] = NoCall
        /\ call' = [call EXCEPT ![c] = [at |-> "sent", tab |-> t, token |-> tab[t].access]]
    BY DEF Send
  <2>2. ~Waits(c) /\ ~Waits(c)'
    BY <2>1, CallFacts DEF Waits, NoCall
  <2> QED BY <2>1, <2>2, CallFacts DEF SameQueues
<1> QED
  BY <1>1, <1>2, <1>3 DEF UserNext

LEMMA ServeQueues ==
  ASSUME Inv, NEW c \in Calls, Serve(c) \/ LoseCall(c)
  PROVE  SameQueues
<1>1. UNCHANGED <<wire, tab>> /\ call[c].at \in {"sent", "resent"}
  BY DEF Serve, LoseCall
<1>2. call' = [call EXCEPT ![c] = call'[c]] /\ call'[c] \in {Done, Failed, [call[c] EXCEPT !.at = "denied"]}
  BY CallFacts DEF Serve, LoseCall
<1>3. [call[c] EXCEPT !.at = "denied"].at = "denied"
  BY <1>1, CallFacts
<1>4. call'[c].at \in {"done", "failed", "denied"}
  <2>1. Done.at = "done" /\ Failed.at = "failed"
    BY DEF Done, Failed
  <2> QED BY <1>2, <1>3, <2>1
<1>5. ~Waits(c) /\ ~Waits(c)'
  BY <1>1, <1>4 DEF Waits
<1> QED
  BY <1>1, <1>2, <1>5, CallFacts DEF SameQueues

\* A refused call waits for the refresh in flight, or starts one.
LEMMA InterceptQueues ==
  ASSUME Inv, WaitInv, NEW c \in Calls, Intercept(c)
  PROVE  WaitInv'
<1> DEFINE t == call[c].tab
<1>1. call[c].at = "denied" /\ call[c] \in [at : Pending, tab : Tabs, token : Nat] /\ t \in Tabs
  BY CallFacts DEF Intercept
<1>2. ASSUME NEW a \in {"first", "queued"}, call' = [call EXCEPT ![c].at = a]
      PROVE  /\ call'[c].at = a /\ call'[c].tab = t
             /\ \A d \in Calls : d # c => call'[d] = call[d]
  BY <1>1, <1>2, CallFacts
<1>3. CASE tab[t].refreshing
  <2>1. UNCHANGED <<wire, tab>> /\ call' = [call EXCEPT ![c].at = "queued"]
    BY <1>3 DEF Intercept
  <2>2. /\ call'[c].at = "queued" /\ call'[c].tab = t
        /\ \A d \in Calls : d # c => call'[d] = call[d]
    BY <1>2, <2>1
  <2>3. \A u \in Tabs :
           tab[u].refreshing => \E d \in Calls : call'[d].at = "first" /\ call'[d].tab = u
    BY <1>1, <2>2 DEF WaitInv
  <2>4. \A d \in Calls : Waits(d)' => tab[call'[d].tab].refreshing
    BY <1>3, <2>2 DEF WaitInv, Waits
  <2>5. \A d \in Calls : call'[d].at = "first" => d # c /\ call'[d] = call[d]
    BY <2>2
  <2> QED BY <2>1, <2>3, <2>4, <2>5 DEF WaitInv
<1>4. CASE ~tab[t].refreshing
  <2>1. /\ call' = [call EXCEPT ![c].at = "first"]
        /\ tab' = [tab EXCEPT ![t] = [tab[t] EXCEPT !.refreshing = TRUE]]
        /\ wire' = Put(wire, t, "refresh", Sent(jar))
    BY <1>4 DEF Intercept
  <2>2. /\ call'[c].at = "first" /\ call'[c].tab = t
        /\ \A d \in Calls : d # c => call'[d] = call[d]
    BY <1>2, <2>1
  <2>3. tab'[t].refreshing /\ \A u \in Tabs : u # t => tab'[u] = tab[u]
    BY <1>1, <2>1, TabFacts DEF TabN
  <2>4. /\ wire'[t]["refresh"].at = "sent"
        /\ \A u \in Tabs : u # t => wire'[u]["refresh"] = wire[u]["refresh"]
    BY <1>1, <2>1, TabFacts, PutFacts, NewMessages, EndpointNames
  <2>5. \A d \in Calls : Waits(d) => call[d].tab # t
    BY <1>4 DEF WaitInv
  <2>6. \A u \in Tabs :
           /\ tab'[u].refreshing <=> wire'[u]["refresh"].at # "idle"
           /\ tab'[u].refreshing => \E d \in Calls : call'[d].at = "first" /\ call'[d].tab = u
    <3> TAKE u \in Tabs
    <3>1. CASE u = t
      BY <2>2, <2>3, <2>4, <3>1
    <3>2. CASE u # t
      <4>1. tab'[u].refreshing => \E d \in Calls : call'[d].at = "first" /\ call'[d].tab = u
        BY <1>1, <2>2, <2>3, <3>2 DEF WaitInv
      <4> QED BY <2>3, <2>4, <3>2, <4>1 DEF WaitInv
    <3> QED BY <3>1, <3>2
  <2>7. \A d \in Calls : Waits(d)' => tab'[call'[d].tab].refreshing
    <3> SUFFICES ASSUME NEW d \in Calls, d # c, Waits(d)'
                 PROVE  tab'[call'[d].tab].refreshing
      BY <2>2, <2>3
    <3>1. call'[d] = call[d] /\ Waits(d)
      BY <2>2 DEF Waits
    <3>2. call[d].tab \in Tabs /\ call[d].tab # t /\ tab[call[d].tab].refreshing
      BY <2>5, <3>1, CallFacts DEF WaitInv, Waits
    <3> QED BY <2>3, <3>1, <3>2
  <2>8. \A d \in Calls : d # c /\ call'[d].at = "first" => call'[d] = call[d] /\ call[d].tab # t
    BY <2>2, <2>5 DEF Waits
  <2>9. \A d, f \in Calls :
           call'[d].at = "first" /\ call'[f].at = "first" /\ call'[d].tab = call'[f].tab => d = f
    BY <2>2, <2>8 DEF WaitInv
  <2> QED BY <2>6, <2>7, <2>9 DEF WaitInv
<1> QED
  BY <1>3, <1>4

\* The answer to the refresh leaves nobody of its tab waiting.
LEMMA RefreshedQueues ==
  ASSUME Inv, WaitInv, NEW t \in Tabs, Refreshed(t)
  PROVE  WaitInv'
<1>1. PICK n \in Nat : n = wire[t]["refresh"].token
  BY TabFacts, EndpointNames DEF Refreshed
<1>2. PICK s \in TabN : s = [tab[t] EXCEPT !.access = n, !.refreshing = FALSE] /\ ~s.refreshing
  <2>1. tab[t] \in TabN
    BY TabFacts
  <2>2. [tab[t] EXCEPT !.access = n, !.refreshing = FALSE] \in TabN
    BY <2>1 DEF TabN
  <2>3. ~[tab[t] EXCEPT !.access = n, !.refreshing = FALSE].refreshing
    BY <2>1 DEF TabN
  <2> QED BY <2>2, <2>3
<1>3. /\ tab' = [tab EXCEPT ![t] = IF n = 0 THEN Out(s) ELSE s]
      /\ call' = Flush(t, n) /\ wire' = Put(wire, t, "refresh", Idle)
  BY <1>1, <1>2 DEF Refreshed
<1>4. Out(s).refreshing = s.refreshing
  BY PageFacts
<1>5. ~tab'[t].refreshing /\ \A u \in Tabs : u # t => tab'[u] = tab[u]
  BY <1>2, <1>3, <1>4, TabFacts
<1>6. /\ wire'[t]["refresh"].at = "idle"
      /\ \A u \in Tabs : u # t => wire'[u]["refresh"] = wire[u]["refresh"]
  BY <1>3, TabFacts, PutFacts, NewMessages, EndpointNames
<1>7. \A c \in Calls : Waits(c) /\ call[c].tab = t => call'[c].at \in {"failed", "resent"}
  <2> SUFFICES ASSUME NEW c \in Calls, Waits(c), call[c].tab = t
               PROVE  call'[c].at \in {"failed", "resent"}
    OBVIOUS
  <2>1. c \in Waiting(t)
    BY DEF Waiting, Waits
  <2>2. call'[c] = IF n = 0 THEN Failed ELSE [call[c] EXCEPT !.at = "resent", !.token = n]
    BY <1>3, <2>1 DEF Flush
  <2>3. [call[c] EXCEPT !.at = "resent", !.token = n].at = "resent"
    BY CallFacts DEF Waits
  <2> QED BY <2>2, <2>3 DEF Failed
<1>8. \A c \in Calls : ~(Waits(c) /\ call[c].tab = t) => call'[c] = call[c]
  BY <1>3 DEF Flush, Waiting, Waits
<1>9. \A c \in Calls : Waits(c)' => call'[c] = call[c] /\ Waits(c) /\ call[c].tab # t
  BY <1>7, <1>8 DEF Waits
<1>10. \A u \in Tabs :
          /\ tab'[u].refreshing <=> wire'[u]["refresh"].at # "idle"
          /\ tab'[u].refreshing => \E c \in Calls : call'[c].at = "first" /\ call'[c].tab = u
  <2> TAKE u \in Tabs
  <2>1. CASE u = t
    BY <1>5, <1>6, <2>1
  <2>2. CASE u # t
    <3>1. tab'[u].refreshing => \E c \in Calls : call'[c].at = "first" /\ call'[c].tab = u
      BY <1>5, <1>8, <2>2 DEF WaitInv
    <3> QED BY <1>5, <1>6, <2>2, <3>1 DEF WaitInv
  <2> QED BY <2>1, <2>2
<1>11. \A c \in Calls : Waits(c)' => tab'[call'[c].tab].refreshing
  <2> SUFFICES ASSUME NEW c \in Calls, Waits(c)' PROVE tab'[call'[c].tab].refreshing
    OBVIOUS
  <2>1. call[c].tab \in Tabs
    BY <1>9, CallFacts DEF Waits
  <2> QED BY <1>5, <1>9, <2>1 DEF WaitInv
<1>12. \A c, d \in Calls :
          call'[c].at = "first" /\ call'[d].at = "first" /\ call'[c].tab = call'[d].tab => c = d
  BY <1>9 DEF WaitInv, Waits
<1> QED
  BY <1>10, <1>11, <1>12 DEF WaitInv

LEMMA WaitNext == ASSUME Inv, WaitInv, [Next]_vars PROVE WaitInv'
<1>1. ASSUME NEW t \in Tabs, Answer(t) PROVE WaitInv'
  BY <1>1, AnswerQueues, RefreshedQueues, QueuesKept
<1>2. ASSUME NEW t \in Tabs, UserNext(t) PROVE WaitInv'
  BY <1>2, UserQueues, QueuesKept
<1>3. ASSUME NEW t \in Tabs, NEW e \in Endpoints, Lose(t, e) PROVE WaitInv'
  <2>1. UNCHANGED <<tab, call>> /\ wire' = Put(wire, t, e, Answered(0)) /\ wire[t][e] # Idle
    BY <1>3 DEF Lose, browserVars
  <2>2. \A u \in Tabs : wire'[u]["refresh"].at = "idle" <=> wire[u]["refresh"].at = "idle"
    BY <2>1, NewMessages, MessageFacts, OtherMessages, TabFacts
  <2> QED BY <2>1, <2>2, QueuesKept DEF SameQueues
<1>4. ASSUME NEW c \in Calls, Proceed(c) \/ LoseCall(c) PROVE WaitInv'
  BY <1>4, ServeQueues, InterceptQueues, QueuesKept DEF Proceed
<1>5. CASE Expire \/ UNCHANGED vars
  <2>1. UNCHANGED <<tab, call, wire>>
    BY <1>5 DEF Expire, vars, browserVars
  <2> QED BY <2>1, QueuesKept DEF SameQueues
<1> QED
  BY <1>1, <1>2, <1>3, <1>4, <1>5 DEF Next

\* A call that waits for a refresh waits for one that is in flight, which exactly one call of its
\* tab has started, for any number of tabs and calls (api-client.ts:75-109).
THEOREM NoWaiterIsLost == Spec => []NoLostWaiter
<1>1. Init => WaitInv
  <2> SUFFICES ASSUME Init PROVE WaitInv
    OBVIOUS
  <2>1. \A t \in Tabs : ~tab[t].refreshing
    BY DEF Init, Closed
  <2>2. \A t \in Tabs : wire[t]["refresh"].at = "idle"
    BY NewMessages, EndpointNames DEF Init
  <2>3. \A c \in Calls : call[c].at = "idle"
    BY DEF Init, NoCall
  <2> QED BY <2>1, <2>2, <2>3 DEF WaitInv, Waits
<1>2. ASSUME Inv, WaitInv, NEW t \in Tabs
      PROVE  /\ tab[t].refreshing <=> InFlight(t, "refresh")
             /\ tab[t].refreshing <=> Waiting(t) # {}
             /\ Cardinality({c \in Waiting(t) : call[c].at = "first"}) <= 1
  <2>1. tab[t].refreshing <=> InFlight(t, "refresh")
    BY <1>2, LeavingFacts, EndpointNames DEF WaitInv, Inv
  <2>2. tab[t].refreshing <=> Waiting(t) # {}
    BY <1>2 DEF WaitInv, Waits, Waiting
  <2> DEFINE Firsts == {c \in Waiting(t) : call[c].at = "first"}
  <2>3. Firsts = {} \/ \E c \in Calls : Firsts = {c}
    BY <1>2 DEF WaitInv, Waiting
  <2>4. Cardinality(Firsts) <= 1
    <3> HIDE DEF Firsts
    <3> QED BY <2>3, FS_EmptySet, FS_Singleton
  <2> QED BY <2>1, <2>2, <2>4
<1>3. Inv /\ WaitInv => NoLostWaiter
  BY <1>2 DEF NoLostWaiter
<1>4. Inv /\ WaitInv /\ [Next]_vars => WaitInv'
  BY WaitNext
<1> QED
  BY <1>1, <1>3, <1>4, SessionInv, PTL DEF Spec

-----------------------------------------------------------------------------
(* Nothing holds a token that was not issued *)

\* What is spent, held by tabs and carried by calls has been issued.
BoundInv ==
    /\ spent.refresh <= spent.access /\ spent.access <= issued
    /\ \A t \in Tabs : tab[t].access <= issued
    /\ \A c \in Calls : call[c].at \in Pending => call[c].token <= issued
    /\ signs \in 0..MaxSigns /\ faults \in 0..MaxFaults

\* Tabs and calls keep the token they have, or take one that was issued.
TabsTake == \A t \in Tabs : tab'[t].access = tab[t].access \/ tab'[t].access <= issued
CallsTake ==
    \A c \in Calls : call'[c].at \in Pending =>
        \/ call[c].at \in Pending /\ call'[c].token = call[c].token
        \/ call'[c].token <= issued

LEMMA BoundsKept ==
  ASSUME Inv, Inv', BoundInv, issued' \in {issued, issued + 1}, TabsTake, CallsTake,
         spent' = spent, signs' \in 0..MaxSigns, faults' \in 0..MaxFaults
  PROVE  BoundInv'
<1>1. issued \in Nat /\ issued <= issued' /\ issued' \in Nat /\ spent \in [access : Nat, refresh : Nat]
  BY DEF Inv, TypeInv
<1>2. \A t \in Tabs : tab[t].access \in Nat /\ tab'[t].access \in Nat
  BY DEF Inv, TypeInv, TabN
<1>3. \A c \in Calls : /\ call[c].at \in Pending => call[c].token \in Nat
                       /\ call'[c].at \in Pending => call'[c].token \in Nat
  BY DEF Inv, TypeInv, CallN, NoCall, Done, Failed, Pending
<1>4. \A t \in Tabs : tab'[t].access <= issued'
  BY <1>1, <1>2 DEF BoundInv, TabsTake
<1>5. \A c \in Calls : call'[c].at \in Pending => call'[c].token <= issued'
  BY <1>1, <1>3 DEF BoundInv, CallsTake
<1>6. spent'.refresh <= spent'.access /\ spent'.access <= issued'
  BY <1>1 DEF BoundInv
<1> QED
  BY <1>4, <1>5, <1>6 DEF BoundInv

LEMMA AccessFacts ==
  ASSUME NEW s \in TabN, NEW n \in Nat, NEW p
  PROVE  /\ In(s, n).access = n /\ Out(s).access = 0
         /\ [s EXCEPT !.page = p].access = s.access
         /\ [s EXCEPT !.loading = FALSE].access = s.access
BY DEF TabN, In, Out

\* One tab takes the place of what it was.
LEMMA OneTakes ==
  ASSUME Inv, NEW t \in Tabs, NEW s, tab' = [tab EXCEPT ![t] = s],
         s.access = tab[t].access \/ s.access <= issued
  PROVE  TabsTake
BY TabFacts DEF TabsTake

LEMMA AnswerBounds ==
  ASSUME Inv, BoundInv, Inv', NEW t \in Tabs, Answer(t)
  PROVE  BoundInv'
<1>1. issued \in Nat
  BY TabFacts
<1>2. \A c \in Calls : call'[c] = call[c] \/ Refreshed(t)
  BY DEF Answer, Login, EndSession, Refresh, Hydrated, Signed, LoggedOut, Redirect, browserVars
<1>3. spent' = spent /\ signs' = signs /\ faults' = faults /\ issued' \in {issued, issued + 1}
  BY DEF Answer, Login, EndSession, Refresh, GenerateTokens, Hydrated, Signed, LoggedOut, Refreshed,
         Redirect, serverVars, browserVars, historyVars
<1>4. ASSUME NEW e \in Endpoints, wire[t][e].at = "answered"
      PROVE  wire[t][e].token \in 0..issued
  BY <1>4, TabFacts
<1>5. TabsTake /\ CallsTake
  <2>1. CASE UNCHANGED <<tab, call>>
    BY <2>1 DEF TabsTake, CallsTake
  <2>2. CASE Hydrated(t)
    <3>1. PICK n \in 0..issued : n = wire[t]["hydrate"].token
      BY <1>4, <2>2, EndpointNames DEF Hydrated
    <3>2. PICK s \in TabN : s = (IF n = 0 THEN Out(tab[t]) ELSE In(tab[t], n)) /\ s.access \in {0, n}
      BY <1>1, <3>1, TabFacts, PageFacts, AccessFacts
    <3>3. tab' = [tab EXCEPT ![t] = [s EXCEPT !.loading = FALSE]] /\ call' = call
      BY <2>2, <3>1, <3>2 DEF Hydrated
    <3>4. [s EXCEPT !.loading = FALSE].access <= issued
      BY <1>1, <3>1, <3>2, AccessFacts
    <3> QED BY <3>3, <3>4, OneTakes DEF CallsTake
  <2>3. CASE Signed(t)
    <3>1. PICK n \in 0..issued : n = wire[t]["sign"].token
      BY <1>4, <2>3, EndpointNames DEF Signed
    <3>2. PICK s \in TabN : s = In(tab[t], n) /\ s.access = n
      BY <1>1, <3>1, TabFacts, PageFacts, AccessFacts
    <3>3. (tab' = tab \/ tab' = [tab EXCEPT ![t] = [s EXCEPT !.page = "app"]]) /\ call' = call
      BY <2>3, <3>1, <3>2 DEF Signed
    <3>4. [s EXCEPT !.page = "app"].access <= issued
      BY <1>1, <3>1, <3>2, AccessFacts
    <3>5. TabsTake
      <4>1. CASE tab' = tab
        BY <4>1 DEF TabsTake
      <4> QED BY <3>3, <3>4, <4>1, OneTakes
    <3> QED BY <3>3, <3>5 DEF CallsTake
  <2>4. CASE LoggedOut(t)
    <3>1. PICK s \in TabN : s = Out(tab[t]) /\ s.access = 0
      BY <1>1, TabFacts, PageFacts, AccessFacts
    <3>2. tab' = [tab EXCEPT ![t] = s] /\ call' = call
      BY <2>4, <3>1 DEF LoggedOut
    <3>3. s.access <= issued
      BY <1>1, <3>1
    <3>4. TabsTake
      BY <3>2, <3>3, OneTakes
    <3> QED BY <3>2, <3>4 DEF CallsTake
  <2>5. CASE Redirect(t)
    <3>1. tab' = [tab EXCEPT ![t] = [tab[t] EXCEPT !.page = "login"]] /\ call' = call
      BY <2>5 DEF Redirect
    <3>2. [tab[t] EXCEPT !.page = "login"].access = tab[t].access
      BY <1>1, TabFacts, AccessFacts
    <3> QED BY <3>1, <3>2, OneTakes DEF CallsTake
  <2>6. CASE Refreshed(t)
    <3>1. PICK n \in 0..issued : n = wire[t]["refresh"].token
      BY <1>4, <2>6, EndpointNames DEF Refreshed
    <3>2. PICK s \in TabN : s = [tab[t] EXCEPT !.access = n, !.refreshing = FALSE] /\ s.access = n
      <4>1. tab[t] \in TabN /\ n \in Nat
        BY <1>1, <3>1, TabFacts
      <4>2. [tab[t] EXCEPT !.access = n, !.refreshing = FALSE] \in TabN
        BY <4>1 DEF TabN
      <4>3. [tab[t] EXCEPT !.access = n, !.refreshing = FALSE].access = n
        BY <4>1 DEF TabN
      <4> QED BY <4>2, <4>3
    <3>3. PICK r \in TabN : r = (IF n = 0 THEN Out(s) ELSE s) /\ r.access <= issued
      <4>1. Out(s) \in TabN /\ Out(s).access = 0
        BY <1>1, <3>2, PageFacts, AccessFacts
      <4>2. 0 <= issued /\ n <= issued
        BY <1>1, <3>1
      <4>3. Out(s).access <= issued /\ s.access <= issued
        BY <3>2, <4>1, <4>2
      <4>4. (IF n = 0 THEN Out(s) ELSE s) \in {Out(s), s}
        OBVIOUS
      <4> QED BY <3>2, <4>1, <4>3, <4>4
    <3>4. tab' = [tab EXCEPT ![t] = r] /\ call' = Flush(t, n)
      BY <2>6, <3>1, <3>2, <3>3 DEF Refreshed
    <3>5. TabsTake
      BY <3>3, <3>4, OneTakes
    <3>6. CallsTake
      <4> SUFFICES ASSUME NEW c \in Calls, call'[c].at \in Pending
                   PROVE  \/ call[c].at \in Pending /\ call'[c].token = call[c].token
                          \/ call'[c].token <= issued
        BY DEF CallsTake
      <4>1. CASE c \notin Waiting(t)
        BY <3>4, <4>1 DEF Flush
      <4>2. CASE c \in Waiting(t)
        <5>1. call[c] \in [at : Pending, tab : Tabs, token : Nat]
          BY <4>2, CallFacts DEF Waiting
        <5>2. [call[c] EXCEPT !.at = "resent", !.token = n].token = n
          BY <5>1
        <5>3. call'[c] = [call[c] EXCEPT !.at = "resent", !.token = n]
          BY <3>4, <4>2, CallFacts DEF Flush
        <5> QED BY <1>1, <3>1, <5>2, <5>3
      <4> QED BY <4>1, <4>2
    <3> QED BY <3>5, <3>6
  <2> QED
    BY <2>1, <2>2, <2>3, <2>4, <2>5, <2>6 DEF Answer, Login, EndSession, Refresh, browserVars
<1> QED
  BY <1>3, <1>5, BoundsKept DEF BoundInv

LEMMA UserBounds ==
  ASSUME Inv, BoundInv, Inv', NEW t \in Tabs, UserNext(t)
  PROVE  BoundInv'
<1>1. issued' = issued /\ spent' = spent /\ faults' = faults /\ signs' \in 0..MaxSigns
  BY SessionAssumption DEF UserNext, Open, Sign, Logout, Navigate, Send, serverVars, historyVars, BoundInv
<1>2. TabsTake
  <2>1. tab' = tab \/ \E p : tab' = [tab EXCEPT ![t] = [tab[t] EXCEPT !.page = p]]
    BY DEF UserNext, Open, Sign, Logout, Navigate, Send, browserVars
  <2>2. \A p : [tab[t] EXCEPT !.page = p].access = tab[t].access
    BY TabFacts, AccessFacts
  <2>3. CASE tab' = tab
    BY <2>3 DEF TabsTake
  <2> QED BY <2>1, <2>2, <2>3, OneTakes
<1>3. CallsTake
  <2>1. CASE call' = call
    BY <2>1 DEF CallsTake
  <2>2. CASE \E c \in Calls : Send(c, t)
    <3> PICK c \in Calls : Send(c, t)
      BY <2>2
    <3>1. /\ call'[c] = [at |-> "sent", tab |-> t, token |-> tab[t].access]
          /\ \A d \in Calls : d # c => call'[d] = call[d]
      BY CallFacts DEF Send
    <3> QED BY <3>1 DEF CallsTake, BoundInv
  <2> QED BY <2>1, <2>2 DEF UserNext, Open, Sign, Logout, Navigate, browserVars
<1> QED
  BY <1>1, <1>2, <1>3, BoundsKept DEF BoundInv

LEMMA CallBounds ==
  ASSUME Inv, BoundInv, Inv', NEW c \in Calls, Proceed(c) \/ LoseCall(c)
  PROVE  BoundInv'
<1>1. issued' = issued /\ spent' = spent /\ signs' = signs /\ faults' \in 0..MaxFaults
  BY SessionAssumption DEF Proceed, Serve, Intercept, LoseCall, serverVars, historyVars, BoundInv
<1>2. call[c] \in [at : Pending, tab : Tabs, token : Nat]
  BY CallFacts DEF Proceed, Serve, Intercept, LoseCall
<1>3. TabsTake
  <2>1. tab' = tab \/ tab' = [tab EXCEPT ![call[c].tab] = [tab[call[c].tab] EXCEPT !.refreshing = TRUE]]
    BY DEF Proceed, Serve, Intercept, LoseCall
  <2>2. call[c].tab \in Tabs /\ tab[call[c].tab] \in TabN
    BY <1>2, TabFacts
  <2>3. [tab[call[c].tab] EXCEPT !.refreshing = TRUE].access = tab[call[c].tab].access
    BY <2>2 DEF TabN
  <2>4. CASE tab' = tab
    BY <2>4 DEF TabsTake
  <2> QED BY <2>1, <2>2, <2>3, <2>4, OneTakes
<1>4. CallsTake
  <2>1. \A d \in Calls : d # c => call'[d] = call[d]
    BY CallFacts DEF Proceed, Serve, Intercept, LoseCall
  <2>2. call'[c] \in {Done, Failed} \/ \E a \in Pending : call'[c] = [call[c] EXCEPT !.at = a]
    BY CallFacts DEF Proceed, Serve, Intercept, LoseCall, Pending
  <2>3. \A a \in Pending : [call[c] EXCEPT !.at = a].token = call[c].token
    BY <1>2
  <2>4. call'[c].at \in Pending => call'[c].token = call[c].token
    BY <2>2, <2>3, CallFacts
  <2> QED BY <1>2, <2>1, <2>4 DEF CallsTake
<1> QED
  BY <1>1, <1>3, <1>4, BoundsKept DEF BoundInv

LEMMA ExpireBounds == ASSUME Inv, BoundInv, Expire PROVE BoundInv'
<1>1. UNCHANGED <<issued, tab, call, signs, faults>>
  BY DEF Expire, serverVars, browserVars
<1>2. issued \in Nat /\ spent \in [access : Nat, refresh : Nat]
  BY DEF Inv, TypeInv
<1>3. spent'.refresh <= spent'.access /\ spent'.access <= issued
  BY <1>2 DEF Expire, BoundInv
<1> QED
  BY <1>1, <1>3 DEF BoundInv

LEMMA BoundNext == ASSUME Inv, BoundInv, Inv', [Next]_vars PROVE BoundInv'
<1>1. ASSUME NEW t \in Tabs, NEW e \in Endpoints, Lose(t, e) PROVE BoundInv'
  <2>1. UNCHANGED <<issued, spent, tab, call, signs>> /\ faults' \in 0..MaxFaults
    BY <1>1, SessionAssumption DEF Lose, serverVars, browserVars, BoundInv
  <2>2. TabsTake /\ CallsTake
    BY <2>1 DEF TabsTake, CallsTake
  <2> QED BY <2>1, <2>2, BoundsKept DEF BoundInv
<1>2. CASE UNCHANGED vars
  BY <1>2 DEF vars, serverVars, browserVars, historyVars, BoundInv
<1> QED
  BY <1>1, <1>2, AnswerBounds, UserBounds, CallBounds, ExpireBounds DEF Next

LEMMA BoundsMakeTypes == ASSUME Inv, BoundInv PROVE SessionTypeOK
<1>1. issued \in Nat /\ stored \subseteq Tokens \ {0} /\ jar \in Tokens
  BY DEF Inv, TypeInv, Tokens
<1>2. spent \in [access : Tokens, refresh : Tokens] /\ spent.refresh <= spent.access
  BY DEF Inv, TypeInv, Tokens, BoundInv
<1>3. tab \in [Tabs -> Tab]
  BY DEF Inv, TypeInv, TabN, Tab, Tokens, BoundInv
<1>4. wire \in [Tabs -> [Endpoints -> Wire]]
  <2> SUFFICES ASSUME NEW t \in Tabs, NEW e \in Endpoints
               PROVE  wire[t][e] \in Wire
    BY DEF Inv, TypeInv
  <2>1. /\ wire[t][e] \in WireN
        /\ wire[t][e].at = "sent" => wire[t][e].cookie <= issued
        /\ wire[t][e].at = "answered" => wire[t][e].token <= issued
    BY DEF Inv, TypeInv
  <2>2. \A n \in Nat : n <= issued => n \in Tokens
    BY <1>1 DEF Tokens
  <2> QED BY <2>1, <2>2 DEF WireN, Wire, Sent, Answered
<1>5. call \in [Calls -> Call]
  BY DEF Inv, TypeInv, CallN, Call, NoCall, Done, Failed, Pending, Tokens, BoundInv
<1>6. /\ signs \in 0..MaxSigns /\ faults \in 0..MaxFaults
      /\ calm \in BOOLEAN /\ gone \in BOOLEAN
  BY DEF Inv, TypeInv, BoundInv
<1> QED
  BY <1>1, <1>2, <1>3, <1>4, <1>5, <1>6 DEF SessionTypeOK

\* Tabs, cookies, messages and calls hold only tokens that were issued, and a call that waits for a
\* refresh waits for one that is in flight (auth.service.ts:136-166, 228-241, api-client.ts:75-109).
THEOREM SessionStaysSafe == Spec => []SessionSafe
<1>1. Init => BoundInv
  BY SessionAssumption DEF Init, BoundInv, Closed, NoCall, Pending
<1>2. Inv /\ Inv' /\ BoundInv /\ [Next]_vars => BoundInv'
  BY BoundNext
<1>3. Inv /\ BoundInv => SessionTypeOK
  BY BoundsMakeTypes
<1>4. SessionTypeOK /\ NoLostWaiter => SessionSafe
  BY DEF SessionSafe
<1> QED
  BY <1>1, <1>2, <1>3, <1>4, SessionInv, NoWaiterIsLost, PTL DEF Spec
=============================================================================
