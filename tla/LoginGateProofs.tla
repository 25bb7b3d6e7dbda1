---------------------------- MODULE LoginGateProofs ----------------------------
(***************************************************************************)
(* The way into the client keeps the promise of LoginSteps, for any number *)
(* of tabs, guesses and scenes.  What a cookie, an answer or a tab says of *)
(* the user was true when it was said; and as steps are never taken back,  *)
(* it is true still, however late it is stored or heard.  The secret that  *)
(* is pending may go back: hence the last part, about the QR code.         *)
(***************************************************************************)
EXTENDS LoginGate, TLAPS

BothSteps == {"aup", "mfa"}
(* Pages, their addresses and where an answer leads.                       *)
Places == {"", "/", "404", "again", "2fa", "aup", "closed", "crashed", "home", "idp", "landing",
           "leaving", "loading", "missing", "profile", "proxy", "service", "service-aup", "update"}
Sheets == {"form", "lost", "reset"}
Ops == {"agree", "authorization", "bulk", "get2fa", "get2faProxyAuthz", "logout", "me", "preUpdate2fa",
        "refresh", "resetRequest", "reset2fa", "respondents", "resume", "schacHome", "serviceAup",
        "serviceByUuid4", "update2fa", "verify2fa", "verify2faProxyAuthz"}
(* What is said of the user is among the steps that have been done.        *)
Sound(said, done) == (said.aup => "aup" \in done) /\ (said.confirmed => "mfa" \in done)

(* The cookies, users, calls and tabs there may be once these are done.    *)
Cookies(done) ==
  {s \in [user : BOOLEAN, aup : BOOLEAN, confirmed : BOOLEAN, pending : Nat,
          checked : BOOLEAN, dest : Places] : Sound(s, done)}
Accounts(done) ==
  {me \in [guest : BOOLEAN, suspended : BOOLEAN, aup : BOOLEAN, confirmed : BOOLEAN,
           factor : BOOLEAN, missing : BOOLEAN] : Sound(me, done)}
Calls(done) ==
  [tab : Tabs \union {"nobody"}, op : Ops, code : Nat, path : Places, cookie : Cookies(done),
   sets : BOOLEAN, status : Nat, me : Accounts(done), live : BOOLEAN, old : BOOLEAN]
TabStates(done) ==
  {tab \in [page : Places, at : Places, me : Accounts(done), loading : BOOLEAN, busy : BOOLEAN,
            error : BOOLEAN, sheet : Sheets, qr : Nat, colleagues : BOOLEAN, via : BOOLEAN, n : Nat] :
     tab.page \in Pages => done = BothSteps}

(* What every step leaves to the next.                                     *)
GateInv ==
  /\ db \in [aup : BOOLEAN, secret : Nat, suspended : BOOLEAN, services : BOOLEAN,
             token : Nat, mails : Nat, recent : BOOLEAN, uuid : Nat]
  /\ (db.aup => "aup" \in did) /\ (db.recent => "mfa" \in did)
  /\ made \in Nat /\ device \in SUBSET Nat /\ did \in SUBSET BothSteps
  /\ jar \in Cookies(did) /\ net \in SUBSET Calls(did) /\ tabs \in [Tabs -> TabStates(did)]
(* All tabs but one are left alone.                                        *)
Only(t) == \A u \in Tabs \ {t} : tabs'[u] = tabs[u]

LEMMA Monotone ==
  ASSUME NEW done \in SUBSET BothSteps, NEW more \in SUBSET BothSteps, done \subseteq more
  PROVE  /\ Cookies(done) \subseteq Cookies(more) /\ Accounts(done) \subseteq Accounts(more)
         /\ Calls(done) \subseteq Calls(more) /\ TabStates(done) \subseteq TabStates(more)
<1>1. Cookies(done) \subseteq Cookies(more)
  BY DEF Cookies, Sound
<1>2. Accounts(done) \subseteq Accounts(more)
  BY DEF Accounts, Sound
<1>3. Calls(done) \subseteq Calls(more)
  BY <1>1, <1>2 DEF Calls
<1>4. TabStates(done) \subseteq TabStates(more)
  BY <1>2 DEF TabStates, BothSteps
<1> QED BY <1>1, <1>2, <1>3, <1>4

LEMMA Nobody ==
  ASSUME NEW done PROVE Stranger \in Cookies(done) /\ Guest \in Accounts(done)
<1>1. Stranger \in Cookies(done)
  BY DEF Stranger, Cookies, Sound, None, Places
<1> QED BY <1>1 DEF Guest, Accounts, Sound

LEMMA CallType ==
  ASSUME NEW done, jar' \in Cookies(done),
         NEW t \in Tabs, NEW op \in Ops, NEW code \in Nat, NEW path \in Places
  PROVE  Call(t, op, code, path) \in Calls(done)
BY Nobody DEF Call, Calls

LEMMA MountedType ==
  ASSUME NEW done, NEW tab \in TabStates(done), NEW me \in Accounts(done),
         NEW page \in Places, NEW at \in Places, page \in Pages => done = BothSteps
  PROVE  Mounted(tab, page, at, me) \in TabStates(done)
<1>1. me.guest \in BOOLEAN /\ me.factor \in BOOLEAN
  BY DEF Accounts
<1> DEFINE via == page = "proxy" /\ (me.guest \/ me.factor)
           loading == \/ page \in {"update", "service-aup"}
                      \/ (page \in {"2fa", "proxy"} /\ (me.guest \/ ~me.factor))
           q == [tab EXCEPT !.page = page, !.at = at, !.me = me, !.busy = FALSE, !.error = FALSE,
                   !.sheet = "form", !.qr = None, !.colleagues = FALSE, !.via = via, !.loading = loading]
<1>2. via \in BOOLEAN /\ loading \in BOOLEAN
  OBVIOUS
<1>3. Mounted(tab, page, at, me) = q
  BY DEF Mounted
<1> HIDE DEF via, loading
<1> DEFINE p == [tab EXCEPT !.page = page, !.at = at, !.me = me, !.busy = FALSE, !.error = FALSE]
<1>4. p \in TabStates(done)
  BY DEF TabStates
<1>5. q = [p EXCEPT !.sheet = "form", !.qr = None, !.colleagues = FALSE, !.via = via, !.loading = loading]
  BY DEF TabStates
<1> HIDE DEF p, q
<1>6. None \in Nat /\ "form" \in Sheets
  BY DEF None, Sheets
<1>7. q \in TabStates(done)
  BY <1>2, <1>4, <1>5, <1>6 DEF TabStates
<1> QED BY <1>3, <1>7

(* ProtectedRoute and the redirects: a page only with both steps.          *)
LEMMA RoutedPage ==
  ASSUME NEW done \in SUBSET BothSteps, NEW me \in Accounts(done), NEW page \in Places
  PROVE  Routed(page, me) \in Places /\ (Routed(page, me) \in Pages => done = BothSteps)
<1>1. /\ me.guest \in BOOLEAN /\ me.aup \in BOOLEAN /\ me.confirmed \in BOOLEAN
      /\ me.missing \in BOOLEAN /\ Sound(me, done)
  BY DEF Accounts
<1>2. ASSUME NEW p \in Places
      PROVE  Protected(p, me) \in Places /\ (Protected(p, me) \in Pages => done = BothSteps)
  BY <1>1, <1>2 DEF Protected, Pages, Places, Sound, BothSteps
<1>3. CASE page = "/"
  BY <1>1, <1>2, <1>3 DEF Routed, Pages, Places
<1>4. CASE page = "aup"
  BY <1>1, <1>4 DEF Routed, Pages, Places
<1>5. CASE page = "2fa"
  BY <1>1, <1>5 DEF Routed, Pages, Places
<1>6. CASE page \in Pages
  <2>1. Routed(page, me) = Protected(page, me)
    BY <1>6 DEF Routed, Pages
  <2> QED BY <1>2, <2>1
<1>7. CASE page = "missing"
  BY <1>1, <1>7 DEF Routed, Pages, Places
<1>8. CASE page \notin {"/", "aup", "2fa", "missing"} \union Pages
  BY <1>8 DEF Routed, Pages, Places
<1> QED BY <1>3, <1>4, <1>5, <1>6, <1>7, <1>8

LEMMA ArrivalType ==
  ASSUME NEW done \in SUBSET BothSteps, NEW tab \in TabStates(done), NEW me \in Accounts(done),
         NEW page \in Places
  PROVE  Arrival(tab, page, me) \in TabStates(done)
<1>1. tab.at \in Places
  BY DEF TabStates
<1> QED BY <1>1, RoutedPage, MountedType DEF Arrival

LEMMA MountCallsType ==
  ASSUME NEW done, jar' \in Cookies(done), NEW t \in Tabs, NEW tab \in TabStates(done)
  PROVE  MountCalls(t, tab) \subseteq Calls(done)
<1>1. tab.at \in Places
  BY DEF TabStates
<1>2. \A op \in Ops, path \in Places : Call(t, op, None, path) \in Calls(done)
  BY CallType DEF None
<1>3. CASE tab.page = "leaving"
  <2>1. MountCalls(t, tab) = {Call(t, "authorization", None, tab.at)}
    BY <1>3 DEF MountCalls
  <2>2. \A op \in {"authorization"} : Call(t, op, None, tab.at) \in Calls(done)
    BY <1>1, <1>2 DEF Ops
  <2> QED BY <2>1, <2>2
<1>4. CASE tab.page = "proxy" /\ tab.me.guest
  BY <1>2, <1>4 DEF MountCalls, Ops, Places
<1>5. CASE tab.page = "update" \/ (tab.page \in {"2fa", "proxy"} /\ ~tab.me.guest /\ ~tab.me.factor)
  BY <1>2, <1>5 DEF MountCalls, Ops, Places
<1>6. CASE tab.page = "service-aup"
  BY <1>2, <1>6 DEF MountCalls, Ops, Places
<1>7. CASE ~(\/ tab.page = "leaving" \/ (tab.page = "proxy" /\ tab.me.guest)
             \/ tab.page = "update" \/ (tab.page \in {"2fa", "proxy"} /\ ~tab.me.guest /\ ~tab.me.factor)
             \/ tab.page = "service-aup")
  BY <1>7 DEF MountCalls, Ops, Places
<1> QED BY <1>3, <1>4, <1>5, <1>6, <1>7

LEMMA HeaderType ==
  ASSUME NEW done, jar' \in Cookies(done), NEW t \in Tabs, NEW me
  PROVE  HeaderMounted(t, me) \subseteq Calls(done) /\ HeaderReceives(t, me) \subseteq Calls(done)
<1>1. Call(t, "schacHome", None, "") \in Calls(done)
  BY CallType DEF None, Ops, Places
<1> QED BY <1>1 DEF HeaderMounted, HeaderReceives

LEMMA DroppedType ==
  ASSUME NEW done, NEW cs \in SUBSET Calls(done), NEW t
  PROVE  Unmounted(t, cs) \subseteq Calls(done) /\ Dropped(t, cs) \subseteq Calls(done)
<1>1. \A c \in Calls(done) : [c EXCEPT !.live = FALSE] \in Calls(done)
  BY DEF Calls
<1>2. \A c \in Calls(done) : [c EXCEPT !.tab = "nobody"] \in Calls(done)
  BY DEF Calls
<1> QED BY <1>1, <1>2 DEF Unmounted, Dropped

-------------------------------------------------------------------------------
(* What the operators that change tabs and calls keep, of one tab.         *)
Keeps(t) == /\ net' \in SUBSET Calls(did) /\ tabs' \in [Tabs -> TabStates(did)] /\ Only(t)

LEMMA StateOf ==
  ASSUME GateInv, NEW t \in Tabs
  PROVE  /\ tabs[t] \in TabStates(did) /\ tabs[t].me \in Accounts(did) /\ tabs[t].n \in Nat
         /\ tabs[t].page \in Places /\ tabs[t].at \in Places
         /\ (tabs[t].page \in Pages => did = BothSteps)
BY DEF GateInv, TabStates

LEMMA LoadedKeeps ==
  ASSUME GateInv, jar' \in Cookies(did), NEW t \in Tabs, NEW cs \in SUBSET Calls(did),
         NEW url \in Places, NEW n \in Nat, Loaded(t, cs, url, n)
  PROVE  Keeps(t)
<1> DEFINE at == IF url = "missing" THEN tabs[t].at ELSE url
           tab == [Mounted(tabs[t], "loading", at, Guest) EXCEPT !.n = n]
<1>0. at \in Places /\ "loading" \in Places /\ "loading" \notin Pages
  BY StateOf DEF Places, Pages
<1>1. Mounted(tabs[t], "loading", at, Guest) \in TabStates(did)
  <2> HIDE DEF at
  <2> QED BY <1>0, StateOf, Nobody, MountedType
<1>2. tab \in TabStates(did)
  BY <1>1 DEF TabStates
<1>3. tabs' = [tabs EXCEPT ![t] = tab]
  BY DEF Loaded
<1>4. tabs' \in [Tabs -> TabStates(did)] /\ Only(t)
  BY <1>2, <1>3 DEF GateInv, Only
<1>5. Call(t, "me", None, url) \in Calls(did)
  BY CallType DEF None, Ops
<1> QED BY <1>4, <1>5, DroppedType DEF Loaded, Keeps

LEMMA GoesKeeps ==
  ASSUME GateInv, jar' \in Cookies(did), NEW t \in Tabs, NEW cs \in SUBSET Calls(did),
         NEW page \in Places, NEW me \in Accounts(did), NEW n \in Nat, Goes(t, cs, page, me, n)
  PROVE  Keeps(t)
<1>1. CASE page = tabs[t].page
  <2>1. [[tabs[t] EXCEPT !.me = me] EXCEPT !.n = n] \in TabStates(did)
    BY StateOf DEF TabStates
  <2>2. tabs' = [tabs EXCEPT ![t] = [[tabs[t] EXCEPT !.me = me] EXCEPT !.n = n]] /\ net' = cs
    BY <1>1, StateOf DEF Goes, GateInv
  <2> QED BY <2>1, <2>2 DEF GateInv, Only, Keeps
<1>2. CASE page # tabs[t].page
  <2> DEFINE tab == [Arrival(tabs[t], page, me) EXCEPT !.n = n]
  <2>1. did \in SUBSET BothSteps
    BY DEF GateInv
  <2>2. Arrival(tabs[t], page, me) \in TabStates(did)
    BY <2>1, StateOf, ArrivalType
  <2>3. tab \in TabStates(did)
    BY <2>2 DEF TabStates
  <2>4. tabs' = [tabs EXCEPT ![t] = tab] /\ net' = Unmounted(t, cs) \union MountCalls(t, tab)
    BY <1>2 DEF Goes
  <2>5. MountCalls(t, tab) \subseteq Calls(did) /\ Unmounted(t, cs) \subseteq Calls(did)
    BY <2>3, MountCallsType, DroppedType
  <2> QED BY <2>3, <2>4, <2>5 DEF GateInv, Only, Keeps
<1> QED BY <1>1, <1>2

(* The browser stores a cookie, however old: what it says was true then.   *)
LEMMA HeardFrom ==
  ASSUME GateInv, NEW c \in net, c.tab \in Tabs, Stored(c)
  PROVE  /\ jar' \in Cookies(did) /\ Rest(c) \subseteq Calls(did)
         /\ c \in Calls(did) /\ c.me \in Accounts(did) /\ c.path \in Places /\ c.code \in Nat
         /\ Now(c) = tabs[c.tab]
         /\ UNCHANGED <<db, made, device, did>>
<1>1. c \in Calls(did)
  BY DEF GateInv
<1>2. c.cookie \in Cookies(did) /\ c.me \in Accounts(did) /\ c.path \in Places /\ c.code \in Nat
  BY <1>1 DEF Calls
<1>3. \A d \in Calls(did) : [d EXCEPT !.old = TRUE] \in Calls(did)
  BY DEF Calls
<1> QED BY <1>1, <1>2, <1>3 DEF Stored, Rest, Now, GateInv

LEMMA ShowsKeeps ==
  ASSUME GateInv, NEW c \in net, c.tab \in Tabs, Stored(c),
         NEW tab \in TabStates(did), Shows(c, tab)
  PROVE  Keeps(c.tab)
<1>1. tabs' = [tabs EXCEPT ![c.tab] = IF c.live THEN tab ELSE tabs[c.tab]] /\ net' = Rest(c)
  BY DEF Shows
<1>2. tabs' \in [Tabs -> TabStates(did)] /\ Only(c.tab)
  BY <1>1, StateOf DEF GateInv, Only
<1> QED BY <1>1, <1>2, HeardFrom DEF Keeps

LEMMA LeavesKeeps ==
  ASSUME GateInv, NEW c \in net, c.tab \in Tabs, Stored(c),
         NEW page \in {"idp", "service"}, Leaves(c, page)
  PROVE  Keeps(c.tab)
<1> DEFINE tab == Mounted(tabs[c.tab], page, tabs[c.tab].at, tabs[c.tab].me)
<1>1. page \in Places /\ page \notin Pages
  BY DEF Places, Pages
<1>2. tab \in TabStates(did)
  BY <1>1, StateOf, MountedType
<1>3. tabs' = [tabs EXCEPT ![c.tab] = tab] /\ net' = Dropped(c.tab, Rest(c))
  BY DEF Leaves
<1>4. net' \subseteq Calls(did)
  BY <1>3, HeardFrom, DroppedType
<1> QED BY <1>2, <1>3, <1>4 DEF GateInv, Only, Keeps

LEMMA RefreshesKeeps ==
  ASSUME GateInv, NEW c \in net, c.tab \in Tabs, Stored(c), NEW path \in Places, Refreshes(c, path)
  PROVE  Keeps(c.tab)
<1> DEFINE d == Call(c.tab, "refresh", None, path)
<1>1. d \in Calls(did) /\ c.live \in BOOLEAN
  BY HeardFrom, CallType DEF None, Ops, Calls
<1>2. [d EXCEPT !.live = c.live] \in Calls(did)
  BY <1>1 DEF Calls
<1>3. net' \subseteq Calls(did)
  BY <1>2, HeardFrom DEF Refreshes
<1> QED BY <1>3 DEF Refreshes, GateInv, Only, Keeps

(* A step of one tab that takes no step of the login keeps the invariant.  *)
LEMMA TabStep ==
  ASSUME GateInv, NEW t \in Tabs, Keeps(t), jar' \in Cookies(did), device' \in SUBSET Nat,
         UNCHANGED <<db, made, did>>
  PROVE  GateInv' /\ Only(t)
BY DEF GateInv, Keeps

-------------------------------------------------------------------------------
(* The user.                                                               *)

LEMMA AtTab ==
  ASSUME GateInv, NEW t \in Tabs, NEW tab \in TabStates(did), OnlyTabs,
         tabs' = [tabs EXCEPT ![t] = tab], net' \in SUBSET Calls(did)
  PROVE  GateInv' /\ Only(t) /\ UNCHANGED did
<1>1. Keeps(t)
  BY DEF GateInv, Keeps, Only
<1>2. UNCHANGED <<db, made, did, jar, device>>
  BY DEF OnlyTabs, history
<1>3. jar' \in Cookies(did) /\ device' \in SUBSET Nat
  BY <1>2 DEF GateInv
<1> QED BY <1>1, <1>2, <1>3, TabStep

(* A call is sent; the tab counts what its user does, and may wait.        *)
LEMMA Sending ==
  ASSUME GateInv, NEW t \in Tabs, OnlyTabs, NEW op \in Ops, NEW code \in Nat, NEW path \in Places,
         net' = net \union {Call(t, op, code, path)}
  PROVE  net' \in SUBSET Calls(did)
<1>1. jar' \in Cookies(did)
  BY DEF GateInv, OnlyTabs
<1> QED BY <1>1, CallType DEF GateInv

LEMMA Counting ==
  ASSUME GateInv, NEW t \in Tabs
  PROVE  /\ [tabs[t] EXCEPT !.n = @ + 1] \in TabStates(did)
         /\ [tabs[t] EXCEPT !.n = @ + 1, !.busy = TRUE] \in TabStates(did)
         /\ [tabs[t] EXCEPT !.n = @ + 1, !.loading = TRUE] \in TabStates(did)
         /\ \A sheet \in Sheets : [tabs[t] EXCEPT !.sheet = sheet, !.n = @ + 1] \in TabStates(did)
         /\ [tabs[t] EXCEPT !.sheet = "form", !.error = FALSE, !.n = @ + 1] \in TabStates(did)
<1> DEFINE tab == tabs[t]
<1>1. tab \in TabStates(did) /\ tab.n + 1 \in Nat
  BY StateOf
<1> HIDE DEF tab
<1>2. [tab EXCEPT !.n = @ + 1] \in TabStates(did)
  BY <1>1 DEF TabStates
<1>3. [tab EXCEPT !.n = @ + 1, !.busy = TRUE] \in TabStates(did)
  BY <1>1 DEF TabStates
<1>4. [tab EXCEPT !.n = @ + 1, !.loading = TRUE] \in TabStates(did)
  BY <1>1 DEF TabStates
<1>5. \A sheet \in Sheets : [tab EXCEPT !.sheet = sheet, !.n = @ + 1] \in TabStates(did)
  BY <1>1 DEF TabStates
<1>6. [tab EXCEPT !.sheet = "form", !.error = FALSE, !.n = @ + 1] \in TabStates(did)
  BY <1>1 DEF TabStates, Sheets
<1> QED BY <1>2, <1>3, <1>4, <1>5, <1>6 DEF tab

LEMMA SendsKeep ==
  ASSUME GateInv, NEW t \in Tabs, NEW op \in Ops, NEW code \in Nat, NEW path \in Places,
         Sends(t, op, code, path) \/ SendsBusy(t, op, code) \/ SendsLoading(t, op, code, path)
  PROVE  GateInv' /\ Only(t) /\ UNCHANGED did
<1>1. CASE Sends(t, op, code, path)
  <2>1. tabs' = [tabs EXCEPT ![t] = [tabs[t] EXCEPT !.n = @ + 1]]
    BY <1>1 DEF Sends
  <2> QED BY <1>1, <2>1, Counting, Sending, AtTab DEF Sends, Sheets
<1>2. CASE SendsBusy(t, op, code)
  <2>1. tabs' = [tabs EXCEPT ![t] = [tabs[t] EXCEPT !.n = @ + 1, !.busy = TRUE]]
    BY <1>2 DEF SendsBusy, GateInv
  <2>2. "" \in Places
    BY DEF Places
  <2>3. net' \in SUBSET Calls(did)
    BY <1>2, <2>2, Sending DEF SendsBusy
  <2> QED BY <1>2, <2>1, <2>3, Counting, AtTab DEF SendsBusy, Sheets
<1>3. CASE SendsLoading(t, op, code, path)
  <2>1. tabs' = [tabs EXCEPT ![t] = [tabs[t] EXCEPT !.n = @ + 1, !.loading = TRUE]]
    BY <1>3 DEF SendsLoading, GateInv
  <2> QED BY <1>3, <2>1, Counting, Sending, AtTab DEF SendsLoading, Sheets
<1> QED BY <1>1, <1>2, <1>3

LEMMA MovesKeep ==
  ASSUME GateInv, NEW t \in Tabs, OnlyTabs, NEW page \in Places,
         \/ Loaded(t, net, page, tabs[t].n + 1)
         \/ Goes(t, net, page, tabs[t].me, tabs[t].n + 1)
  PROVE  GateInv' /\ Only(t) /\ UNCHANGED did
<1>1. jar' \in Cookies(did) /\ device' \in SUBSET Nat /\ UNCHANGED <<db, made, did>>
  BY DEF OnlyTabs, GateInv, history
<1>2. tabs[t].n + 1 \in Nat /\ tabs[t].me \in Accounts(did) /\ net \in SUBSET Calls(did)
  BY StateOf DEF GateInv
<1>3. Keeps(t)
  BY <1>1, <1>2, LoadedKeeps, GoesKeeps
<1> QED BY <1>1, <1>3, TabStep

LEMMA UserKeeps ==
  ASSUME GateInv, NEW t \in Tabs, UserStep(t)
  PROVE  GateInv' /\ Only(t) /\ UNCHANGED did
<1> USE DEF None
<1>1. tabs[t].at \in Places /\ Addresses \subseteq Places /\ {"", "/", "profile", "update"} \subseteq Places
  BY StateOf DEF Addresses, Places
<1>2. ASSUME NEW at \in Addresses, Open(t, at) PROVE GateInv' /\ Only(t) /\ UNCHANGED did
  BY <1>1, <1>2, MovesKeep DEF Open
<1>3. CASE LoginButton(t)
  BY <1>1, <1>3, SendsKeep DEF LoginButton, Ops
<1>4. CASE ComeBack(t)
  <2>1. net' \in SUBSET Calls(did)
    BY <1>1, <1>4, Sending DEF ComeBack, Ops
  <2>2. tabs' = [tabs EXCEPT ![t] = tabs[t]]
    BY <1>4 DEF ComeBack, GateInv
  <2> QED BY <1>4, <2>1, <2>2, StateOf, AtTab DEF ComeBack
<1>5. CASE Logo(t)
  BY <1>1, <1>5, MovesKeep DEF Logo
<1>6. CASE LogoutButton(t)
  BY <1>1, <1>6, SendsKeep DEF LogoutButton, Ops
<1>7. CASE ConfigureMfa(t)
  BY <1>1, <1>7, MovesKeep DEF ConfigureMfa
<1>8. CASE AgreeAup(t)
  BY <1>1, <1>8, SendsKeep DEF AgreeAup, Ops
<1>9. CASE AgreeMissing(t)
  BY <1>1, <1>9, SendsKeep DEF AgreeMissing, Ops
<1>10. CASE AgreeService(t)
  BY <1>1, <1>10, SendsKeep DEF AgreeService, Ops
<1>11. CASE Scan(t)
  <2>1. tabs[t].qr \in Nat
    BY StateOf DEF TabStates
  <2>2. device' \in SUBSET Nat
    BY <1>11, <2>1 DEF Scan, GateInv
  <2>3. UNCHANGED <<db, made, jar, net, tabs, did>>
    BY <1>11 DEF Scan, history
  <2> QED BY <2>2, <2>3 DEF GateInv, Only
<1>12. ASSUME NEW code \in Codes, Verify(t, code) \/ PreUpdateVerify(t, code)
       PROVE  GateInv' /\ Only(t) /\ UNCHANGED did
  <2>1. code \in Nat
    BY <1>12 DEF Codes, GateInv
  <2> QED BY <1>1, <1>12, <2>1, SendsKeep DEF Verify, PreUpdateVerify, Ops
<1>13. CASE OpenResetRequest(t)
  <2>1. CASE tabs[t].colleagues
    <3>1. tabs' = [tabs EXCEPT ![t] = [tabs[t] EXCEPT !.sheet = "lost", !.n = @ + 1]]
      BY <1>13, <2>1 DEF OpenResetRequest, GateInv
    <3>2. net' \in SUBSET Calls(did) /\ OnlyTabs
      BY <1>13, <2>1 DEF OpenResetRequest, GateInv
    <3> QED BY <3>1, <3>2, Counting, AtTab DEF Sheets
  <2>2. CASE ~tabs[t].colleagues
    <3> DEFINE code == IF tabs[t].via THEN 1 ELSE None
    <3>1. SendsLoading(t, "respondents", code, "") /\ code \in Nat
      BY <1>13, <2>2 DEF OpenResetRequest
    <3> HIDE DEF code
    <3> QED BY <1>1, <3>1, SendsKeep DEF Ops
  <2> QED BY <2>1, <2>2
<1>14. CASE SendResetRequest(t)
  BY <1>1, <1>14, SendsKeep DEF SendResetRequest, Ops
<1>15. CASE EnterResetToken(t)
  <2>1. tabs' = [tabs EXCEPT ![t] = [tabs[t] EXCEPT !.sheet = "reset", !.n = @ + 1]]
    BY <1>15 DEF EnterResetToken, GateInv
  <2>2. net' \in SUBSET Calls(did) /\ OnlyTabs
    BY <1>15 DEF EnterResetToken, GateInv
  <2> QED BY <2>1, <2>2, Counting, AtTab DEF Sheets
<1>16. CASE CloseSheet(t)
  <2>1. tabs' = [tabs EXCEPT ![t] = [tabs[t] EXCEPT !.sheet = "form", !.error = FALSE, !.n = @ + 1]]
    BY <1>16 DEF CloseSheet, GateInv
  <2>2. net' \in SUBSET Calls(did) /\ OnlyTabs
    BY <1>16 DEF CloseSheet, GateInv
  <2> QED BY <2>1, <2>2, Counting, AtTab DEF Sheets
<1>17. ASSUME NEW code \in 0 .. db.mails, SubmitResetCode(t, code)
       PROVE  GateInv' /\ Only(t) /\ UNCHANGED did
  <2>1. db.mails \in Nat
    BY DEF GateInv
  <2>2. code \in Nat
    BY <2>1
  <2> QED BY <1>1, <1>17, <2>2, SendsKeep DEF SubmitResetCode, Ops
<1>18. CASE Cancel(t)
  BY <1>1, <1>18, MovesKeep DEF Cancel
<1> QED BY <1>2, <1>3, <1>4, <1>5, <1>6, <1>7, <1>8, <1>9, <1>10, <1>11, <1>12, <1>13, <1>14,
           <1>15, <1>16, <1>17, <1>18 DEF UserStep

-------------------------------------------------------------------------------
(* The server: what an answer says is done by then.                        *)

Rows == [aup : BOOLEAN, secret : Nat, suspended : BOOLEAN, services : BOOLEAN,
         token : Nat, mails : Nat, recent : BOOLEAN, uuid : Nat]

LEMMA Answering ==
  ASSUME NEW done, NEW c \in Calls(done), NEW status \in Nat, NEW cookie \in Cookies(done),
         NEW me \in Accounts(done), NEW code \in Nat, NEW path \in Places
  PROVE  /\ Ok(c) \in Calls(done) /\ OkWith(c, cookie) \in Calls(done)
         /\ [c EXCEPT !.status = status] \in Calls(done)
         /\ [c EXCEPT !.status = status, !.me = me] \in Calls(done)
         /\ [Ok(c) EXCEPT !.me = me] \in Calls(done)
         /\ [Ok(c) EXCEPT !.code = code] \in Calls(done)
         /\ [OkWith(c, cookie) EXCEPT !.path = path] \in Calls(done)
         /\ [OkWith(c, cookie) EXCEPT !.code = code] \in Calls(done)
         /\ [OkWith(c, cookie) EXCEPT !.status = status] \in Calls(done)
<1>1. Ok(c) \in Calls(done)
  BY DEF Ok, Calls
<1>2. OkWith(c, cookie) \in Calls(done)
  <2> DEFINE d == [Ok(c) EXCEPT !.sets = TRUE, !.cookie = cookie]
  <2>1. OkWith(c, cookie) = d
    BY DEF OkWith, Ok
  <2>2. d \in Calls(done)
    BY <1>1 DEF Calls
  <2> QED BY <2>1, <2>2
<1>3. \A d \in Calls(done) : /\ [d EXCEPT !.status = status] \in Calls(done)
                             /\ [d EXCEPT !.me = me] \in Calls(done)
                             /\ [d EXCEPT !.code = code] \in Calls(done)
                             /\ [d EXCEPT !.path = path] \in Calls(done)
  BY DEF Calls
<1>4. [c EXCEPT !.status = status, !.me = me] \in Calls(done)
  BY DEF Calls
<1> QED BY <1>1, <1>2, <1>3, <1>4

LEMMA Fields ==
  ASSUME NEW done, NEW c \in Calls(done)
  PROVE  /\ c.cookie \in Cookies(done) /\ c.me \in Accounts(done) /\ c.code \in Nat /\ c.path \in Places
         /\ c.cookie.dest \in Places /\ c.cookie.pending \in Nat /\ c.cookie.aup \in BOOLEAN
         /\ c.cookie.confirmed \in BOOLEAN /\ Sound(c.cookie, done)
BY DEF Calls, Cookies

LEMMA RepliesKeep ==
  ASSUME GateInv, NEW c \in net, NEW done \in SUBSET BothSteps, did \subseteq done,
         NEW d \in Calls(done), Replies(c, d)
  PROVE  net' \in SUBSET Calls(done)
<1>1. net \subseteq Calls(done)
  BY Monotone DEF GateInv
<1> QED BY <1>1 DEF Replies

LEMMA ServerStep ==
  ASSUME GateInv, did' \in SUBSET BothSteps, did \subseteq did', net' \in SUBSET Calls(did'),
         UNCHANGED <<jar, tabs, device>>, made' \in Nat, db' \in Rows,
         db'.aup => "aup" \in did', db'.recent => "mfa" \in did'
  PROVE  GateInv'
<1>1. jar' \in Cookies(did') /\ tabs' \in [Tabs -> TabStates(did')]
  BY Monotone DEF GateInv
<1> QED BY <1>1 DEF GateInv, Rows

(* A handler that leaves the user's steps as they are.                     *)
LEMMA AnswerStep ==
  ASSUME GateInv, NEW c \in net, NEW d \in Calls(did), Replies(c, d), did' = did,
         UNCHANGED <<jar, tabs, device>>, made' \in Nat, db' \in Rows,
         db'.aup => db.aup, db'.recent => db.recent
  PROVE  GateInv'
<1>1. did' \in SUBSET BothSteps /\ net' \in SUBSET Calls(did')
  BY RepliesKeep DEF GateInv
<1>2. (db'.aup => "aup" \in did') /\ (db'.recent => "mfa" \in did')
  BY DEF GateInv
<1> QED BY <1>1, <1>2, ServerStep

LEMMA SaidOf ==
  ASSUME GateInv, NEW suspended \in BOOLEAN, NEW factor \in BOOLEAN, NEW missing \in BOOLEAN,
         NEW aup \in BOOLEAN, NEW confirmed \in BOOLEAN,
         aup => "aup" \in did, confirmed => "mfa" \in did
  PROVE  /\ [Guest EXCEPT !.suspended = TRUE] \in Accounts(did)
         /\ [Guest EXCEPT !.guest = FALSE, !.aup = aup, !.confirmed = confirmed,
                          !.factor = factor, !.missing = missing] \in Accounts(did)
BY DEF Guest, Accounts, Sound

LEMMA ServeKeeps ==
  ASSUME GateInv, NEW c \in net, Serve(c)
  PROVE  /\ GateInv' /\ UNCHANGED <<jar, tabs>>
         /\ did' = did \/ \E s \in BothSteps : did' = did \union {s}
<1> USE DEF history
<1>1. c \in Calls(did) /\ did \in SUBSET BothSteps
  BY DEF GateInv
<1>2. /\ c.cookie \in Cookies(did) /\ c.me \in Accounts(did) /\ c.code \in Nat /\ c.path \in Places
      /\ c.cookie.dest \in Places /\ c.cookie.pending \in Nat /\ c.cookie.aup \in BOOLEAN
      /\ c.cookie.confirmed \in BOOLEAN /\ Sound(c.cookie, did)
  BY <1>1, Fields
<1>3. /\ Ok(c) \in Calls(did) /\ OkWith(c, c.cookie) \in Calls(did)
      /\ \A status \in Nat : [c EXCEPT !.status = status] \in Calls(did)
  BY <1>1, <1>2, Answering
<1>4. /\ db \in Rows /\ db.aup \in BOOLEAN /\ db.recent \in BOOLEAN /\ db.services \in BOOLEAN
      /\ db.secret \in Nat /\ db.token \in Nat /\ db.mails \in Nat /\ db.uuid \in Nat /\ made \in Nat
      /\ (db.aup => "aup" \in did) /\ (db.recent => "mfa" \in did)
  BY DEF GateInv, Rows
<1>5. CASE NotAdmitted(c)
  BY <1>3, <1>4, <1>5, AnswerStep DEF NotAdmitted
<1>6. CASE ServeMe(c)
  <2> DEFINE gone == [Guest EXCEPT !.suspended = TRUE]
  <2>1. gone \in Accounts(did)
    BY SaidOf
  <2>2. [c EXCEPT !.status = 409, !.me = gone] \in Calls(did)
    <3> HIDE DEF gone
    <3>1. \A status \in Nat : [c EXCEPT !.status = status, !.me = gone] \in Calls(did)
      BY <1>1, <1>2, <2>1, Answering
    <3>2. 409 \in Nat
      OBVIOUS
    <3> QED BY <3>1, <3>2, Zenon
  <2> DEFINE me == [Guest EXCEPT !.guest = FALSE, !.aup = c.cookie.aup, !.confirmed = c.cookie.confirmed,
                      !.factor = db.secret # None, !.missing = c.cookie.confirmed /\ db.services]
  <2>3. me \in Accounts(did)
    BY <1>2, <1>4, SaidOf DEF Sound
  <2>4. [Ok(c) EXCEPT !.me = me] \in Calls(did)
    <3> HIDE DEF me
    <3> QED BY <1>1, <1>2, <2>3, Answering
  <2>5. \/ Replies(c, Ok(c)) \/ Replies(c, [Ok(c) EXCEPT !.me = me])
        \/ Replies(c, [c EXCEPT !.status = 409, !.me = gone])
    BY <1>6 DEF ServeMe
  <2>6. UNCHANGED <<scene, db, made, rate, jar, tabs, device, wrong, did, overtaken>>
    BY <1>6 DEF ServeMe
  <2> HIDE DEF me, gone
  <2> QED BY <1>3, <1>4, <2>2, <2>4, <2>5, <2>6, AnswerStep
<1>7. CASE ServeRefresh(c)
  <2> DEFINE me == [Guest EXCEPT !.guest = FALSE, !.aup = db.aup, !.confirmed = c.cookie.confirmed,
                      !.factor = db.secret # None, !.missing = db.services]
  <2>1. me \in Accounts(did)
    BY <1>2, <1>4, SaidOf DEF Sound
  <2>2. [Ok(c) EXCEPT !.me = me] \in Calls(did)
    BY <1>1, <1>2, <2>1, Answering
  <2>3. Replies(c, [Ok(c) EXCEPT !.me = me])
        /\ UNCHANGED <<scene, db, made, rate, jar, tabs, device, wrong, did, overtaken>>
    BY <1>7 DEF ServeRefresh
  <2> HIDE DEF me
  <2> QED BY <1>4, <2>2, <2>3, AnswerStep
<1>8. CASE ServeAgree(c)
  <2> DEFINE done == did \union {"aup"}
             cookie == [c.cookie EXCEPT !.aup = TRUE]
  <2>1. done \in SUBSET BothSteps /\ did \subseteq done /\ did' = done
    BY <1>1, <1>8 DEF BothSteps, ServeAgree
  <2>2. cookie \in Cookies(done)
    BY <1>2 DEF Cookies, Sound
  <2>3. c \in Calls(done)
    BY <1>1, <2>1, Monotone
  <2>4. [OkWith(c, cookie) EXCEPT !.path = c.cookie.dest] \in Calls(done)
    <3> HIDE DEF cookie, done
    <3> QED BY <1>2, <2>2, <2>3, Answering, Fields
  <2>5. net' \in SUBSET Calls(done)
    <3>1. Replies(c, [OkWith(c, cookie) EXCEPT !.path = c.cookie.dest])
      BY <1>8 DEF ServeAgree
    <3> HIDE DEF cookie, done
    <3> QED BY <2>1, <2>4, <3>1, RepliesKeep
  <2>6. db' \in Rows /\ "aup" \in did' /\ (db'.recent => "mfa" \in did')
    BY <1>4, <1>8, <2>1 DEF ServeAgree, Rows
  <2> QED BY <1>4, <1>8, <2>1, <2>5, <2>6, ServerStep DEF ServeAgree, BothSteps
<1>9. CASE ServeGet2fa(c)
  <2> DEFINE cookie == [c.cookie EXCEPT !.pending = made + 1]
  <2>1. made + 1 \in Nat /\ cookie \in Cookies(did)
    BY <1>2, <1>4 DEF Cookies, Sound
  <2>2. [OkWith(c, cookie) EXCEPT !.code = made + 1] \in Calls(did)
    <3> HIDE DEF cookie
    <3> QED BY <1>1, <1>2, <2>1, Answering
  <2>3. Replies(c, [OkWith(c, cookie) EXCEPT !.code = made + 1])
        /\ made' = made + 1 /\ UNCHANGED <<scene, db, rate, jar, tabs, device, wrong, did, overtaken>>
    BY <1>9 DEF ServeGet2fa
  <2> HIDE DEF cookie
  <2> QED BY <1>4, <2>1, <2>2, <2>3, AnswerStep
<1>10. CASE ServeHasFactor(c)
  <2>1. Replies(c, Ok(c)) \/ Replies(c, [c EXCEPT !.status = 404])
    BY <1>10 DEF ServeHasFactor
  <2> QED BY <1>3, <1>4, <1>10, <2>1, AnswerStep DEF ServeHasFactor
<1>11. CASE ServeTooMany(c)
  <2>1. [OkWith(c, Stranger) EXCEPT !.status = 429] \in Calls(did)
    <3>1. Stranger \in Cookies(did)
      BY Nobody
    <3>2. \A status \in Nat : [OkWith(c, Stranger) EXCEPT !.status = status] \in Calls(did)
      BY <1>1, <1>2, <3>1, Answering
    <3> QED BY <3>2
  <2>2. db' \in Rows /\ db'.aup = db.aup /\ db'.recent = db.recent
    BY <1>4, <1>11 DEF ServeTooMany, Rows
  <2>3. Replies(c, [OkWith(c, Stranger) EXCEPT !.status = 429])
        /\ UNCHANGED <<jar, tabs, device, made>> /\ did' = did
    BY <1>11 DEF ServeTooMany, history
  <2> QED BY <1>4, <2>1, <2>2, <2>3, AnswerStep
<1>12. CASE ServeWrong(c)
  <2>1. Replies(c, [c EXCEPT !.status = 400]) \/ Replies(c, [c EXCEPT !.status = 404])
    BY <1>12 DEF ServeWrong
  <2> QED BY <1>3, <1>4, <1>12, <2>1, AnswerStep DEF ServeWrong
<1>13. CASE ServeRight(c)
  <2> DEFINE done == did \union {"mfa"}
             cookie == [c.cookie EXCEPT !.user = TRUE, !.confirmed = TRUE, !.aup = db.aup]
  <2>1. done \in SUBSET BothSteps /\ did \subseteq done /\ did' = done
    BY <1>1, <1>13 DEF BothSteps, ServeRight
  <2>2. cookie \in Cookies(done)
    BY <1>2, <1>4 DEF Cookies, Sound
  <2>3. c \in Calls(done)
    BY <1>1, <2>1, Monotone
  <2>4. [OkWith(c, cookie) EXCEPT !.path = c.cookie.dest] \in Calls(done)
    <3> HIDE DEF cookie, done
    <3> QED BY <1>2, <2>2, <2>3, Answering, Fields
  <2>5. net' \in SUBSET Calls(done)
    <3>1. Replies(c, [OkWith(c, cookie) EXCEPT !.path = c.cookie.dest])
      BY <1>13 DEF ServeRight
    <3> HIDE DEF cookie, done
    <3> QED BY <2>1, <2>4, <3>1, RepliesKeep
  <2>6. db' \in Rows /\ "mfa" \in did' /\ (db'.aup => "aup" \in did')
    BY <1>2, <1>4, <1>13, <2>1 DEF ServeRight, Rows, Secret
  <2> QED BY <1>4, <1>13, <2>1, <2>5, <2>6, ServerStep DEF ServeRight, BothSteps
<1>14. CASE ServePreUpdate(c)
  <2> DEFINE cookie == [c.cookie EXCEPT !.checked = TRUE]
  <2>1. cookie \in Cookies(did)
    BY <1>2 DEF Cookies, Sound
  <2>2. OkWith(c, cookie) \in Calls(did)
    <3> HIDE DEF cookie
    <3> QED BY <1>1, <1>2, <2>1, Answering
  <2>3. Replies(c, OkWith(c, cookie)) \/ Replies(c, [c EXCEPT !.status = 400])
    BY <1>14 DEF ServePreUpdate
  <2> HIDE DEF cookie
  <2> QED BY <1>3, <1>4, <1>14, <2>2, <2>3, AnswerStep DEF ServePreUpdate
<1>15. CASE ServeUpdate(c)
  <2>1. Replies(c, Ok(c)) \/ Replies(c, [c EXCEPT !.status = 400])
    BY <1>15 DEF ServeUpdate
  <2>2. db' \in Rows /\ db'.aup = db.aup /\ db'.recent = db.recent
    BY <1>2, <1>4, <1>15 DEF ServeUpdate, Rows
  <2> QED BY <1>3, <1>4, <1>15, <2>1, <2>2, AnswerStep DEF ServeUpdate
<1>16. CASE ServeRespondents(c)
  <2>1. Replies(c, Ok(c)) \/ Replies(c, [c EXCEPT !.status = 404])
    BY <1>16 DEF ServeRespondents
  <2> QED BY <1>3, <1>4, <1>16, <2>1, AnswerStep DEF ServeRespondents
<1>17. CASE ServeResetRequest(c)
  <2>1. Replies(c, Ok(c)) \/ Replies(c, [c EXCEPT !.status = 404])
    BY <1>17 DEF ServeResetRequest
  <2>2. db' \in Rows /\ db'.aup = db.aup /\ db'.recent = db.recent
    <3>0. db.mails + 1 \in Nat
      BY <1>4
    <3>1. [db EXCEPT !.token = db.mails + 1, !.mails = @ + 1] \in Rows
      BY <1>4, <3>0 DEF Rows
    <3>2. db' = [db EXCEPT !.token = db.mails + 1, !.mails = @ + 1] \/ db' = db
      BY <1>17 DEF ServeResetRequest
    <3> QED BY <1>4, <3>1, <3>2 DEF Rows
  <2> QED BY <1>3, <1>4, <1>17, <2>1, <2>2, AnswerStep DEF ServeResetRequest
<1>18. CASE ServeReset(c)
  <2>1. Replies(c, Ok(c)) \/ Replies(c, [c EXCEPT !.status = 403])
    BY <1>18 DEF ServeReset
  <2>2. db' \in Rows /\ db'.aup = db.aup /\ db'.recent = db.recent
    <3>1. [db EXCEPT !.secret = None, !.token = None] \in Rows
      BY <1>4 DEF Rows, None
    <3>2. db' = [db EXCEPT !.secret = None, !.token = None] \/ db' = db
      BY <1>18 DEF ServeReset
    <3> QED BY <1>4, <3>1, <3>2 DEF Rows
  <2> QED BY <1>3, <1>4, <1>18, <2>1, <2>2, AnswerStep DEF ServeReset
<1>19. CASE ServeAuthorization(c)
  <2> DEFINE cookie == [c.cookie EXCEPT !.dest = c.path]
  <2>1. cookie \in Cookies(did)
    BY <1>2 DEF Cookies, Sound
  <2>2. OkWith(c, cookie) \in Calls(did)
    <3> HIDE DEF cookie
    <3> QED BY <1>1, <1>2, <2>1, Answering
  <2>3. Replies(c, OkWith(c, cookie))
    BY <1>19 DEF ServeAuthorization
  <2> HIDE DEF cookie
  <2> QED BY <1>4, <1>19, <2>2, <2>3, AnswerStep DEF ServeAuthorization
<1>20. CASE ServeResume(c)
  <2> DEFINE confirmed == scene.idpMfa \/ db.recent
             done == did \union (IF confirmed THEN {"mfa"} ELSE {})
             s == [c.cookie EXCEPT !.user = TRUE, !.aup = db.aup, !.confirmed = confirmed]
             home == [s EXCEPT !.dest = "/"]
  <2>1. done \in SUBSET BothSteps /\ did \subseteq done /\ did' = done
    BY <1>1, <1>20 DEF BothSteps, ServeResume
  <2>2. confirmed \in BOOLEAN /\ (confirmed => "mfa" \in done) /\ (db.aup => "aup" \in done)
    BY <1>4
  <2>3. s \in Cookies(done) /\ s.dest \in Places
    <3> HIDE DEF confirmed, done
    <3> QED BY <1>2, <1>4, <2>2 DEF Cookies, Sound
  <2>4. home \in Cookies(done)
    <3> HIDE DEF s, done
    <3> QED BY <2>3 DEF Cookies, Sound, Places
  <2>5. c \in Calls(done) /\ "aup" \in Places /\ "2fa" \in Places
    BY <1>1, <2>1, Monotone DEF Places
  <2>6. /\ [OkWith(c, s) EXCEPT !.path = "aup"] \in Calls(done)
        /\ [OkWith(c, s) EXCEPT !.path = "2fa"] \in Calls(done)
        /\ [OkWith(c, home) EXCEPT !.path = s.dest] \in Calls(done)
    <3> HIDE DEF s, home, done
    <3> QED BY <2>3, <2>4, <2>5, Fields, Answering
  <2>7. \/ Replies(c, [OkWith(c, s) EXCEPT !.path = "aup"])
        \/ Replies(c, [OkWith(c, s) EXCEPT !.path = "2fa"])
        \/ Replies(c, [OkWith(c, home) EXCEPT !.path = s.dest])
    BY <1>20 DEF ServeResume
  <2>8. net' \in SUBSET Calls(done)
    <3> HIDE DEF s, home, done
    <3> QED BY <2>1, <2>6, <2>7, RepliesKeep
  <2>9. db' = [db EXCEPT !.recent = @ \/ confirmed, !.uuid = IF confirmed THEN @ ELSE 2]
    BY <1>20 DEF ServeResume
  <2>10. db' \in Rows /\ (db'.aup => "aup" \in did') /\ (db'.recent => "mfa" \in did')
    <3> HIDE DEF confirmed, done
    <3> QED BY <1>4, <2>1, <2>2, <2>9 DEF Rows
  <2>11. UNCHANGED <<jar, tabs, device, made>>
    BY <1>20 DEF ServeResume
  <2>12. GateInv'
    <3> HIDE DEF done, s, home, confirmed
    <3> QED BY <1>4, <2>1, <2>8, <2>10, <2>11, ServerStep
  <2> QED BY <2>1, <2>11, <2>12 DEF BothSteps
<1>21. CASE ServeServiceAups(c)
  <2>1. db' \in Rows /\ db'.aup = db.aup /\ db'.recent = db.recent
    BY <1>4, <1>21 DEF ServeServiceAups, Rows
  <2> QED BY <1>3, <1>4, <1>21, <2>1, AnswerStep DEF ServeServiceAups
<1>22. CASE ServeRead(c)
  BY <1>3, <1>4, <1>22, AnswerStep DEF ServeRead
<1>23. CASE ServeLogout(c)
  <2>1. OkWith(c, Stranger) \in Calls(did)
    BY <1>1, <1>2, Nobody, Answering
  <2> QED BY <1>4, <1>23, <2>1, AnswerStep DEF ServeLogout
<1> QED BY <1>5, <1>6, <1>7, <1>8, <1>9, <1>10, <1>11, <1>12, <1>13, <1>14, <1>15, <1>16, <1>17,
           <1>18, <1>19, <1>20, <1>21, <1>22, <1>23 DEF Serve

-------------------------------------------------------------------------------
(* What a tab hears.                                                       *)

LEMMA HearKeeps ==
  ASSUME GateInv, NEW c \in net, Hear(c)
  PROVE  GateInv' /\ Only(c.tab) /\ UNCHANGED did
<1>1. c.tab \in Tabs /\ Stored(c)
  BY DEF Hear, Heard, HearUnauthorized, HearMe, HearRefresh, HearAgreed, HearQrCode, HearVerified,
         HearContinue, HearTooMany, HearInvalid, HearPreUpdated, HearUpdated, HearRespondents,
         HearRequested, HearReset, HearAuthorization, HearLoads, HearUnknown, HearRead
<1>2. /\ jar' \in Cookies(did) /\ Rest(c) \in SUBSET Calls(did) /\ c \in Calls(did)
      /\ c.me \in Accounts(did) /\ c.path \in Places /\ c.code \in Nat
      /\ UNCHANGED <<db, made, device, did>>
  BY <1>1, HeardFrom
<1>3. /\ Now(c) = tabs[c.tab] /\ Now(c) \in TabStates(did) /\ Now(c).me \in Accounts(did)
      /\ Now(c).n \in Nat /\ Now(c).page \in Places /\ Now(c).at \in Places
      /\ (Now(c).page \in Pages => did = BothSteps) /\ did \in SUBSET BothSteps
  BY <1>1, HeardFrom, StateOf DEF GateInv
<1>4. Keeps(c.tab) => GateInv' /\ Only(c.tab) /\ UNCHANGED did
  <2>1. device' \in SUBSET Nat
    BY <1>2 DEF GateInv
  <2> QED BY <1>1, <1>2, <2>1, TabStep
<1>5. CASE HearUnauthorized(c)
  <2>1. Url(Now(c)) \in Places
    BY <1>3 DEF Url, Places
  <2>2. Loaded(c.tab, Rest(c), Url(Now(c)), Now(c).n)
    BY <1>5 DEF HearUnauthorized
  <2> QED BY <1>1, <1>2, <1>3, <1>4, <2>1, <2>2, LoadedKeeps
<1>6. CASE HearMe(c)
  <2> DEFINE tab == Arrival(Now(c), c.path, c.me)
  <2>1. tab \in TabStates(did)
    BY <1>2, <1>3, ArrivalType
  <2>2. tabs' = [tabs EXCEPT ![c.tab] = tab]
        /\ net' = Rest(c) \union MountCalls(c.tab, tab) \union HeaderMounted(c.tab, c.me)
    BY <1>6 DEF HearMe
  <2>3. net' \subseteq Calls(did)
    BY <1>1, <1>2, <2>1, <2>2, MountCallsType, HeaderType
  <2>4. Keeps(c.tab)
    <3> HIDE DEF tab
    <3> QED BY <1>1, <2>1, <2>2, <2>3 DEF Keeps, Only, GateInv
  <2> QED BY <1>4, <2>4
<1>7. CASE HearRefresh(c)
  <2> DEFINE rest == Rest(c) \union HeaderReceives(c.tab, c.me)
             again == Mounted(Now(c), Now(c).page, Now(c).at, c.me)
  <2>1. rest \in SUBSET Calls(did)
    BY <1>1, <1>2, HeaderType
  <2>2. again \in TabStates(did)
    BY <1>2, <1>3, MountedType
  <2>3. MountCalls(c.tab, again) \subseteq Calls(did)
    <3> HIDE DEF again
    <3> QED BY <1>1, <1>2, <2>2, MountCallsType
  <2>4. CASE Goes(c.tab, rest, c.path, c.me, Now(c).n)
    <3> HIDE DEF rest
    <3> QED BY <1>1, <1>2, <1>3, <1>4, <2>1, <2>4, GoesKeeps
  <2>5. CASE tabs' = [tabs EXCEPT ![c.tab] = again] /\ net' = rest \union MountCalls(c.tab, again)
    <3> HIDE DEF rest, again
    <3> QED BY <1>1, <1>4, <2>1, <2>2, <2>3, <2>5 DEF Keeps, Only, GateInv
  <2>6. CASE tabs' = [tabs EXCEPT ![c.tab].me = c.me] /\ net' = rest
    <3> DEFINE tab == [tabs[c.tab] EXCEPT !.me = c.me]
    <3>1. tab \in TabStates(did)
      BY <1>2, <1>3 DEF TabStates
    <3>2. tabs' = [tabs EXCEPT ![c.tab] = tab]
      BY <2>6
    <3> HIDE DEF rest, tab
    <3> QED BY <1>1, <1>4, <2>1, <2>6, <3>1, <3>2 DEF Keeps, Only, GateInv
  <2> QED BY <1>7, <2>4, <2>5, <2>6 DEF HearRefresh
<1>8. CASE HearAgreed(c)
  BY <1>1, <1>2, <1>4, <1>8, RefreshesKeeps DEF HearAgreed
<1>9. CASE HearQrCode(c)
  <2>1. [Now(c) EXCEPT !.loading = FALSE, !.qr = c.code] \in TabStates(did)
    BY <1>2, <1>3 DEF TabStates
  <2>2. Shows(c, [Now(c) EXCEPT !.loading = FALSE, !.qr = c.code])
    BY <1>9 DEF HearQrCode
  <2> QED BY <1>1, <1>4, <2>1, <2>2, ShowsKeeps
<1>10. CASE HearVerified(c)
  BY <1>1, <1>2, <1>4, <1>10, RefreshesKeeps DEF HearVerified
<1>11. CASE HearContinue(c)
  BY <1>1, <1>4, <1>11, LeavesKeeps DEF HearContinue
<1>12. CASE HearTooMany(c)
  <2> DEFINE tab == Mounted(tabs[c.tab], "landing", "/", tabs[c.tab].me)
  <2>1. "landing" \in Places /\ "/" \in Places /\ "landing" \notin Pages
    BY DEF Places, Pages
  <2>2. tab \in TabStates(did)
    BY <1>3, <2>1, MountedType
  <2>3. tabs' = [tabs EXCEPT ![c.tab] = tab] /\ net' = Unmounted(c.tab, Rest(c))
    BY <1>12 DEF HearTooMany
  <2>4. net' \subseteq Calls(did)
    BY <1>2, <2>3, DroppedType
  <2> HIDE DEF tab
  <2> QED BY <1>1, <1>4, <2>2, <2>3, <2>4 DEF Keeps, Only, GateInv
<1>13. CASE HearInvalid(c)
  <2> DEFINE tab == [Now(c) EXCEPT !.error = TRUE, !.loading = @ /\ c.op # "reset2fa",
                                   !.busy = @ /\ c.op = "reset2fa"]
  <2>1. tab \in TabStates(did)
    BY <1>3 DEF TabStates
  <2>2. Shows(c, tab)
    BY <1>13 DEF HearInvalid
  <2> HIDE DEF tab
  <2> QED BY <1>1, <1>4, <2>1, <2>2, ShowsKeeps
<1>14. CASE HearPreUpdated(c)
  <2>1. [Now(c) EXCEPT !.busy = FALSE, !.error = FALSE] \in TabStates(did)
    BY <1>3 DEF TabStates
  <2>2. Shows(c, [Now(c) EXCEPT !.busy = FALSE, !.error = FALSE])
    BY <1>14 DEF HearPreUpdated
  <2> QED BY <1>1, <1>4, <2>1, <2>2, ShowsKeeps
<1>15. CASE HearUpdated(c)
  <2>1. "profile" \in Places
    BY DEF Places
  <2>2. Goes(c.tab, Rest(c), "profile", Now(c).me, Now(c).n)
    BY <1>15 DEF HearUpdated
  <2> QED BY <1>1, <1>2, <1>3, <1>4, <2>1, <2>2, GoesKeeps
<1>16. CASE HearRespondents(c)
  <2> DEFINE tab == [Now(c) EXCEPT !.loading = FALSE, !.colleagues = TRUE, !.sheet = "lost"]
  <2>1. tab \in TabStates(did)
    BY <1>3 DEF TabStates, Sheets
  <2>2. Shows(c, tab)
    BY <1>16 DEF HearRespondents
  <2> HIDE DEF tab
  <2> QED BY <1>1, <1>4, <2>1, <2>2, ShowsKeeps
<1>17. CASE HearRequested(c)
  <2> DEFINE tab == [Now(c) EXCEPT !.sheet = IF c.status = 200 THEN "form" ELSE @]
  <2>1. tab \in TabStates(did)
    BY <1>3 DEF TabStates, Sheets
  <2>2. Shows(c, tab)
    BY <1>17 DEF HearRequested
  <2> HIDE DEF tab
  <2> QED BY <1>1, <1>4, <2>1, <2>2, ShowsKeeps
<1>18. CASE HearReset(c)
  <2>1. "again" \in Places
    BY DEF Places
  <2> QED BY <1>1, <1>4, <1>18, <2>1, RefreshesKeeps DEF HearReset
<1>19. CASE HearAuthorization(c)
  BY <1>1, <1>4, <1>19, LeavesKeeps DEF HearAuthorization
<1>20. CASE HearLoads(c)
  <2> DEFINE url == IF c.op = "resume" THEN c.path ELSE IF c.op = "logout" THEN "/" ELSE "404"
  <2>1. url \in Places
    BY <1>2 DEF Places
  <2>2. Loaded(c.tab, Rest(c), url, Now(c).n)
    BY <1>20 DEF HearLoads
  <2> HIDE DEF url
  <2> QED BY <1>1, <1>2, <1>3, <1>4, <2>1, <2>2, LoadedKeeps
<1>21. CASE HearUnknown(c)
  <2>1. "404" \in Places
    BY DEF Places
  <2>2. Goes(c.tab, Rest(c), "404", tabs[c.tab].me, tabs[c.tab].n)
    BY <1>21 DEF HearUnknown, Now
  <2>3. tabs[c.tab].me \in Accounts(did) /\ tabs[c.tab].n \in Nat
    BY <1>1, StateOf
  <2>4. Keeps(c.tab)
    BY ONLY GateInv, <1>1, <1>2, <2>1, <2>2, <2>3, GoesKeeps
  <2> QED BY <1>4, <2>4
<1>22. CASE HearRead(c)
  <2> DEFINE tab == [Now(c) EXCEPT !.loading = @ /\ ~(c.op = "serviceByUuid4" /\ c.status = 200)]
  <2>1. tab \in TabStates(did)
    BY <1>3 DEF TabStates
  <2>2. Shows(c, tab)
    BY <1>22 DEF HearRead
  <2> HIDE DEF tab
  <2> QED BY <1>1, <1>4, <2>1, <2>2, ShowsKeeps
<1> QED BY <1>5, <1>6, <1>7, <1>8, <1>9, <1>10, <1>11, <1>12, <1>13, <1>14, <1>15, <1>16, <1>17,
           <1>18, <1>19, <1>20, <1>21, <1>22 DEF Hear

-------------------------------------------------------------------------------
(* The invariant, and the promise of LoginSteps.                           *)

LEMMA AtFirst == Init => GateInv
<1> SUFFICES ASSUME Init PROVE GateInv
  OBVIOUS
<1>1. scene.factor \in BOOLEAN /\ scene.aup \in BOOLEAN /\ scene.services \in BOOLEAN
  BY SceneAssumption DEF Init
<1>2. made \in Nat /\ device \in SUBSET Nat
  BY <1>1 DEF Init, None
<1>3. /\ db.aup = scene.aup /\ db.recent = FALSE
      /\ db \in [aup : BOOLEAN, secret : Nat, suspended : BOOLEAN, services : BOOLEAN,
                 token : Nat, mails : Nat, recent : BOOLEAN, uuid : Nat]
  BY <1>1, <1>2 DEF Init, None
<1>4. did \in SUBSET BothSteps /\ (scene.aup => "aup" \in did)
  BY <1>1 DEF Init, BothSteps
<1>5. jar \in Cookies(did) /\ net \in SUBSET Calls(did) /\ Guest \in Accounts(did)
  BY Nobody DEF Init
<1>6. tabs \in [Tabs -> TabStates(did)]
  BY <1>5 DEF Init, TabStates, Places, Sheets, Pages, None
<1> QED BY <1>2, <1>3, <1>4, <1>5, <1>6 DEF GateInv

(* What one step may do: take a step of the login, or change one tab.      *)
LEMMA StepOf ==
  ASSUME GateInv, Next
  PROVE  /\ GateInv'
         /\ \/ UNCHANGED tabs /\ (did' = did \/ \E s \in BothSteps : did' = did \union {s})
            \/ UNCHANGED did /\ \E t \in Tabs : Only(t)
<1>1. ASSUME NEW t \in Tabs, UserStep(t)
      PROVE  GateInv' /\ UNCHANGED did /\ Only(t)
  BY <1>1, UserKeeps
<1>2. ASSUME NEW c \in net, Serve(c)
      PROVE  GateInv' /\ UNCHANGED tabs /\ (did' = did \/ \E s \in BothSteps : did' = did \union {s})
  BY <1>2, ServeKeeps
<1>3. ASSUME NEW c \in net, Hear(c)
      PROVE  GateInv' /\ UNCHANGED did /\ Only(c.tab) /\ c.tab \in Tabs
  <2>1. c.tab \in Tabs
    BY <1>3 DEF Hear, Heard, HearUnauthorized, HearMe, HearRefresh, HearAgreed, HearQrCode,
         HearVerified, HearContinue, HearTooMany, HearInvalid, HearPreUpdated, HearUpdated,
         HearRespondents, HearRequested, HearReset, HearAuthorization, HearLoads, HearUnknown, HearRead
  <2> QED BY <1>3, <2>1, HearKeeps
<1>4. ASSUME Later PROVE GateInv' /\ UNCHANGED <<tabs, did>>
  <2>1. UNCHANGED <<made, jar, net, tabs, device, did>> /\ db' = [db EXCEPT !.recent = FALSE]
    BY <1>4 DEF Later, history
  <2> QED BY <2>1 DEF GateInv
<1>5. ASSUME NEW t, CallStep(t)
      PROVE  \E c \in net : Serve(c) \/ Hear(c)
  BY <1>5 DEF CallStep
<1> QED BY <1>1, <1>2, <1>3, <1>4, <1>5 DEF Next

LEMMA StutterKeeps == ASSUME GateInv, UNCHANGED vars PROVE GateInv'
BY DEF GateInv, vars, history

(* What is said of a user is true, and a page is shown after both steps.   *)
THEOREM SaidIsDone == Spec => []GateInv
<1>1. Init => GateInv
  BY AtFirst
<1>2. GateInv /\ [Next]_vars => GateInv'
  BY StepOf, StutterKeeps
<1> QED BY <1>1, <1>2, PTL DEF Spec

(* The client keeps the promise of LoginSteps: a handler that answers takes*)
(* a step or none, a tab enters the application after both, and leaves.    *)
THEOREM PromiseKept == Spec => StepsBeforePages
<1> DEFINE inside == {t \in Tabs : tabs[t].page \in Pages}
<1>1. Init => Gate!Init
  <2> SUFFICES ASSUME Init PROVE Gate!Init
    OBVIOUS
  <2>1. did \in SUBSET BothSteps
    BY AtFirst DEF GateInv
  <2>2. inside = {}
    BY DEF Init, Pages
  <2> QED BY <2>1, <2>2 DEF Gate!Init, Gate!Steps, BothSteps
<1>2. GateInv /\ [Next]_vars => [Gate!Next]_<<did, inside>>
  <2> SUFFICES ASSUME GateInv, [Next]_vars PROVE [Gate!Next]_<<did, inside>>
    OBVIOUS
  <2>1. CASE UNCHANGED vars
    BY <2>1 DEF vars, history
  <2>2. CASE UNCHANGED tabs /\ (did' = did \/ \E s \in BothSteps : did' = did \union {s})
    BY <2>2 DEF Gate!Next, Gate!Take, Gate!Steps, BothSteps
  <2>3. CASE Next /\ UNCHANGED did /\ \E t \in Tabs : Only(t)
    <3>1. PICK t \in Tabs : Only(t)
      BY <2>3
    <3>2. \A u \in Tabs \ {t} : u \in inside <=> u \in inside'
      BY <3>1 DEF Only
    <3>3. CASE t \in inside'
      <4>1. did = BothSteps
        <5>1. GateInv' /\ did' = did
          BY <2>3, StepOf
        <5> QED BY <3>3, <5>1 DEF GateInv, TabStates
      <4>2. inside' = inside \union {t}
        BY <3>2, <3>3
      <4>3. Gate!Enter(t)
        BY <2>3, <4>1, <4>2 DEF Gate!Enter, Gate!Steps, BothSteps
      <4> QED BY <4>3 DEF Gate!Next
    <3>4. CASE t \notin inside'
      <4>1. inside' = inside \ {t}
        BY <3>2, <3>4
      <4>2. Gate!Leave(t)
        BY <2>3, <4>1 DEF Gate!Leave
      <4> QED BY <4>2 DEF Gate!Next
    <3> QED BY <3>3, <3>4
  <2> QED BY <2>1, <2>2, <2>3, StepOf
<1> QED BY <1>1, <1>2, SaidIsDone, PTL DEF Spec, Gate!Spec, StepsBeforePages

-------------------------------------------------------------------------------
(* The factor: a code that is checked was read from the authenticator.     *)

Checking == {"verify2fa", "verify2faProxyAuthz", "update2fa"}
Typed(c) == c.op \in Checking => c.code \in device \union {None}
AllTyped == \A c \in net : Typed(c)
FactorInv == AllTyped /\ NeverLockedOut

LEMMA CallTyped ==
  ASSUME NEW t, NEW op, NEW code, NEW path,
         op \notin Checking \/ code \in device \union {None}
  PROVE  Typed(Call(t, op, code, path))
BY DEF Call, Typed

LEMMA MountTyped ==
  ASSUME NEW t, NEW tab, NEW me
  PROVE  /\ \A c \in MountCalls(t, tab) : Typed(c)
         /\ \A c \in HeaderMounted(t, me) \union HeaderReceives(t, me) : Typed(c)
<1>1. \A path : \A op \in {"authorization", "get2faProxyAuthz", "get2fa", "serviceByUuid4", "schacHome"} :
        Typed(Call(t, op, None, path))
  BY CallTyped DEF Checking
<1>2. \A c \in HeaderMounted(t, me) \union HeaderReceives(t, me) : Typed(c)
  BY <1>1 DEF HeaderMounted, HeaderReceives
<1>3. CASE tab.page = "leaving"
  BY <1>1, <1>2, <1>3 DEF MountCalls
<1>4. CASE tab.page = "proxy" /\ tab.me.guest
  BY <1>1, <1>2, <1>4 DEF MountCalls
<1>5. CASE tab.page = "update" \/ (tab.page \in {"2fa", "proxy"} /\ ~tab.me.guest /\ ~tab.me.factor)
  BY <1>1, <1>2, <1>5 DEF MountCalls
<1>6. CASE tab.page = "service-aup"
  BY <1>1, <1>2, <1>6 DEF MountCalls
<1>7. CASE ~(\/ tab.page = "leaving" \/ (tab.page = "proxy" /\ tab.me.guest)
             \/ tab.page = "update" \/ (tab.page \in {"2fa", "proxy"} /\ ~tab.me.guest /\ ~tab.me.factor)
             \/ tab.page = "service-aup")
  BY <1>2, <1>7 DEF MountCalls
<1> QED BY <1>3, <1>4, <1>5, <1>6, <1>7

(* A call that is dropped, left or overtaken keeps its code.               *)
LEMMA DroppedTyped ==
  ASSUME NEW t, NEW done, NEW cs \in SUBSET Calls(done), \A c \in cs : Typed(c)
  PROVE  (\A c \in Dropped(t, cs) : Typed(c)) /\ (\A c \in Unmounted(t, cs) : Typed(c))
<1>1. \A c \in cs : Typed([c EXCEPT !.tab = "nobody"]) /\ Typed([c EXCEPT !.live = FALSE])
  BY DEF Typed, Calls
<1> QED BY <1>1 DEF Dropped, Unmounted

LEMMA LoadedTyped ==
  ASSUME NEW t, NEW done, NEW cs \in SUBSET Calls(done), \A c \in cs : Typed(c), NEW url, NEW n,
         Loaded(t, cs, url, n)
  PROVE  \A c \in net' : Typed(c)
<1>1. Typed(Call(t, "me", None, url))
  BY CallTyped DEF Checking
<1> QED BY <1>1, DroppedTyped DEF Loaded

LEMMA GoesTyped ==
  ASSUME NEW t, NEW done, NEW cs \in SUBSET Calls(done), \A c \in cs : Typed(c), NEW page, NEW me,
         NEW n, Goes(t, cs, page, me, n)
  PROVE  \A c \in net' : Typed(c)
<1>1. CASE page = tabs[t].page
  BY <1>1 DEF Goes
<1>2. CASE page # tabs[t].page
  <2> DEFINE tab == [Arrival(tabs[t], page, me) EXCEPT !.n = n]
  <2>1. net' = Unmounted(t, cs) \union MountCalls(t, tab)
    BY <1>2 DEF Goes
  <2> HIDE DEF tab
  <2> QED BY <2>1, DroppedTyped, MountTyped
<1> QED BY <1>1, <1>2

(* With the authenticator as it is, the calls decide.                      *)
LEMMA CallsStayTyped ==
  ASSUME NeverLockedOut, UNCHANGED <<scene, device>>, db'.secret = db.secret,
         \A c \in net' : Typed(c)
  PROVE  FactorInv'
BY DEF FactorInv, AllTyped, Typed, NeverLockedOut

LEMMA UserFactor ==
  ASSUME GateInv, FactorInv, NEW t \in Tabs, UserStep(t)
  PROVE  FactorInv'
<1>1. NeverLockedOut /\ \A c \in net : Typed(c)
  BY DEF FactorInv, AllTyped
<1>2. net \in SUBSET Calls(did)
  BY DEF GateInv
<1>3. ASSUME NEW op, NEW code, NEW path, OnlyTabs, net' = net \union {Call(t, op, code, path)},
             op \notin Checking \/ code \in device \union {None}
      PROVE  FactorInv'
  BY <1>1, <1>3, CallTyped, CallsStayTyped DEF OnlyTabs
<1>4. ASSUME OnlyTabs, UNCHANGED net PROVE FactorInv'
  BY <1>1, <1>4, CallsStayTyped DEF OnlyTabs
<1>5. ASSUME OnlyTabs, NEW page, NEW me, NEW n, Loaded(t, net, page, n) \/ Goes(t, net, page, me, n)
      PROVE  FactorInv'
  BY <1>1, <1>2, <1>5, LoadedTyped, GoesTyped, CallsStayTyped DEF OnlyTabs
<1>6. CASE \E at \in Addresses : Open(t, at)
  BY <1>5, <1>6 DEF Open
<1>7. CASE LoginButton(t) \/ LogoutButton(t) \/ AgreeAup(t) \/ AgreeMissing(t) \/ AgreeService(t)
           \/ SendResetRequest(t)
  BY <1>3, <1>7 DEF LoginButton, LogoutButton, AgreeAup, AgreeMissing, AgreeService, SendResetRequest,
                    Sends, SendsLoading, Checking
<1>8. CASE ComeBack(t)
  BY <1>3, <1>8 DEF ComeBack, Checking
<1>9. CASE Logo(t) \/ ConfigureMfa(t) \/ Cancel(t)
  BY <1>5, <1>9 DEF Logo, ConfigureMfa, Cancel
<1>10. CASE Scan(t)
  <2>1. UNCHANGED <<net, db, scene>> /\ device \subseteq device'
    BY <1>10 DEF Scan
  <2> QED BY <1>1, <2>1 DEF FactorInv, AllTyped, Typed, NeverLockedOut
<1>11. CASE \E code \in Codes : Verify(t, code) \/ PreUpdateVerify(t, code)
  <2>1. PICK code \in Codes : Verify(t, code) \/ PreUpdateVerify(t, code)
    BY <1>11
  <2>2. code \in device \union {None}
    BY DEF Codes
  <2> QED BY <1>3, <2>1, <2>2 DEF Verify, PreUpdateVerify, SendsBusy
<1>12. CASE OpenResetRequest(t)
  BY <1>3, <1>4, <1>12 DEF OpenResetRequest, SendsLoading, Checking
<1>13. CASE EnterResetToken(t) \/ CloseSheet(t)
  BY <1>4, <1>13 DEF EnterResetToken, CloseSheet
<1>14. CASE \E code \in 0 .. db.mails : SubmitResetCode(t, code)
  BY <1>3, <1>14 DEF SubmitResetCode, SendsLoading, Checking
<1> QED BY <1>6, <1>7, <1>8, <1>9, <1>10, <1>11, <1>12, <1>13, <1>14 DEF UserStep

(* An answer keeps the code, but for the two calls that bring a QR code.   *)
Answers(c, d) == d.op = c.op /\ (d.code = c.code \/ c.op \notin Checking)

LEMMA AnswerTyped ==
  ASSUME GateInv, FactorInv, NEW c \in net, NEW d, Replies(c, d), UNCHANGED <<scene, device>>,
         Answers(c, d), db'.secret = db.secret \/ db'.secret = None \/ db'.secret \in device
  PROVE  FactorInv'
<1>1. Typed(d)
  BY DEF Typed, FactorInv, AllTyped, Answers
<1>2. AllTyped'
  BY <1>1 DEF FactorInv, AllTyped, Typed, Replies
<1>3. NeverLockedOut'
  BY DEF FactorInv, NeverLockedOut
<1> QED BY <1>2, <1>3 DEF FactorInv

LEMMA AnswerFields ==
  ASSUME NEW done, NEW c \in Calls(done)
  PROVE  /\ Answers(c, Ok(c)) /\ \A cookie : Answers(c, OkWith(c, cookie))
         /\ \A status : Answers(c, [c EXCEPT !.status = status])
         /\ \A me : Answers(c, [Ok(c) EXCEPT !.me = me])
         /\ \A cookie, path : Answers(c, [OkWith(c, cookie) EXCEPT !.path = path])
         /\ \A cookie, status : Answers(c, [OkWith(c, cookie) EXCEPT !.status = status])
         /\ c.op \notin Checking =>
              \A cookie, code : Answers(c, [OkWith(c, cookie) EXCEPT !.code = code])
BY DEF Answers, Ok, OkWith, Calls

LEMMA ServeFactor ==
  ASSUME GateInv, FactorInv, NEW c \in net, Serve(c)
  PROVE  FactorInv'
<1>1. c \in Calls(did) /\ db \in Rows
  BY DEF GateInv, Rows
<1>2. ASSUME NEW d, Replies(c, d), UNCHANGED <<scene, device>>, Answers(c, d),
             db'.secret = db.secret \/ db'.secret = None \/ db'.secret \in device
      PROVE  FactorInv'
  BY <1>2, AnswerTyped
<1>3. ASSUME c.op \in Checking, c.code # None
      PROVE  c.code \in device
  BY <1>3 DEF FactorInv, AllTyped, Typed
<1>4. CASE NotAdmitted(c)
  BY <1>1, <1>2, <1>4, AnswerFields DEF NotAdmitted
<1>5. CASE ServeMe(c)
  <2> DEFINE me == [Guest EXCEPT !.guest = FALSE, !.aup = c.cookie.aup, !.confirmed = c.cookie.confirmed,
                      !.factor = db.secret # None, !.missing = c.cookie.confirmed /\ db.services]
             gone == [Guest EXCEPT !.suspended = TRUE]
  <2>1. /\ UNCHANGED <<scene, device, db>>
        /\ \/ Replies(c, Ok(c)) \/ Replies(c, [Ok(c) EXCEPT !.me = me])
           \/ Replies(c, [c EXCEPT !.status = 409, !.me = gone])
    BY <1>5 DEF ServeMe
  <2> HIDE DEF me, gone
  <2>2. Answers(c, [c EXCEPT !.status = 409, !.me = gone])
    BY <1>1 DEF Answers, Calls
  <2> QED BY <1>1, <1>2, <2>1, <2>2, AnswerFields
<1>6. CASE ServeRefresh(c)
  <2> DEFINE me == [Guest EXCEPT !.guest = FALSE, !.aup = db.aup, !.confirmed = c.cookie.confirmed,
                      !.factor = db.secret # None, !.missing = db.services]
  <2>1. Replies(c, [Ok(c) EXCEPT !.me = me]) /\ UNCHANGED <<scene, device, db>>
    BY <1>6 DEF ServeRefresh
  <2> HIDE DEF me
  <2> QED BY <1>1, <1>2, <2>1, AnswerFields
<1>7. CASE ServeAgree(c)
  <2> DEFINE cookie == [c.cookie EXCEPT !.aup = TRUE]
  <2>1. /\ Replies(c, [OkWith(c, cookie) EXCEPT !.path = c.cookie.dest]) /\ UNCHANGED <<scene, device>>
        /\ db'.secret = db.secret
    BY <1>1, <1>7 DEF ServeAgree, Rows
  <2> HIDE DEF cookie
  <2> QED BY <1>1, <1>2, <2>1, AnswerFields
<1>8. CASE ServeGet2fa(c)
  <2> DEFINE cookie == [c.cookie EXCEPT !.pending = made + 1]
  <2>1. /\ Replies(c, [OkWith(c, cookie) EXCEPT !.code = made + 1]) /\ UNCHANGED <<scene, device, db>>
        /\ c.op \notin Checking
    BY <1>8 DEF ServeGet2fa, Asked, Checking
  <2> HIDE DEF cookie
  <2> QED BY <1>1, <1>2, <2>1, AnswerFields
<1>9. CASE ServeHasFactor(c)
  BY <1>1, <1>2, <1>9, AnswerFields DEF ServeHasFactor
<1>10. CASE ServeTooMany(c)
  <2>1. db'.secret = db.secret
    BY <1>1, <1>10 DEF ServeTooMany, Rows
  <2> QED BY <1>1, <1>2, <1>10, <2>1, AnswerFields DEF ServeTooMany
<1>11. CASE ServeWrong(c)
  BY <1>1, <1>2, <1>11, AnswerFields DEF ServeWrong
<1>12. CASE ServeRight(c)
  <2> DEFINE cookie == [c.cookie EXCEPT !.user = TRUE, !.confirmed = TRUE, !.aup = db.aup]
  <2>1. Replies(c, [OkWith(c, cookie) EXCEPT !.path = c.cookie.dest]) /\ UNCHANGED <<scene, device>>
    BY <1>12 DEF ServeRight
  <2>2. c.op \in Checking /\ c.code # None /\ db'.secret = c.code
    BY <1>1, <1>12 DEF ServeRight, Verifies, Asked, Checking, Rows
  <2> HIDE DEF cookie
  <2> QED BY <1>1, <1>2, <1>3, <2>1, <2>2, AnswerFields
<1>13. CASE ServePreUpdate(c)
  <2> DEFINE cookie == [c.cookie EXCEPT !.checked = TRUE]
  <2>1. /\ Replies(c, OkWith(c, cookie)) \/ Replies(c, [c EXCEPT !.status = 400])
        /\ UNCHANGED <<scene, device, db>>
    BY <1>13 DEF ServePreUpdate
  <2> HIDE DEF cookie
  <2> QED BY <1>1, <1>2, <2>1, AnswerFields
(* The new secret is taken only if the code was one of its own.            *)
<1>14. CASE ServeUpdate(c)
  <2>1. /\ Replies(c, Ok(c)) \/ Replies(c, [c EXCEPT !.status = 400])
        /\ UNCHANGED <<scene, device>> /\ c.op \in Checking
    BY <1>14 DEF ServeUpdate, Asked, Checking
  <2>2. db'.secret = db.secret \/ (c.code # None /\ db'.secret = c.code)
    BY <1>1, <1>14 DEF ServeUpdate, NewCodeIsRight, Rows
  <2> QED BY <1>1, <1>2, <1>3, <2>1, <2>2, AnswerFields
<1>15. CASE ServeRespondents(c)
  BY <1>1, <1>2, <1>15, AnswerFields DEF ServeRespondents
<1>16. CASE ServeResetRequest(c)
  <2>1. db'.secret = db.secret
    BY <1>1, <1>16 DEF ServeResetRequest, Rows
  <2> QED BY <1>1, <1>2, <1>16, <2>1, AnswerFields DEF ServeResetRequest
<1>17. CASE ServeReset(c)
  <2>1. db'.secret = db.secret \/ db'.secret = None
    BY <1>1, <1>17 DEF ServeReset, Rows
  <2> QED BY <1>1, <1>2, <1>17, <2>1, AnswerFields DEF ServeReset
<1>18. CASE ServeAuthorization(c)
  BY <1>1, <1>2, <1>18, AnswerFields DEF ServeAuthorization
<1>19. CASE ServeResume(c)
  <2> DEFINE confirmed == scene.idpMfa \/ db.recent
             s == [c.cookie EXCEPT !.user = TRUE, !.aup = db.aup, !.confirmed = confirmed]
             home == [s EXCEPT !.dest = "/"]
  <2>1. \/ Replies(c, [OkWith(c, s) EXCEPT !.path = "aup"])
        \/ Replies(c, [OkWith(c, s) EXCEPT !.path = "2fa"])
        \/ Replies(c, [OkWith(c, home) EXCEPT !.path = s.dest])
    BY <1>19 DEF ServeResume
  <2>2. UNCHANGED <<scene, device>> /\ db'.secret = db.secret
    BY <1>1, <1>19 DEF ServeResume, Rows
  <2> HIDE DEF s, home
  <2> QED BY <1>1, <1>2, <2>1, <2>2, AnswerFields
<1>20. CASE ServeServiceAups(c)
  <2>1. db'.secret = db.secret
    BY <1>1, <1>20 DEF ServeServiceAups, Rows
  <2> QED BY <1>1, <1>2, <1>20, <2>1, AnswerFields DEF ServeServiceAups
<1>21. CASE ServeRead(c)
  BY <1>1, <1>2, <1>21, AnswerFields DEF ServeRead
<1>22. CASE ServeLogout(c)
  BY <1>1, <1>2, <1>22, AnswerFields DEF ServeLogout
<1> QED BY <1>4, <1>5, <1>6, <1>7, <1>8, <1>9, <1>10, <1>11, <1>12, <1>13, <1>14, <1>15, <1>16,
           <1>17, <1>18, <1>19, <1>20, <1>21, <1>22 DEF Serve

LEMMA HearFactor ==
  ASSUME GateInv, FactorInv, NEW c \in net, Hear(c)
  PROVE  FactorInv'
<1>1. c.tab \in Tabs /\ Stored(c)
  BY DEF Hear, Heard, HearUnauthorized, HearMe, HearRefresh, HearAgreed, HearQrCode, HearVerified,
         HearContinue, HearTooMany, HearInvalid, HearPreUpdated, HearUpdated, HearRespondents,
         HearRequested, HearReset, HearAuthorization, HearLoads, HearUnknown, HearRead
<1>2. Rest(c) \in SUBSET Calls(did)
  BY <1>1, HeardFrom
<1>3. \A d \in Rest(c) : Typed(d)
  <2>1. \A d \in net : Typed(d) /\ d \in Calls(did)
    BY DEF FactorInv, AllTyped, GateInv
  <2>2. \A d \in net : Typed([d EXCEPT !.old = TRUE])
    BY <2>1 DEF Typed, Calls
  <2> QED BY <2>1, <2>2 DEF Rest
<1>4. ASSUME \A d \in net' : Typed(d) PROVE FactorInv'
  BY <1>1, <1>4, CallsStayTyped DEF Stored, FactorInv
<1>5. ASSUME NEW url, NEW n, Loaded(c.tab, Rest(c), url, n) PROVE FactorInv'
  BY <1>2, <1>3, <1>4, <1>5, LoadedTyped
<1>6. ASSUME NEW cs \in SUBSET Calls(did), \A d \in cs : Typed(d), NEW page, NEW me, NEW n,
             Goes(c.tab, cs, page, me, n)
      PROVE  FactorInv'
  BY <1>4, <1>6, GoesTyped
<1>7. ASSUME NEW path, Refreshes(c, path) PROVE FactorInv'
  <2> DEFINE d == Call(c.tab, "refresh", None, path)
  <2>1. Typed([d EXCEPT !.live = c.live])
    BY DEF Call, Typed, Checking
  <2> QED BY <1>3, <1>4, <1>7, <2>1 DEF Refreshes
<1>8. ASSUME NEW tab, Shows(c, tab) PROVE FactorInv'
  BY <1>3, <1>4, <1>8 DEF Shows
<1>9. ASSUME NEW page, Leaves(c, page) PROVE FactorInv'
  BY <1>2, <1>3, <1>4, <1>9, DroppedTyped DEF Leaves
<1>10. CASE HearUnauthorized(c)
  BY <1>5, <1>10 DEF HearUnauthorized
<1>11. CASE HearMe(c)
  BY <1>3, <1>4, <1>11, MountTyped DEF HearMe
<1>12. CASE HearRefresh(c)
  <2> DEFINE rest == Rest(c) \union HeaderReceives(c.tab, c.me)
             again == Mounted(Now(c), Now(c).page, Now(c).at, c.me)
  <2>1. rest \in SUBSET Calls(did) /\ \A d \in rest : Typed(d)
    BY <1>1, <1>2, <1>3, HeardFrom, HeaderType, MountTyped
  <2>2. \/ Goes(c.tab, rest, c.path, c.me, Now(c).n)
        \/ net' = rest \union MountCalls(c.tab, again) \/ net' = rest
    BY <1>12 DEF HearRefresh
  <2> HIDE DEF rest, again
  <2> QED BY <1>4, <1>6, <2>1, <2>2, MountTyped
<1>13. CASE HearAgreed(c) \/ HearVerified(c) \/ HearReset(c)
  BY <1>7, <1>13 DEF HearAgreed, HearVerified, HearReset
<1>14. CASE HearQrCode(c) \/ HearInvalid(c) \/ HearPreUpdated(c) \/ HearRespondents(c)
            \/ HearRequested(c) \/ HearRead(c)
  BY <1>8, <1>14 DEF HearQrCode, HearInvalid, HearPreUpdated, HearRespondents, HearRequested, HearRead
<1>15. CASE HearContinue(c) \/ HearAuthorization(c)
  BY <1>9, <1>15 DEF HearContinue, HearAuthorization
<1>16. CASE HearTooMany(c)
  <2>1. net' = Unmounted(c.tab, Rest(c))
    BY <1>16 DEF HearTooMany
  <2> QED BY <1>2, <1>3, <1>4, <2>1, DroppedTyped
<1>17. CASE HearUpdated(c) \/ HearUnknown(c)
  BY <1>2, <1>3, <1>6, <1>17 DEF HearUpdated, HearUnknown
<1>18. CASE HearLoads(c)
  BY <1>5, <1>18 DEF HearLoads
<1> QED BY <1>10, <1>11, <1>12, <1>13, <1>14, <1>15, <1>16, <1>17, <1>18 DEF Hear

LEMMA NextFactor == GateInv /\ FactorInv /\ [Next]_vars => FactorInv'
<1> SUFFICES ASSUME GateInv, FactorInv, [Next]_vars PROVE FactorInv'
  OBVIOUS
<1>1. CASE UNCHANGED vars
  BY <1>1 DEF vars, FactorInv, AllTyped, Typed, NeverLockedOut
<1>2. CASE Later
  <2>1. UNCHANGED <<scene, net, device>> /\ db'.secret = db.secret
    BY <1>2 DEF Later, GateInv
  <2> QED BY <2>1 DEF FactorInv, AllTyped, Typed, NeverLockedOut
<1>3. ASSUME NEW t \in Tabs, UserStep(t) PROVE FactorInv'
  BY <1>3, UserFactor
<1>4. ASSUME NEW t, CallStep(t) PROVE FactorInv'
  BY <1>4, ServeFactor, HearFactor DEF CallStep
<1> QED BY <1>1, <1>2, <1>3, <1>4 DEF Next

(* Two forms open with two QR codes never leave the user with a factor that*)
(* is in no authenticator: a secret becomes the user's by a code of its    *)
(* own, and codes are read from what was scanned.                          *)
THEOREM FactorIsHeld == Spec => []NeverLockedOut
<1>1. Init => FactorInv
  <2> SUFFICES ASSUME Init PROVE FactorInv
    OBVIOUS
  <2>1. scene.factor \in BOOLEAN /\ scene.lost \in BOOLEAN
    BY SceneAssumption DEF Init
  <2>2. db.secret = made /\ net = {}
    BY DEF Init
  <2> QED BY <2>1, <2>2 DEF Init, FactorInv, AllTyped, NeverLockedOut, None
<1>2. GateInv /\ FactorInv /\ [Next]_vars => FactorInv'
  BY NextFactor
<1>3. FactorInv => NeverLockedOut
  BY DEF FactorInv
<1> QED BY <1>1, <1>2, <1>3, SaidIsDone, PTL DEF Spec

-------------------------------------------------------------------------------
(* The guesses that redis counts are never more than there were.           *)
CountInv == /\ rate.entry \in BOOLEAN /\ rate.fresh \in BOOLEAN /\ rate.count \in Nat
            /\ wrong \in Nat /\ rate.count <= wrong

LEMMA CountKept ==
  ASSUME CountInv, Next
  PROVE  CountInv'
<1>1. CASE UNCHANGED <<rate, wrong>>
  BY <1>1 DEF CountInv
<1>2. ASSUME NEW t \in Tabs, UserStep(t) PROVE UNCHANGED <<rate, wrong>>
  BY <1>2 DEF UserStep, Open, LoginButton, ComeBack, Logo, LogoutButton, ConfigureMfa, AgreeAup,
     AgreeMissing, AgreeService, Scan, Verify, PreUpdateVerify, OpenResetRequest, SendResetRequest,
     EnterResetToken, CloseSheet, SubmitResetCode, Cancel, Sends, SendsBusy, SendsLoading, OnlyTabs,
     history
<1>3. ASSUME NEW c \in net, Hear(c) PROVE UNCHANGED <<rate, wrong>>
  BY <1>3 DEF Hear, HearUnauthorized, HearMe, HearRefresh, HearAgreed, HearQrCode, HearVerified,
     HearContinue, HearTooMany, HearInvalid, HearPreUpdated, HearUpdated, HearRespondents,
     HearRequested, HearReset, HearAuthorization, HearLoads, HearUnknown, HearRead, Stored
<1>4. ASSUME NEW c \in net, Serve(c) PROVE CountInv'
  <2>1. CASE ServeWrong(c)
    <3>1. CASE ~Found(c)
      BY <2>1, <3>1 DEF ServeWrong, CountInv
    <3>2. CASE Found(c)
      <4>1. rate'.entry \in BOOLEAN /\ rate'.fresh \in BOOLEAN
        BY <2>1, <3>2 DEF ServeWrong, Counts
      <4>2. CASE rate.entry /\ ~rate.fresh
        <5>1. rate'.count = 0 /\ wrong' = 1
          BY <2>1, <3>2, <4>2 DEF ServeWrong, Counts
        <5> QED BY <4>1, <5>1 DEF CountInv
      <4>3. CASE ~(rate.entry /\ ~rate.fresh)
        <5>1. rate'.count = rate.count + 1 /\ wrong' = wrong + 1
          BY <2>1, <3>2, <4>3 DEF ServeWrong, Counts
        <5> QED BY <4>1, <5>1 DEF CountInv
      <4> QED BY <4>2, <4>3
    <3> QED BY <3>1, <3>2
  <2>2. CASE ServeRight(c)
    BY <2>2 DEF ServeRight, CountInv, NoGuesses
  <2>3. CASE ~ServeWrong(c) /\ ~ServeRight(c)
    <3>1. UNCHANGED <<rate, wrong>>
      BY <1>4, <2>3 DEF Serve, NotAdmitted, ServeMe, ServeRefresh, ServeAgree, ServeGet2fa,
         ServeHasFactor, ServeTooMany, ServePreUpdate, ServeUpdate, ServeRespondents,
         ServeResetRequest, ServeReset, ServeAuthorization, ServeResume, ServeServiceAups, ServeRead,
         ServeLogout, history
    <3> QED BY <1>1, <3>1
  <2> QED BY <2>1, <2>2, <2>3
<1>5. CASE Later
  BY <1>5 DEF Later, CountInv, history
<1> QED BY <1>1, <1>2, <1>3, <1>4, <1>5 DEF Next, CallStep

(* The user is suspended only by a guess after Limit guesses of the window.*)
LEMMA SuspendsEarned ==
  ASSUME GateInv, CountInv, Next, db'.suspended, ~db.suspended
  PROVE  wrong >= Limit
<1>1. ASSUME NEW c \in net, ServeTooMany(c) PROVE wrong >= Limit
  BY <1>1, LimitAssumption DEF ServeTooMany, Reached, CountInv
<1>2. ASSUME NEW t \in Tabs, UserStep(t) PROVE UNCHANGED db
  BY <1>2 DEF UserStep, Open, LoginButton, ComeBack, Logo, LogoutButton, ConfigureMfa, AgreeAup,
     AgreeMissing, AgreeService, Scan, Verify, PreUpdateVerify, OpenResetRequest, SendResetRequest,
     EnterResetToken, CloseSheet, SubmitResetCode, Cancel, Sends, SendsBusy, SendsLoading, OnlyTabs
<1>3. ASSUME NEW c \in net, Hear(c) PROVE UNCHANGED db
  BY <1>3 DEF Hear, HearUnauthorized, HearMe, HearRefresh, HearAgreed, HearQrCode, HearVerified,
     HearContinue, HearTooMany, HearInvalid, HearPreUpdated, HearUpdated, HearRespondents,
     HearRequested, HearReset, HearAuthorization, HearLoads, HearUnknown, HearRead, Stored
<1>4. ASSUME NEW c \in net, Serve(c), ~ServeTooMany(c) PROVE db'.suspended = db.suspended
  <2>1. CASE UNCHANGED db
    BY <2>1
  <2>2. CASE ServeAgree(c) \/ ServeRight(c) \/ ServeUpdate(c) \/ ServeServiceAups(c)
    BY <2>2 DEF ServeAgree, ServeRight, ServeUpdate, ServeServiceAups, GateInv
  <2>3. CASE ServeResetRequest(c)
    BY <2>3 DEF ServeResetRequest, GateInv
  <2>4. CASE ServeReset(c)
    BY <2>4 DEF ServeReset, GateInv
  <2>5. CASE ServeResume(c)
    <3>1. \E recent, uuid : db' = [db EXCEPT !.recent = recent, !.uuid = uuid]
      BY <2>5 DEF ServeResume
    <3> QED BY <3>1 DEF GateInv
  <2> QED BY <1>4, <2>1, <2>2, <2>3, <2>4, <2>5 DEF Serve, NotAdmitted, ServeMe, ServeRefresh,
             ServeGet2fa, ServeHasFactor, ServeWrong, ServePreUpdate, ServeRespondents,
             ServeAuthorization, ServeRead, ServeLogout
<1>5. CASE Later
  BY <1>5 DEF Later, GateInv
<1> QED BY <1>1, <1>2, <1>3, <1>4, <1>5 DEF Next, CallStep

(* Nobody is suspended for fewer wrong guesses than are allowed, however   *)
(* the guesses of two tabs and the windows of redis follow each other.     *)
THEOREM SuspendedForGuesses == Spec => SuspensionIsEarned
<1>1. Init => CountInv
  BY DEF Init, CountInv, NoGuesses
<1>2. CountInv /\ [Next]_vars => CountInv'
  <2>1. CountInv /\ UNCHANGED vars => CountInv'
    BY DEF CountInv, vars, history
  <2> QED BY <2>1, CountKept
<1>3. GateInv /\ CountInv /\ [Next]_vars => [db'.suspended /\ ~db.suspended => wrong >= Limit]_vars
  BY SuspendsEarned
<1> QED BY <1>1, <1>2, <1>3, SaidIsDone, PTL DEF Spec, SuspensionIsEarned
-------------------------------------------------------------------------------
(* The QR code: while no answer has put back an older cookie, the cookie   *)
(* of the browser and those on their way agree about the pending secret,   *)
(* as long as one tab makes all the calls.                                 *)

QrOps == {"get2fa", "get2faProxyAuthz"}
Alone(t) == \A u \in Tabs \ {t} : tabs[u].page = "closed"
(* Nothing leads to a closed tab.                                          *)
Leads(c) == c.path # "closed" /\ c.cookie.dest # "closed"
(* What a call of the tab says of the secret, if nothing has overtaken it: *)
(* the one of its QR code, none as the user is logged out, or the pending. *)
Ends(c) == c.sets /\ (c.op = "logout" \/ c.status = 429)
Brings(c) == c.sets /\ c.op \in QrOps
Says(c, pending, qr) ==
  /\ Brings(c) => c.cookie.pending = c.code
  /\ ~Brings(c) /\ ~Ends(c) => c.cookie.pending = pending
  /\ c.op \in QrOps /\ qr # None => c.live
Formed(c) ==
  /\ c.sets => c.status \in {200, 429}
  /\ c.status = 429 => c.op \in {"verify2fa", "verify2faProxyAuthz"}
  /\ c.op \in QrOps => (c.status = 200 /\ c.sets) \/ c.code = None
AllSay(t, cs, pending, qr) == \A c \in cs : c.tab = t /\ ~c.old => Says(c, pending, qr)
(* The calls are formed well, and those of other tabs come from open ones. *)
Placed(t, cs) ==
  \A c \in cs : Leads(c) /\ Formed(c) /\ (c.tab \in Tabs \ {t} => tabs[c.tab].page # "closed")

OpenInv ==
  /\ jar.dest # "closed" /\ \A t \in Tabs : tabs[t].at # "closed"
  /\ \A c \in net : Leads(c) /\ Formed(c) /\ (c.tab \in Tabs => tabs[c.tab].page # "closed")
Agrees(t) == (tabs[t].qr # None => jar.pending = tabs[t].qr)
             /\ AllSay(t, net, jar.pending, tabs[t].qr)
CodeInv == OpenInv /\ (~overtaken => \A t \in Tabs : Alone(t) => Agrees(t))

(* What a turn of one tab leaves.                                          *)
Turned(t) == Placed(t, net') /\ tabs'[t].page # "closed" /\ tabs'[t].at # "closed"

LEMMA TurnKeepsCode ==
  ASSUME GateInv, GateInv', CodeInv, NEW t \in Tabs, Only(t), Turned(t), jar'.dest # "closed",
         ~overtaken' => ~overtaken,
         ~overtaken' /\ Alone(t) /\ Agrees(t) =>
           /\ tabs'[t].qr # None => jar'.pending = tabs'[t].qr
           /\ AllSay(t, net', jar'.pending, tabs'[t].qr)
  PROVE  CodeInv'
<1>1. OpenInv'
  <2>1. \A u \in Tabs : tabs'[u].at # "closed"
    BY DEF Turned, Only, CodeInv, OpenInv
  <2>2. \A c \in net' : Leads(c) /\ Formed(c) /\ (c.tab \in Tabs => tabs'[c.tab].page # "closed")
    BY DEF Turned, Placed, Only
  <2> QED BY <2>1, <2>2 DEF OpenInv, Leads, Formed
<1>2. ASSUME ~overtaken', NEW u \in Tabs, \A v \in Tabs \ {u} : tabs'[v].page = "closed"
      PROVE  /\ tabs'[u].qr # None => jar'.pending = tabs'[u].qr
             /\ AllSay(u, net', jar'.pending, tabs'[u].qr)
  <2>1. u = t
    BY <1>2 DEF Turned
  <2>2. Alone(t)
    BY <1>2, <2>1 DEF Only, Alone
  <2> QED BY <1>2, <2>1, <2>2 DEF CodeInv
<1>3. ~overtaken' => \A u \in Tabs : Alone(u)' => Agrees(u)'
  BY <1>2 DEF Alone, Agrees, AllSay
<1> QED BY <1>1, <1>3 DEF CodeInv

(* The calls of a page that is mounted.                                    *)
Fresh(t, cs) ==
  \A c \in cs : c.tab = t /\ Leads(c) /\ Formed(c) /\ \A qr : Says(c, jar'.pending, qr)

LEMMA FreshCall ==
  ASSUME NEW t, NEW op, NEW code, NEW path, op \notin QrOps \/ code = None, path # "closed",
         jar'.dest # "closed"
  PROVE  /\ Fresh(t, {Call(t, op, code, path)})
         /\ op \notin QrOps => \A live : Fresh(t, {[Call(t, op, code, path) EXCEPT !.live = live]})
<1>1. ASSUME NEW c, c.tab = t /\ c.op = op /\ c.code = code /\ c.path = path /\ c.cookie = jar',
             c.sets = FALSE, c.status = 0, op \in QrOps => c.live
      PROVE  Fresh(t, {c})
  <2>1. Leads(c) /\ Formed(c)
    BY <1>1 DEF Leads, Formed
  <2>2. ASSUME NEW qr PROVE Says(c, jar'.pending, qr)
    BY <1>1 DEF Says, Brings, Ends
  <2> QED BY <1>1, <2>1, <2>2 DEF Fresh
<1> DEFINE c == Call(t, op, code, path)
<1>2. /\ c.tab = t /\ c.op = op /\ c.code = code /\ c.path = path /\ c.cookie = jar'
      /\ c.sets = FALSE /\ c.status = 0 /\ c.live
  BY DEF Call
<1>3. ASSUME NEW live
      PROVE  LET d == [c EXCEPT !.live = live]
             IN /\ d.tab = t /\ d.op = op /\ d.code = code /\ d.path = path /\ d.cookie = jar'
                /\ d.sets = FALSE /\ d.status = 0
  BY DEF Call
<1> HIDE DEF c
<1>4. Fresh(t, {c})
  BY <1>1, <1>2
<1>5. ASSUME op \notin QrOps, NEW live PROVE Fresh(t, {[c EXCEPT !.live = live]})
  BY <1>1, <1>3, <1>5
<1> QED BY <1>4, <1>5 DEF c

LEMMA MountedShows ==
  ASSUME NEW done, NEW tab \in TabStates(done), NEW page, NEW at, NEW me
  PROVE  LET m == Mounted(tab, page, at, me) IN m.page = page /\ m.at = at /\ m.qr = None
BY DEF Mounted, TabStates

LEMMA RoutedLeads ==
  ASSUME NEW page, page # "closed", NEW me PROVE Routed(page, me) # "closed"
<1>1. Protected("home", me) # "closed" /\ Protected(page, me) # "closed"
  BY DEF Protected
<1>2. CASE page = "/"
  BY <1>1, <1>2 DEF Routed
<1>3. CASE page = "aup"
  BY <1>3 DEF Routed, Pages
<1>4. CASE page = "2fa"
  BY <1>4 DEF Routed, Pages
<1>5. CASE page \in Pages
  BY <1>1, <1>5 DEF Routed, Pages
<1>6. CASE page = "missing"
  BY <1>6 DEF Routed, Pages
<1>7. CASE page \notin {"/", "aup", "2fa", "missing"} \union Pages
  BY <1>7 DEF Routed
<1> QED BY <1>2, <1>3, <1>4, <1>5, <1>6, <1>7

LEMMA ArrivalShows ==
  ASSUME NEW done, NEW tab \in TabStates(done), NEW page, page # "closed", tab.at # "closed", NEW me
  PROVE  LET a == Arrival(tab, page, me) IN a.page # "closed" /\ a.at # "closed" /\ a.qr = None
<1> DEFINE to == Routed(page, me)
           at == IF to \in {"leaving", "missing"} THEN IF page = "missing" THEN tab.at ELSE page ELSE to
<1>1. to # "closed"
  BY RoutedLeads
<1>2. at # "closed"
  BY <1>1
<1>3. Arrival(tab, page, me) = Mounted(tab, to, at, me)
  BY DEF Arrival
<1> HIDE DEF to, at
<1> QED BY <1>1, <1>2, <1>3, MountedShows

LEMMA MountFresh ==
  ASSUME NEW t, NEW tab, tab.at # "closed", NEW me, jar'.dest # "closed"
  PROVE  Fresh(t, MountCalls(t, tab)) /\ Fresh(t, HeaderMounted(t, me) \union HeaderReceives(t, me))
<1>1. ASSUME NEW op PROVE Fresh(t, {Call(t, op, None, "")})
  <2>1. "" # "closed"
    OBVIOUS
  <2> QED BY <2>1, FreshCall
<1>2. Fresh(t, {Call(t, "authorization", None, tab.at)})
  BY FreshCall
<1>3. Fresh(t, {})
  BY DEF Fresh
<1>4. Fresh(t, HeaderMounted(t, me) \union HeaderReceives(t, me))
  BY <1>1 DEF HeaderMounted, HeaderReceives, Fresh
<1>5. CASE tab.page = "leaving"
  BY <1>2, <1>4, <1>5 DEF MountCalls
<1>6. CASE tab.page = "proxy" /\ tab.me.guest
  BY <1>1, <1>4, <1>6 DEF MountCalls
<1>7. CASE tab.page = "update" \/ (tab.page \in {"2fa", "proxy"} /\ ~tab.me.guest /\ ~tab.me.factor)
  BY <1>1, <1>4, <1>7 DEF MountCalls
<1>8. CASE tab.page = "service-aup"
  BY <1>1, <1>4, <1>8 DEF MountCalls
<1>9. CASE ~(\/ tab.page = "leaving" \/ (tab.page = "proxy" /\ tab.me.guest)
             \/ tab.page = "update" \/ (tab.page \in {"2fa", "proxy"} /\ ~tab.me.guest /\ ~tab.me.factor)
             \/ tab.page = "service-aup")
  BY <1>3, <1>4, <1>9 DEF MountCalls
<1> QED BY <1>5, <1>6, <1>7, <1>8, <1>9

LEMMA FreshKeeps ==
  ASSUME NEW t \in Tabs, NEW cs, NEW ds, NEW qr, Placed(t, cs), Fresh(t, ds)
  PROVE  /\ Placed(t, cs \union ds)
         /\ AllSay(t, cs, jar'.pending, qr) => AllSay(t, cs \union ds, jar'.pending, qr)
BY DEF Placed, Fresh, AllSay

(* A page that is gone no longer shows a code; a page that is left hears   *)
(* nothing.                                                                *)
LEMMA DroppedFits ==
  ASSUME NEW done, NEW t \in Tabs, NEW cs \in SUBSET Calls(done), Placed(t, cs)
  PROVE  /\ Placed(t, Dropped(t, cs)) /\ Placed(t, Unmounted(t, cs))
         /\ \A p, qr : AllSay(t, Dropped(t, cs), p, qr)
         /\ \A p, qr : AllSay(t, cs, p, qr) => AllSay(t, Unmounted(t, cs), p, None)
<1>1. \A c \in cs : LET d == [c EXCEPT !.tab = "nobody"]
                    IN d.tab = "nobody" /\ (Leads(d) <=> Leads(c)) /\ (Formed(d) <=> Formed(c))
  BY DEF Leads, Formed, Calls
<1>2. \A c \in cs : LET d == [c EXCEPT !.live = FALSE]
                    IN /\ d.tab = c.tab /\ d.old = c.old /\ (Leads(d) <=> Leads(c))
                       /\ (Formed(d) <=> Formed(c))
  BY DEF Leads, Formed, Calls
<1>3. \A c \in cs : \A p, qr : Says(c, p, qr) => Says([c EXCEPT !.live = FALSE], p, None)
  BY DEF Says, Brings, Ends, Calls
<1>4. Placed(t, Dropped(t, cs)) /\ \A p, qr : AllSay(t, Dropped(t, cs), p, qr)
  BY <1>1, TabsAssumption DEF Dropped, Placed, AllSay
<1>5. Placed(t, Unmounted(t, cs))
  BY <1>2 DEF Unmounted, Placed
<1>6. \A p, qr : AllSay(t, cs, p, qr) => AllSay(t, Unmounted(t, cs), p, None)
  BY <1>2, <1>3 DEF Unmounted, AllSay
<1> QED BY <1>4, <1>5, <1>6

LEMMA LoadedTurns ==
  ASSUME GateInv, NEW t \in Tabs, tabs[t].at # "closed", jar'.dest # "closed", NEW cs \in SUBSET Calls(did),
         Placed(t, cs), NEW url, url # "closed", NEW n, Loaded(t, cs, url, n)
  PROVE  /\ Turned(t) /\ tabs'[t].qr = None /\ AllSay(t, net', jar'.pending, None)
<1> DEFINE at == IF url = "missing" THEN tabs[t].at ELSE url
           m == Mounted(tabs[t], "loading", at, Guest)
           ds == {Call(t, "me", None, url)}
<1>1. at # "closed"
  OBVIOUS
<1>2. tabs' = [tabs EXCEPT ![t] = [m EXCEPT !.n = n]] /\ net' = Dropped(t, cs) \union ds
  BY DEF Loaded
<1>3. Fresh(t, ds)
  BY FreshCall DEF QrOps
<1> HIDE DEF at
<1>4. m.page = "loading" /\ m.at = at /\ m.qr = None
  BY StateOf, MountedShows
<1> HIDE DEF m, ds
<1>5. tabs'[t] = [m EXCEPT !.n = n]
  BY <1>2 DEF GateInv
<1>6. tabs'[t].page # "closed" /\ tabs'[t].at # "closed" /\ tabs'[t].qr = None
  BY <1>1, <1>4, <1>5
<1>7. Placed(t, net') /\ AllSay(t, net', jar'.pending, None)
  BY <1>2, <1>3, DroppedFits, FreshKeeps
<1> QED BY <1>6, <1>7 DEF Turned

LEMMA GoesTurns ==
  ASSUME GateInv, NEW t \in Tabs, tabs[t].at # "closed", tabs[t].page # "closed", jar'.dest # "closed",
         NEW cs \in SUBSET Calls(did), Placed(t, cs), NEW page, page # "closed", NEW me, NEW n,
         Goes(t, cs, page, me, n)
  PROVE  /\ Turned(t) /\ tabs'[t].qr \in {None, tabs[t].qr}
         /\ AllSay(t, cs, jar'.pending, tabs[t].qr) => AllSay(t, net', jar'.pending, tabs'[t].qr)
<1>1. CASE page = tabs[t].page
  <2>1. tabs'[t] = [tabs[t] EXCEPT !.me = me, !.n = n] /\ net' = cs
    BY <1>1 DEF Goes, GateInv
  <2>2. /\ tabs'[t].page = tabs[t].page /\ tabs'[t].at = tabs[t].at /\ tabs'[t].qr = tabs[t].qr
    BY <2>1, StateOf DEF TabStates
  <2> QED BY <2>1, <2>2 DEF Turned
<1>2. CASE page # tabs[t].page
  <2> DEFINE a == Arrival(tabs[t], page, me)
             tab == [a EXCEPT !.n = n]
             ds == MountCalls(t, tab)
  <2>1. tabs' = [tabs EXCEPT ![t] = tab] /\ net' = Unmounted(t, cs) \union ds
    BY <1>2 DEF Goes
  <2>2. a.page # "closed" /\ a.at # "closed" /\ a.qr = None
    BY StateOf, ArrivalShows
  <2> HIDE DEF a
  <2>3. tab.page # "closed" /\ tab.at # "closed" /\ tab.qr = None
    BY <2>2
  <2> HIDE DEF tab
  <2>4. Fresh(t, ds)
    BY <2>3, MountFresh
  <2> HIDE DEF ds
  <2>5. tabs'[t] = tab
    BY <2>1 DEF GateInv
  <2>6. Placed(t, net')
    BY <2>1, <2>4, DroppedFits, FreshKeeps
  <2>7. AllSay(t, cs, jar'.pending, tabs[t].qr) => AllSay(t, Unmounted(t, cs), jar'.pending, None)
    BY DroppedFits
  <2>8. AllSay(t, cs, jar'.pending, tabs[t].qr) => AllSay(t, net', jar'.pending, None)
    BY <2>1, <2>4, <2>7, DroppedFits, FreshKeeps
  <2> QED BY <2>3, <2>5, <2>6, <2>8 DEF Turned
<1> QED BY <1>1, <1>2

(* What is heard: the cookie, and the calls it has overtaken.              *)
LEMMA HeardFits ==
  ASSUME GateInv, CodeInv, NEW c \in net, c.tab \in Tabs, Stored(c)
  PROVE  /\ jar'.dest # "closed" /\ Placed(c.tab, Rest(c))
         /\ c.path # "closed" /\ tabs[c.tab].at # "closed" /\ tabs[c.tab].page # "closed" /\ Formed(c)
         /\ ~overtaken' => ~overtaken /\ (c.sets => ~c.old)
         /\ IF c.sets THEN jar' = c.cookie /\ \A p, qr : AllSay(c.tab, Rest(c), p, qr) ELSE jar' = jar
         /\ Agrees(c.tab) => AllSay(c.tab, Rest(c), jar'.pending, tabs[c.tab].qr)
<1>1. OpenInv /\ c \in Calls(did) /\ net \in SUBSET Calls(did)
  BY DEF CodeInv, GateInv
<1>2. \A d \in net : LET e == [d EXCEPT !.old = TRUE]
                     IN /\ e.tab = d.tab /\ e.old /\ (Leads(e) <=> Leads(d)) /\ (Formed(e) <=> Formed(d))
  BY <1>1 DEF Leads, Formed, Calls
<1>3. jar'.dest # "closed"
  BY <1>1 DEF OpenInv, Leads, Stored
<1>4. Placed(c.tab, Rest(c))
  <2>1. \A d \in net : Leads(d) /\ Formed(d) /\ (d.tab \in Tabs => tabs[d.tab].page # "closed")
    BY <1>1 DEF OpenInv
  <2>2. \A d \in Rest(c) : \E e \in net : d = e \/ d = [e EXCEPT !.old = TRUE]
    BY DEF Rest
  <2>3. ASSUME NEW d \in Rest(c)
        PROVE  Leads(d) /\ Formed(d) /\ (d.tab \in Tabs => tabs[d.tab].page # "closed")
    <3>1. PICK e \in net : d = e \/ d = [e EXCEPT !.old = TRUE]
      BY <2>2
    <3> QED BY <1>2, <2>1, <3>1
  <2> QED BY <2>3 DEF Placed
<1>5. /\ c.path # "closed" /\ tabs[c.tab].at # "closed" /\ tabs[c.tab].page # "closed" /\ Formed(c)
  BY <1>1 DEF OpenInv, Leads
<1>6. ~overtaken' => ~overtaken /\ (c.sets => ~c.old)
  BY DEF Stored
<1>7. IF c.sets THEN jar' = c.cookie /\ \A p, qr : AllSay(c.tab, Rest(c), p, qr) ELSE jar' = jar
  BY <1>2 DEF Stored, Rest, AllSay
<1>8. Agrees(c.tab) => AllSay(c.tab, Rest(c), jar'.pending, tabs[c.tab].qr)
  <2>1. CASE c.sets
    BY <1>7, <2>1
  <2>2. CASE ~c.sets
    BY <1>7, <2>2 DEF Rest, Agrees, AllSay
  <2> QED BY <2>1, <2>2
<1> QED BY <1>3, <1>4, <1>5, <1>6, <1>7, <1>8

(* What the tab that heard an answer shows then: no code, the one there    *)
(* was, or the one that came with it.                                      *)
LEMMA HearTurns ==
  ASSUME GateInv, GateInv', CodeInv, NEW c \in net, c.tab \in Tabs, Stored(c), Only(c.tab),
         Turned(c.tab), Agrees(c.tab) => AllSay(c.tab, net', jar'.pending, tabs'[c.tab].qr),
         \/ tabs'[c.tab].qr = None
         \/ tabs'[c.tab].qr = tabs[c.tab].qr /\ ~Ends(c) /\ (Brings(c) => ~c.live)
         \/ tabs'[c.tab].qr = c.code /\ c.op \in QrOps /\ c.status = 200
  PROVE  CodeInv'
<1>1. /\ jar'.dest # "closed" /\ Formed(c) /\ (~overtaken' => ~overtaken /\ (c.sets => ~c.old))
      /\ IF c.sets THEN jar' = c.cookie ELSE jar' = jar
  BY HeardFits
<1>2. ASSUME ~overtaken', Agrees(c.tab), tabs'[c.tab].qr # None
      PROVE  jar'.pending = tabs'[c.tab].qr
  <2>1. c.sets => Says(c, jar.pending, tabs[c.tab].qr)
    BY <1>1, <1>2 DEF Agrees, AllSay
  <2>2. tabs[c.tab].qr # None => jar.pending = tabs[c.tab].qr
    BY <1>2 DEF Agrees
  <2>3. CASE tabs'[c.tab].qr = tabs[c.tab].qr /\ ~Ends(c) /\ (Brings(c) => ~c.live)
    BY <1>1, <1>2, <2>1, <2>2, <2>3 DEF Says, Brings
  <2>4. CASE tabs'[c.tab].qr = c.code /\ c.op \in QrOps /\ c.status = 200
    BY <1>1, <1>2, <2>1, <2>4 DEF Says, Brings, Formed
  <2> QED BY <1>2, <2>3, <2>4
<1> QED BY <1>1, <1>2, TurnKeepsCode

LEMMA ShowsTurns ==
  ASSUME GateInv, CodeInv, NEW c \in net, c.tab \in Tabs, Stored(c), NEW tab, Shows(c, tab),
         tab.page = tabs[c.tab].page, tab.at = tabs[c.tab].at,
         tab.qr = tabs[c.tab].qr \/ (tab.qr = c.code /\ c.op \in QrOps)
  PROVE  /\ Turned(c.tab) /\ (Agrees(c.tab) => AllSay(c.tab, net', jar'.pending, tabs'[c.tab].qr))
         /\ tabs'[c.tab].qr = IF c.live THEN tab.qr ELSE tabs[c.tab].qr
<1>1. net' = Rest(c) /\ tabs'[c.tab] = IF c.live THEN tab ELSE tabs[c.tab]
  BY DEF Shows, GateInv
<1>2. Turned(c.tab)
  BY <1>1, HeardFits DEF Turned
<1>3. ASSUME Agrees(c.tab) PROVE AllSay(c.tab, net', jar'.pending, tabs'[c.tab].qr)
  <2>1. AllSay(c.tab, Rest(c), jar'.pending, tabs[c.tab].qr) /\ Formed(c)
    BY <1>3, HeardFits
  <2>2. CASE c.sets
    BY <1>1, <2>2, HeardFits
  <2>3. CASE ~c.sets
    <3>1. c.op \in QrOps => c.code = None
      BY <2>1, <2>3 DEF Formed
    <3>2. tabs'[c.tab].qr \in {None, tabs[c.tab].qr}
      BY <1>1, <3>1
    <3> QED BY <1>1, <2>1, <3>2 DEF AllSay, Says
  <2> QED BY <2>2, <2>3
<1> QED BY <1>1, <1>2, <1>3

LEMMA LeavesTurns ==
  ASSUME GateInv, CodeInv, NEW c \in net, c.tab \in Tabs, Stored(c), NEW page, page # "closed",
         Leaves(c, page)
  PROVE  /\ Turned(c.tab) /\ tabs'[c.tab].qr = None /\ AllSay(c.tab, net', jar'.pending, None)
<1> DEFINE m == Mounted(tabs[c.tab], page, tabs[c.tab].at, tabs[c.tab].me)
<1>1. tabs'[c.tab] = m /\ net' = Dropped(c.tab, Rest(c))
  BY DEF Leaves, GateInv
<1>2. m.page = page /\ m.at = tabs[c.tab].at /\ m.qr = None
  BY StateOf, MountedShows
<1> HIDE DEF m
<1>3. Placed(c.tab, net') /\ AllSay(c.tab, net', jar'.pending, None)
  BY <1>1, HeardFits, HeardFrom, DroppedFits
<1> QED BY <1>1, <1>2, <1>3, HeardFits DEF Turned

LEMMA RefreshesTurns ==
  ASSUME GateInv, CodeInv, NEW c \in net, c.tab \in Tabs, Stored(c), NEW path, path # "closed",
         Refreshes(c, path)
  PROVE  /\ Turned(c.tab) /\ tabs'[c.tab].qr = tabs[c.tab].qr
         /\ Agrees(c.tab) => AllSay(c.tab, net', jar'.pending, tabs'[c.tab].qr)
<1> DEFINE d == [Call(c.tab, "refresh", None, path) EXCEPT !.live = c.live]
<1>1. net' = Rest(c) \union {d} /\ UNCHANGED tabs
  BY DEF Refreshes
<1>2. Fresh(c.tab, {d})
  BY HeardFits, FreshCall DEF QrOps
<1> HIDE DEF d
<1> QED BY <1>1, <1>2, HeardFits, FreshKeeps DEF Turned

(* The same address, page and QR code.                                     *)
SameSheet(tab, new) == new.page = tab.page /\ new.at = tab.at /\ new.qr = tab.qr

(* The user: the cookie stays, and what is asked for brings no code unless *)
(* a page is mounted.                                                      *)
LEMMA UserCode ==
  ASSUME GateInv, CodeInv, NEW t \in Tabs, UserStep(t)
  PROVE  CodeInv'
<1>1. GateInv' /\ Only(t) /\ net \in SUBSET Calls(did) /\ tabs[t].at # "closed" /\ jar.dest # "closed"
  BY UserKeeps DEF GateInv, CodeInv, OpenInv
<1>2. Placed(t, net)
  BY DEF CodeInv, OpenInv, Placed
<1>3. ASSUME UNCHANGED <<jar, overtaken>>, Turned(t), tabs'[t].qr \in {None, tabs[t].qr},
             Agrees(t) => AllSay(t, net', jar'.pending, tabs'[t].qr)
      PROVE  CodeInv'
  BY <1>1, <1>3, TurnKeepsCode DEF Agrees
<1>4. ASSUME NEW tab, tabs' = [tabs EXCEPT ![t] = tab], UNCHANGED <<jar, overtaken>>,
             tabs[t].page # "closed", tab.page = tabs[t].page, tab.at = tabs[t].at, tab.qr = tabs[t].qr,
             \/ UNCHANGED net
             \/ \E op, code, path : /\ op \notin QrOps /\ path # "closed"
                                    /\ net' = net \union {Call(t, op, code, path)}
      PROVE  CodeInv'
  <2>1. tabs'[t] = tab
    BY <1>4 DEF GateInv
  <2>2. \E ds : Fresh(t, ds) /\ net' = net \union ds
    <3>1. CASE UNCHANGED net
      <4>1. Fresh(t, {}) /\ net' = net \union {}
        BY <3>1 DEF Fresh
      <4> QED BY <4>1
    <3>2. CASE \E op, code, path : /\ op \notin QrOps /\ path # "closed"
                                   /\ net' = net \union {Call(t, op, code, path)}
      BY <1>1, <1>4, <3>2, FreshCall
    <3> QED BY <1>4, <3>1, <3>2
  <2>3. Placed(t, net') /\ (Agrees(t) => AllSay(t, net', jar'.pending, tabs[t].qr))
    BY <1>2, <1>4, <2>2, FreshKeeps DEF Agrees
  <2> QED BY <1>1, <1>3, <1>4, <2>1, <2>3 DEF Turned
<1>5. ASSUME OnlyTabs, tabs[t].page # "closed", NEW op, op \notin QrOps, NEW code, NEW path,
             path # "closed",
             Sends(t, op, code, path) \/ SendsBusy(t, op, code) \/ SendsLoading(t, op, code, path)
      PROVE  CodeInv'
  <2>1. UNCHANGED <<jar, overtaken>> /\ "" # "closed"
    BY <1>5 DEF OnlyTabs, history
  <2>2. \E p : p # "closed" /\ net' = net \union {Call(t, op, code, p)}
    BY <1>5, <2>1 DEF Sends, SendsBusy, SendsLoading
  <2> DEFINE counted == [tabs[t] EXCEPT !.n = @ + 1]
             busy == [tabs[t] EXCEPT !.n = @ + 1, !.busy = TRUE]
             loading == [tabs[t] EXCEPT !.n = @ + 1, !.loading = TRUE]
  <2>3. \/ tabs' = [tabs EXCEPT ![t] = counted] \/ tabs' = [tabs EXCEPT ![t] = busy]
        \/ tabs' = [tabs EXCEPT ![t] = loading]
    BY <1>5 DEF Sends, SendsBusy, SendsLoading, GateInv
  <2>4. tabs[t] \in TabStates(did)
    BY StateOf
  <2>5. SameSheet(tabs[t], counted) /\ SameSheet(tabs[t], busy) /\ SameSheet(tabs[t], loading)
    BY <2>4 DEF TabStates, SameSheet
  <2> HIDE DEF counted, busy, loading
  <2>6. \E tab : tabs' = [tabs EXCEPT ![t] = tab] /\ SameSheet(tabs[t], tab)
    BY <2>3, <2>5
  <2>7. PICK tab : tabs' = [tabs EXCEPT ![t] = tab] /\ SameSheet(tabs[t], tab)
    BY <2>6
  <2>8. PICK p : p # "closed" /\ net' = net \union {Call(t, op, code, p)}
    BY <2>2
  <2>9. tab.page = tabs[t].page /\ tab.at = tabs[t].at /\ tab.qr = tabs[t].qr
    BY <2>7 DEF SameSheet
  <2> QED BY <1>4, <1>5, <2>1, <2>7, <2>8, <2>9
<1>6. ASSUME OnlyTabs, UNCHANGED net, tabs[t].page # "closed",
             \/ \E sheet : tabs' = [tabs EXCEPT ![t] = [tabs[t] EXCEPT !.sheet = sheet, !.n = @ + 1]]
             \/ tabs' = [tabs EXCEPT ![t] = [tabs[t] EXCEPT !.sheet = "form", !.error = FALSE, !.n = @ + 1]]
      PROVE  CodeInv'
  <2>1. UNCHANGED <<jar, overtaken>>
    BY <1>6 DEF OnlyTabs, history
  <2>2. \E tab : /\ tabs' = [tabs EXCEPT ![t] = tab]
                 /\ tab.page = tabs[t].page /\ tab.at = tabs[t].at /\ tab.qr = tabs[t].qr
    BY <1>6, StateOf DEF TabStates
  <2> QED BY <1>4, <1>6, <2>1, <2>2
<1>7. ASSUME OnlyTabs, NEW url, url # "closed", NEW n, Loaded(t, net, url, n) PROVE CodeInv'
  <2>1. UNCHANGED <<jar, overtaken>>
    BY <1>7 DEF OnlyTabs, history
  <2> QED BY <1>1, <1>2, <1>3, <1>7, <2>1, LoadedTurns
<1>8. ASSUME OnlyTabs, tabs[t].page # "closed", NEW page, page # "closed", NEW me, NEW n,
             Goes(t, net, page, me, n)
      PROVE  CodeInv'
  <2>1. UNCHANGED <<jar, overtaken>>
    BY <1>8 DEF OnlyTabs, history
  <2>2. /\ Turned(t) /\ tabs'[t].qr \in {None, tabs[t].qr}
        /\ AllSay(t, net, jar'.pending, tabs[t].qr) => AllSay(t, net', jar'.pending, tabs'[t].qr)
    BY <1>1, <1>2, <1>8, <2>1, GoesTurns
  <2> QED BY <1>3, <2>1, <2>2 DEF Agrees
<1>9. CASE \E at \in Addresses : Open(t, at)
  BY <1>7, <1>9 DEF Open, Addresses
<1>10. CASE LoginButton(t)
  BY <1>5, <1>10 DEF LoginButton, Sends, QrOps
<1>11. CASE ComeBack(t)
  <2>1. tabs' = [tabs EXCEPT ![t] = tabs[t]] /\ UNCHANGED <<jar, overtaken>> /\ tabs[t].page # "closed"
    BY <1>11 DEF ComeBack, GateInv, OnlyTabs, history
  <2>2. "resume" \notin QrOps /\ "" # "closed" /\ net' = net \union {Call(t, "resume", None, "")}
    BY <1>11 DEF ComeBack, QrOps
  <2> QED BY <1>4, <2>1, <2>2
<1>12. CASE Logo(t)
  BY <1>8, <1>12 DEF Logo, Factor, Pages
<1>13. CASE LogoutButton(t)
  BY <1>5, <1>13 DEF LogoutButton, Sends, QrOps, Pages
<1>14. CASE ConfigureMfa(t)
  BY <1>8, <1>14 DEF ConfigureMfa
<1>15. CASE AgreeAup(t)
  BY <1>5, <1>15 DEF AgreeAup, Sends, QrOps
<1>16. CASE AgreeMissing(t)
  BY <1>1, <1>5, <1>16 DEF AgreeMissing, SendsLoading, QrOps
<1>17. CASE AgreeService(t)
  BY <1>5, <1>17 DEF AgreeService, Sends, QrOps
<1>18. CASE Scan(t)
  <2>1. UNCHANGED <<jar, overtaken, net, tabs>>
    BY <1>18 DEF Scan, history
  <2> QED BY <2>1 DEF CodeInv, OpenInv, Alone, Agrees, AllSay
<1>19. CASE \E code \in Codes : Verify(t, code) \/ PreUpdateVerify(t, code)
  BY <1>5, <1>19 DEF Verify, PreUpdateVerify, At, Factor, SendsBusy, QrOps
<1>20. CASE OpenResetRequest(t)
  <2>1. tabs[t].page # "closed"
    BY <1>20 DEF OpenResetRequest, At, Factor
  <2>2. CASE tabs[t].colleagues
    <3>1. \E sheet : tabs' = [tabs EXCEPT ![t] = [tabs[t] EXCEPT !.sheet = sheet, !.n = @ + 1]]
      BY <1>20, <2>2 DEF OpenResetRequest, GateInv
    <3> QED BY <1>6, <1>20, <2>1, <2>2, <3>1 DEF OpenResetRequest
  <2>3. CASE ~tabs[t].colleagues
    BY <1>5, <1>20, <2>1, <2>3 DEF OpenResetRequest, SendsLoading, QrOps
  <2> QED BY <2>2, <2>3
<1>21. CASE SendResetRequest(t)
  BY <1>5, <1>21 DEF SendResetRequest, At, Factor, Sends, QrOps
<1>22. CASE EnterResetToken(t)
  <2>1. \E sheet : tabs' = [tabs EXCEPT ![t] = [tabs[t] EXCEPT !.sheet = sheet, !.n = @ + 1]]
    BY <1>22 DEF EnterResetToken, GateInv
  <2> QED BY <1>6, <1>22, <2>1 DEF EnterResetToken, At, Factor
<1>23. CASE CloseSheet(t)
  <2>1. tabs' = [tabs EXCEPT ![t] = [tabs[t] EXCEPT !.sheet = "form", !.error = FALSE, !.n = @ + 1]]
    BY <1>23 DEF CloseSheet, GateInv
  <2> QED BY <1>6, <1>23, <2>1 DEF CloseSheet, At, Factor
<1>24. CASE \E code \in 0 .. db.mails : SubmitResetCode(t, code)
  BY <1>5, <1>24 DEF SubmitResetCode, At, Factor, SendsLoading, QrOps
<1>25. CASE Cancel(t)
  BY <1>8, <1>25 DEF Cancel, At
<1> QED BY <1>9, <1>10, <1>11, <1>12, <1>13, <1>14, <1>15, <1>16, <1>17, <1>18, <1>19, <1>20, <1>21,
           <1>22, <1>23, <1>24, <1>25 DEF UserStep

(* An answer without a cookie, one that keeps the pending secret, one with *)
(* the secret of its QR code, and one that logs the user out.              *)
Answered(c, d) ==
  /\ d.tab = c.tab /\ d.op = c.op /\ d.old = c.old /\ d.live = c.live /\ Leads(d)
  /\ \/ ~d.sets /\ d.cookie = c.cookie /\ d.code = c.code /\ d.status # 429
     \/ d.sets /\ d.status = 200 /\ d.op \notin QrOps /\ d.cookie.pending = c.cookie.pending
     \/ d.sets /\ d.status = 200 /\ d.op \in QrOps /\ d.cookie.pending = d.code
     \/ d.sets /\ d.status = 429 /\ d.op \in {"verify2fa", "verify2faProxyAuthz"}
     \/ d.sets /\ d.status = 200 /\ d.op = "logout"

LEMMA AnswerKeepsCode ==
  ASSUME GateInv, GateInv', CodeInv, NEW c \in net, c.status = 0, NEW d, Replies(c, d), Answered(c, d),
         UNCHANGED <<jar, tabs, overtaken>>
  PROVE  CodeInv'
<1>1. \A e \in net : Leads(e) /\ Formed(e) /\ (e.tab \in Tabs => tabs[e.tab].page # "closed")
  BY DEF CodeInv, OpenInv
<1>2. ~c.sets
  BY <1>1 DEF Formed
<1>3. c.op \in QrOps => c.code = None
  BY <1>1, <1>2 DEF Formed
<1>4. Leads(d) /\ Formed(d) /\ (d.tab \in Tabs => tabs[d.tab].page # "closed")
  <2>1. Formed(d)
    BY <1>3 DEF Answered, Formed, QrOps
  <2> QED BY <1>1, <2>1 DEF Answered
<1>5. ASSUME NEW p, NEW q, Says(c, p, q) PROVE Says(d, p, q)
  <2>1. c.cookie.pending = p /\ (c.op \in QrOps /\ q # None => c.live)
    BY <1>2, <1>5 DEF Says, Brings, Ends
  <2>2. Brings(d) => d.cookie.pending = d.code
    BY DEF Answered, Brings, QrOps
  <2>3. ~Brings(d) /\ ~Ends(d) => d.cookie.pending = p
    BY <2>1 DEF Answered, Brings, Ends
  <2> QED BY <2>1, <2>2, <2>3 DEF Says, Answered
<1>6. net' \subseteq (net \ {c}) \union {d}
  BY DEF Replies
<1>7. OpenInv'
  <2>1. \A e \in net' : Leads(e) /\ Formed(e) /\ (e.tab \in Tabs => tabs[e.tab].page # "closed")
    BY <1>1, <1>4, <1>6
  <2> QED BY <2>1 DEF CodeInv, OpenInv, Leads, Formed
<1>8. ASSUME NEW t \in Tabs, Agrees(t) PROVE AllSay(t, net', jar.pending, tabs[t].qr)
  <2>1. \A e \in net : e.tab = t /\ ~e.old => Says(e, jar.pending, tabs[t].qr)
    BY <1>8 DEF Agrees, AllSay
  <2> QED BY <1>5, <1>6, <2>1 DEF AllSay, Answered
<1>9. ~overtaken' => \A t \in Tabs : Alone(t)' => Agrees(t)'
  <2> SUFFICES ASSUME ~overtaken', NEW t \in Tabs, Alone(t)' PROVE Agrees(t)'
    OBVIOUS
  <2>1. Alone(t) /\ Agrees(t)
    BY DEF Alone, CodeInv
  <2> QED BY <1>8, <2>1 DEF Agrees, AllSay
<1> QED BY <1>7, <1>9 DEF CodeInv

(* The shapes of the answers.                                              *)
LEMMA RefusalShape ==
  ASSUME NEW done, NEW c \in Calls(done), Leads(c), ~c.sets, NEW status, status # 429
  PROVE  Answered(c, [c EXCEPT !.status = status])
BY DEF Answered, Calls, Leads

LEMMA PlainShape ==
  ASSUME NEW done, NEW c \in Calls(done), Leads(c), ~c.sets PROVE Answered(c, Ok(c))
BY DEF Answered, Ok, Calls, Leads

Knows(c, me) == [Ok(c) EXCEPT !.me = me]
Refuses(c, me) == [c EXCEPT !.status = 409, !.me = me]

LEMMA UserShape ==
  ASSUME NEW done, NEW c \in Calls(done), Leads(c), ~c.sets, NEW me
  PROVE  Answered(c, Knows(c, me)) /\ Answered(c, Refuses(c, me))
<1>1. Answered(c, Knows(c, me))
  BY DEF Knows, Answered, Ok, Calls, Leads
<1>2. Answered(c, Refuses(c, me))
  BY DEF Refuses, Answered, Calls, Leads
<1> QED BY <1>1, <1>2

LEMMA CookieShape ==
  ASSUME NEW done, NEW c \in Calls(done), c.path # "closed", NEW cookie, cookie.dest # "closed",
         NEW path, path # "closed", c.op \notin QrOps, cookie.pending = c.cookie.pending
  PROVE  Answered(c, OkWith(c, cookie)) /\ Answered(c, [OkWith(c, cookie) EXCEPT !.path = path])
<1>1. Answered(c, OkWith(c, cookie))
  BY DEF Answered, OkWith, Calls, Leads
<1>2. Answered(c, [OkWith(c, cookie) EXCEPT !.path = path])
  BY DEF Answered, OkWith, Calls, Leads
<1> QED BY <1>1, <1>2

LEMMA CodeShape ==
  ASSUME NEW done, NEW c \in Calls(done), c.path # "closed", NEW cookie, cookie.dest # "closed",
         c.op \in QrOps
  PROVE  Answered(c, [OkWith(c, cookie) EXCEPT !.code = cookie.pending])
BY DEF Answered, OkWith, Calls, Leads

LEMMA StrangerShape ==
  ASSUME NEW done, NEW c \in Calls(done), c.path # "closed"
  PROVE  /\ c.op \in {"verify2fa", "verify2faProxyAuthz"} =>
              Answered(c, [OkWith(c, Stranger) EXCEPT !.status = 429])
         /\ c.op = "logout" => Answered(c, OkWith(c, Stranger))
<1>1. Stranger.dest # "closed"
  BY DEF Stranger
<1>2. ASSUME c.op \in {"verify2fa", "verify2faProxyAuthz"}
      PROVE  Answered(c, [OkWith(c, Stranger) EXCEPT !.status = 429])
  BY <1>1, <1>2 DEF Answered, OkWith, Calls, Leads
<1>3. ASSUME c.op = "logout" PROVE Answered(c, OkWith(c, Stranger))
  BY <1>1, <1>3 DEF Answered, OkWith, Calls, Leads
<1> QED BY <1>2, <1>3

LEMMA ServeCode ==
  ASSUME GateInv, GateInv', CodeInv, NEW c \in net, Serve(c)
  PROVE  CodeInv'
<1>1. /\ c \in Calls(did) /\ Leads(c) /\ Formed(c)
      /\ c.path # "closed" /\ c.cookie.dest # "closed" /\ c.cookie \in Cookies(did)
  BY DEF GateInv, CodeInv, OpenInv, Calls, Leads
<1>2. c.status = 0 /\ UNCHANGED <<jar, tabs, overtaken>>
  BY DEF Serve, NotAdmitted, ServeMe, ServeRefresh, ServeAgree, ServeGet2fa, ServeHasFactor,
         ServeTooMany, ServeWrong, ServeRight, ServePreUpdate, ServeUpdate, ServeRespondents,
         ServeResetRequest, ServeReset, ServeAuthorization, ServeResume, ServeServiceAups, ServeRead,
         ServeLogout, Asked, Verifies, history
<1>3. ~c.sets
  BY <1>1, <1>2 DEF Formed
<1>4. ASSUME NEW d, Replies(c, d), Answered(c, d) PROVE CodeInv'
  BY <1>2, <1>4, AnswerKeepsCode
(* With a status alone, with a user, and with a cookie.                    *)
<1>a. ASSUME NEW status \in {400, 401, 403, 404}, Replies(c, [c EXCEPT !.status = status]) PROVE CodeInv'
  <2>1. Answered(c, [c EXCEPT !.status = status])
    BY <1>1, <1>3, RefusalShape
  <2> QED BY <1>4, <1>a, <2>1
<1>b. ASSUME Replies(c, Ok(c)) PROVE CodeInv'
  <2>1. Answered(c, Ok(c))
    BY <1>1, <1>3, PlainShape
  <2> QED BY <1>4, <1>b, <2>1
<1>c. ASSUME NEW me, Replies(c, Knows(c, me)) \/ Replies(c, Refuses(c, me)) PROVE CodeInv'
  <2>1. Answered(c, Knows(c, me)) /\ Answered(c, Refuses(c, me))
    BY <1>1, <1>3, UserShape
  <2> QED BY <1>4, <1>c, <2>1
<1>d. ASSUME NEW cookie, NEW path, c.op \notin QrOps, cookie.pending = c.cookie.pending,
             cookie.dest # "closed", path # "closed",
             Replies(c, OkWith(c, cookie)) \/ Replies(c, [OkWith(c, cookie) EXCEPT !.path = path])
      PROVE  CodeInv'
  <2>1. Answered(c, OkWith(c, cookie)) /\ Answered(c, [OkWith(c, cookie) EXCEPT !.path = path])
    BY <1>1, <1>d, CookieShape
  <2> QED BY <1>4, <1>d, <2>1
<1>5. CASE NotAdmitted(c)
  BY <1>a, <1>5 DEF NotAdmitted
<1>6. CASE ServeMe(c)
  <2> DEFINE me == [Guest EXCEPT !.guest = FALSE, !.aup = c.cookie.aup, !.confirmed = c.cookie.confirmed,
                      !.factor = db.secret # None, !.missing = c.cookie.confirmed /\ db.services]
             gone == [Guest EXCEPT !.suspended = TRUE]
  <2>1. Replies(c, Ok(c)) \/ Replies(c, Knows(c, me)) \/ Replies(c, Refuses(c, gone))
    BY <1>6 DEF ServeMe, Knows, Refuses
  <2> HIDE DEF me, gone
  <2>2. CASE Replies(c, Ok(c))
    BY <1>b, <2>2
  <2>3. CASE Replies(c, Knows(c, me))
    BY <1>c, <2>3
  <2>4. CASE Replies(c, Refuses(c, gone))
    BY <1>c, <2>4
  <2> QED BY <2>1, <2>2, <2>3, <2>4
<1>7. CASE ServeRefresh(c)
  <2> DEFINE me == [Guest EXCEPT !.guest = FALSE, !.aup = db.aup, !.confirmed = c.cookie.confirmed,
                      !.factor = db.secret # None, !.missing = db.services]
  <2>1. Replies(c, Knows(c, me))
    BY <1>7 DEF ServeRefresh, Knows
  <2> HIDE DEF me
  <2> QED BY <1>c, <2>1
<1>8. CASE ServeAgree(c)
  <2> DEFINE cookie == [c.cookie EXCEPT !.aup = TRUE]
  <2>1. Replies(c, [OkWith(c, cookie) EXCEPT !.path = c.cookie.dest]) /\ c.op \notin QrOps
    BY <1>8 DEF ServeAgree, Asked, QrOps
  <2>2. cookie.pending = c.cookie.pending /\ cookie.dest = c.cookie.dest
    BY <1>1 DEF Cookies
  <2> HIDE DEF cookie
  <2> QED BY <1>1, <1>d, <2>1, <2>2
<1>9. CASE ServeGet2fa(c)
  <2> DEFINE cookie == [c.cookie EXCEPT !.pending = made + 1]
  <2>1. Replies(c, [OkWith(c, cookie) EXCEPT !.code = made + 1]) /\ c.op \in QrOps
    BY <1>9 DEF ServeGet2fa, Asked, QrOps
  <2>2. cookie.pending = made + 1 /\ cookie.dest = c.cookie.dest
    BY <1>1 DEF Cookies
  <2> HIDE DEF cookie
  <2>3. Answered(c, [OkWith(c, cookie) EXCEPT !.code = made + 1])
    <3>1. Answered(c, [OkWith(c, cookie) EXCEPT !.code = cookie.pending])
      BY <1>1, <2>1, <2>2, CodeShape
    <3> QED BY <2>2, <3>1
  <2> QED BY <1>4, <2>1, <2>3
<1>10. CASE ServeHasFactor(c)
  <2>1. Replies(c, Ok(c)) \/ Replies(c, [c EXCEPT !.status = 404])
    BY <1>10 DEF ServeHasFactor
  <2> QED BY <1>a, <1>b, <2>1
<1>11. CASE ServeTooMany(c)
  <2>1. Replies(c, [OkWith(c, Stranger) EXCEPT !.status = 429]) /\ c.op \in {"verify2fa", "verify2faProxyAuthz"}
    BY <1>11 DEF ServeTooMany, Verifies, Asked
  <2>2. Answered(c, [OkWith(c, Stranger) EXCEPT !.status = 429])
    BY <1>1, <2>1, StrangerShape
  <2> QED BY <1>4, <2>1, <2>2
<1>12. CASE ServeWrong(c)
  <2>1. Replies(c, [c EXCEPT !.status = 400]) \/ Replies(c, [c EXCEPT !.status = 404])
    BY <1>12 DEF ServeWrong
  <2> QED BY <1>a, <1>b, <2>1
<1>13. CASE ServeRight(c)
  <2> DEFINE cookie == [c.cookie EXCEPT !.user = TRUE, !.confirmed = TRUE, !.aup = db.aup]
  <2>1. Replies(c, [OkWith(c, cookie) EXCEPT !.path = c.cookie.dest]) /\ c.op \notin QrOps
    BY <1>13 DEF ServeRight, Verifies, Asked, QrOps
  <2>2. cookie.pending = c.cookie.pending /\ cookie.dest = c.cookie.dest
    BY <1>1 DEF Cookies
  <2> HIDE DEF cookie
  <2> QED BY <1>1, <1>d, <2>1, <2>2
<1>14. CASE ServePreUpdate(c)
  <2> DEFINE cookie == [c.cookie EXCEPT !.checked = TRUE]
  <2>1. /\ Replies(c, OkWith(c, cookie)) \/ Replies(c, [c EXCEPT !.status = 400])
        /\ c.op \notin QrOps
    BY <1>14 DEF ServePreUpdate, Asked, QrOps
  <2>2. cookie.pending = c.cookie.pending /\ cookie.dest = c.cookie.dest
    BY <1>1 DEF Cookies
  <2> HIDE DEF cookie
  <2>3. CASE Replies(c, OkWith(c, cookie))
    BY <1>1, <1>d, <2>1, <2>2, <2>3
  <2>4. CASE Replies(c, [c EXCEPT !.status = 400])
    BY <1>a, <2>4
  <2> QED BY <2>1, <2>3, <2>4
<1>15. CASE ServeUpdate(c)
  <2>1. Replies(c, Ok(c)) \/ Replies(c, [c EXCEPT !.status = 400])
    BY <1>15 DEF ServeUpdate
  <2> QED BY <1>a, <1>b, <2>1
<1>16. CASE ServeRespondents(c) \/ ServeResetRequest(c) \/ ServeReset(c)
  <2>1. \/ Replies(c, Ok(c)) \/ Replies(c, [c EXCEPT !.status = 404])
        \/ Replies(c, [c EXCEPT !.status = 403])
    BY <1>16 DEF ServeRespondents, ServeResetRequest, ServeReset
  <2> QED BY <1>a, <1>b, <2>1
<1>17. CASE ServeAuthorization(c)
  <2> DEFINE cookie == [c.cookie EXCEPT !.dest = c.path]
  <2>1. Replies(c, OkWith(c, cookie)) /\ c.op \notin QrOps
    BY <1>17 DEF ServeAuthorization, Asked, QrOps
  <2>2. cookie.pending = c.cookie.pending /\ cookie.dest = c.path
    BY <1>1 DEF Cookies
  <2> HIDE DEF cookie
  <2> QED BY <1>1, <1>d, <2>1, <2>2
<1>18. CASE ServeResume(c)
  <2> DEFINE confirmed == scene.idpMfa \/ db.recent
             s == [c.cookie EXCEPT !.user = TRUE, !.aup = db.aup, !.confirmed = confirmed]
             home == [s EXCEPT !.dest = "/"]
  <2>1. /\ \/ Replies(c, [OkWith(c, s) EXCEPT !.path = "aup"])
           \/ Replies(c, [OkWith(c, s) EXCEPT !.path = "2fa"])
           \/ Replies(c, [OkWith(c, home) EXCEPT !.path = s.dest])
        /\ c.op \notin QrOps
    BY <1>18 DEF ServeResume, Asked, QrOps
  <2>2. s.pending = c.cookie.pending /\ s.dest = c.cookie.dest /\ home.pending = s.pending /\ home.dest = "/"
    BY <1>1 DEF Cookies
  <2>3. "aup" # "closed" /\ "2fa" # "closed" /\ "/" # "closed"
    OBVIOUS
  <2> HIDE DEF s, home
  <2> QED BY <1>1, <1>d, <2>1, <2>2, <2>3
<1>19. CASE ServeServiceAups(c) \/ ServeRead(c)
  BY <1>b, <1>19 DEF ServeServiceAups, ServeRead
<1>20. CASE ServeLogout(c)
  <2>1. Replies(c, OkWith(c, Stranger)) /\ c.op = "logout"
    BY <1>20 DEF ServeLogout, Asked
  <2>2. Answered(c, OkWith(c, Stranger))
    BY <1>1, <2>1, StrangerShape
  <2> QED BY <1>4, <2>1, <2>2

<1> QED BY <1>5, <1>6, <1>7, <1>8, <1>9, <1>10, <1>11, <1>12, <1>13, <1>14, <1>15, <1>16, <1>17, <1>18,
           <1>19, <1>20 DEF Serve

LEMMA HearCode ==
  ASSUME GateInv, GateInv', CodeInv, NEW c \in net, Hear(c)
  PROVE  CodeInv'
<1>1. c.tab \in Tabs /\ Stored(c)
  BY DEF Hear, Heard, HearUnauthorized, HearMe, HearRefresh, HearAgreed, HearQrCode, HearVerified,
         HearContinue, HearTooMany, HearInvalid, HearPreUpdated, HearUpdated, HearRespondents,
         HearRequested, HearReset, HearAuthorization, HearLoads, HearUnknown, HearRead
<1> DEFINE t == c.tab
<1>2. Only(t)
  BY HearKeeps
<1>3. /\ Rest(c) \in SUBSET Calls(did) /\ jar' \in Cookies(did) /\ c.me \in Accounts(did)
      /\ Now(c) = tabs[t] /\ tabs[t] \in TabStates(did)
  BY <1>1, HeardFrom, StateOf
<1>4. /\ jar'.dest # "closed" /\ Placed(t, Rest(c)) /\ Formed(c)
      /\ c.path # "closed" /\ tabs[t].at # "closed" /\ tabs[t].page # "closed"
      /\ Agrees(t) => AllSay(t, Rest(c), jar'.pending, tabs[t].qr)
  BY <1>1, HeardFits
(* The page is loaded, mounted or left.                                    *)
<1>5. ASSUME Turned(t), tabs'[t].qr = None,
             Agrees(t) => AllSay(t, net', jar'.pending, None)
      PROVE  CodeInv'
  BY <1>1, <1>2, <1>5, HearTurns
(* Or it stays, with its code.                                             *)
<1>6. ASSUME Turned(t), tabs'[t].qr \in {None, tabs[t].qr}, ~Ends(c), Brings(c) => ~c.live,
             Agrees(t) => AllSay(t, net', jar'.pending, tabs'[t].qr)
      PROVE  CodeInv'
  BY <1>1, <1>2, <1>6, HearTurns
<1>7. ASSUME NEW url, url # "closed", NEW n, Loaded(t, Rest(c), url, n) PROVE CodeInv'
  BY <1>1, <1>3, <1>4, <1>5, <1>7, LoadedTurns
<1>8. ASSUME NEW page, page # "closed", Leaves(c, page) PROVE CodeInv'
  BY <1>1, <1>5, <1>8, LeavesTurns
<1>9. ASSUME NEW path, path # "closed", Refreshes(c, path), ~Ends(c), ~Brings(c) PROVE CodeInv'
  BY <1>1, <1>6, <1>9, RefreshesTurns
<1>10. ASSUME NEW ds, Fresh(t, ds), Rest(c) \union ds \in SUBSET Calls(did),
              NEW page, page # "closed", NEW me, NEW n,
              Goes(t, Rest(c) \union ds, page, me, n), ~Ends(c), ~Brings(c)
       PROVE  CodeInv'
  <2>1. /\ Placed(t, Rest(c) \union ds)
        /\ Agrees(t) => AllSay(t, Rest(c) \union ds, jar'.pending, tabs[t].qr)
    BY <1>1, <1>4, <1>10, FreshKeeps
  <2>2. /\ Turned(t) /\ tabs'[t].qr \in {None, tabs[t].qr}
        /\ Agrees(t) => AllSay(t, net', jar'.pending, tabs'[t].qr)
    BY <1>1, <1>4, <1>10, <2>1, GoesTurns
  <2> QED BY <1>6, <1>10, <2>2
<1>11. ASSUME NEW tab, Shows(c, tab), tab.page = tabs[t].page, tab.at = tabs[t].at, tab.qr = tabs[t].qr,
              ~Ends(c), ~Brings(c)
       PROVE  CodeInv'
  <2>1. /\ Turned(t) /\ (Agrees(t) => AllSay(t, net', jar'.pending, tabs'[t].qr))
        /\ tabs'[t].qr = tabs[t].qr
    BY <1>1, <1>11, ShowsTurns
  <2> QED BY <1>6, <1>11, <2>1
<1>12. CASE HearUnauthorized(c)
  <2>1. Url(Now(c)) # "closed"
    BY <1>3, <1>4 DEF Url
  <2> QED BY <1>7, <1>12, <2>1 DEF HearUnauthorized
<1>13. CASE HearMe(c)
  <2> DEFINE tab == Arrival(tabs[t], c.path, c.me)
             ds == MountCalls(t, tab)
             hs == HeaderMounted(t, c.me)
  <2>1. tabs' = [tabs EXCEPT ![t] = tab] /\ net' = (Rest(c) \union ds) \union hs
    BY <1>3, <1>13 DEF HearMe
  <2>2. tab.page # "closed" /\ tab.at # "closed" /\ tab.qr = None
    BY <1>3, <1>4, ArrivalShows
  <2> HIDE DEF tab
  <2>3. Fresh(t, ds) /\ Fresh(t, hs)
    BY <1>4, <2>2, MountFresh DEF Fresh
  <2> HIDE DEF ds, hs
  <2>4. tabs'[t] = tab
    BY <1>1, <2>1 DEF GateInv
  <2>5. Agrees(t) => AllSay(t, Rest(c), jar'.pending, None)
    BY <1>4 DEF AllSay, Says
  <2>6. Placed(t, net') /\ (Agrees(t) => AllSay(t, net', jar'.pending, None))
    BY <1>1, <1>4, <2>1, <2>3, <2>5, FreshKeeps
  <2> QED BY <1>5, <2>2, <2>4, <2>6 DEF Turned
<1>14. CASE HearRefresh(c)
  <2> DEFINE hs == HeaderReceives(t, c.me)
             rest == Rest(c) \union hs
             again == Mounted(tabs[t], tabs[t].page, tabs[t].at, c.me)
             ds == MountCalls(t, again)
  <2>1. /\ Fresh(t, hs) /\ rest \in SUBSET Calls(did) /\ ~Ends(c) /\ ~Brings(c)
    <3>1. Fresh(t, hs)
      BY <1>4, MountFresh DEF Fresh
    <3>2. rest \in SUBSET Calls(did)
      BY <1>1, <1>3, HeaderType
    <3>3. ~Ends(c) /\ ~Brings(c)
      BY <1>14 DEF HearRefresh, Heard, Ends, Brings, QrOps
    <3> QED BY <3>1, <3>2, <3>3
  <2>2. again.page # "closed" /\ again.at # "closed" /\ again.qr = None
    BY <1>3, <1>4, MountedShows
  <2>3. \/ Goes(t, rest, c.path, c.me, Now(c).n)
        \/ tabs' = [tabs EXCEPT ![t] = again] /\ net' = rest \union ds
        \/ tabs' = [tabs EXCEPT ![t].me = c.me] /\ net' = rest
    BY <1>3, <1>14 DEF HearRefresh
  <2> HIDE DEF again
  <2>4. Fresh(t, ds)
    BY <1>4, <2>2, MountFresh
  <2>5. Placed(t, rest) /\ (Agrees(t) => AllSay(t, rest, jar'.pending, tabs[t].qr))
    BY <1>1, <1>4, <2>1, FreshKeeps
  <2> HIDE DEF hs, ds
  <2>6. CASE Goes(t, rest, c.path, c.me, Now(c).n)
    BY <1>4, <1>10, <2>1, <2>6
  <2> HIDE DEF rest
  <2>7. CASE tabs' = [tabs EXCEPT ![t] = again] /\ net' = rest \union ds
    <3>1. tabs'[t] = again
      BY <1>1, <2>7 DEF GateInv
    <3>2. Agrees(t) => AllSay(t, rest, jar'.pending, None)
      BY <2>5 DEF AllSay, Says
    <3>3. Placed(t, net') /\ (Agrees(t) => AllSay(t, net', jar'.pending, None))
      BY <1>1, <2>4, <2>5, <2>7, <3>2, FreshKeeps
    <3> QED BY <1>5, <2>2, <3>1, <3>3 DEF Turned
  <2>8. CASE tabs' = [tabs EXCEPT ![t].me = c.me] /\ net' = rest
    <3>1. tabs'[t] = [tabs[t] EXCEPT !.me = c.me]
      BY <1>1, <2>8 DEF GateInv
    <3>2. tabs'[t].page = tabs[t].page /\ tabs'[t].at = tabs[t].at /\ tabs'[t].qr = tabs[t].qr
      BY <1>3, <3>1 DEF TabStates
    <3> QED BY <1>4, <1>6, <2>1, <2>5, <2>8, <3>2 DEF Turned
  <2> QED BY <2>3, <2>6, <2>7, <2>8
<1>15. CASE HearAgreed(c) \/ HearVerified(c) \/ HearReset(c)
  <2>1. /\ Refreshes(c, c.path) \/ Refreshes(c, "again")
        /\ c.op \in {"agree", "bulk", "verify2fa", "reset2fa"} /\ c.status = 200
    BY <1>15 DEF HearAgreed, HearVerified, HearReset, Heard
  <2>2. ~Ends(c) /\ ~Brings(c) /\ "again" # "closed"
    BY <2>1 DEF Ends, Brings, QrOps
  <2> QED BY <1>4, <1>9, <2>1, <2>2
<1>16. CASE HearQrCode(c)
  <2> DEFINE tab == [tabs[t] EXCEPT !.loading = FALSE, !.qr = c.code]
  <2>1. Shows(c, tab) /\ c.op \in QrOps /\ c.status = 200
    BY <1>3, <1>16 DEF HearQrCode, Heard, QrOps
  <2>2. tab.page = tabs[t].page /\ tab.at = tabs[t].at /\ tab.qr = c.code
    BY <1>3 DEF TabStates
  <2> HIDE DEF tab
  <2>3. /\ Turned(t) /\ (Agrees(t) => AllSay(t, net', jar'.pending, tabs'[t].qr))
        /\ tabs'[t].qr = IF c.live THEN c.code ELSE tabs[t].qr
    BY <1>1, <2>1, <2>2, ShowsTurns
  <2>4. ~Ends(c)
    BY <2>1 DEF Ends, QrOps
  <2> QED BY <1>1, <1>2, <2>1, <2>3, <2>4, HearTurns
<1>17. CASE HearContinue(c) \/ HearAuthorization(c)
  <2>1. Leaves(c, "service") \/ Leaves(c, "idp")
    BY <1>17 DEF HearContinue, HearAuthorization
  <2>2. "service" # "closed" /\ "idp" # "closed"
    OBVIOUS
  <2> QED BY <1>8, <2>1, <2>2
<1>18. CASE HearTooMany(c)
  <2> DEFINE m == Mounted(tabs[t], "landing", "/", tabs[t].me)
  <2>1. tabs' = [tabs EXCEPT ![t] = m] /\ net' = Unmounted(t, Rest(c))
    BY <1>3, <1>18 DEF HearTooMany
  <2>2. m.page = "landing" /\ m.at = "/" /\ m.qr = None
    BY <1>3, MountedShows
  <2> HIDE DEF m
  <2>3. tabs'[t] = m
    BY <1>1, <2>1 DEF GateInv
  <2>4. Placed(t, net') /\ (Agrees(t) => AllSay(t, net', jar'.pending, None))
    BY <1>1, <1>3, <1>4, <2>1, DroppedFits
  <2> QED BY <1>5, <2>2, <2>3, <2>4 DEF Turned
<1>19. CASE HearInvalid(c) \/ HearPreUpdated(c) \/ HearRespondents(c) \/ HearRequested(c) \/ HearRead(c)
  <2>1. ~Ends(c) /\ ~Brings(c)
    <3>1. c.op \notin QrOps /\ c.op # "logout"
      BY <1>19 DEF HearInvalid, HearPreUpdated, HearRespondents, HearRequested, HearRead, Heard, QrOps
    <3>2. c.status # 429
      BY <1>4, <1>19 DEF HearInvalid, HearPreUpdated, HearRespondents, HearRequested, HearRead, Heard,
                         Formed
    <3> QED BY <3>1, <3>2 DEF Ends, Brings
  <2>2. \E tab : /\ Shows(c, tab) /\ tab.page = tabs[t].page /\ tab.at = tabs[t].at
                 /\ tab.qr = tabs[t].qr
    <3>1. CASE HearInvalid(c)
      <4> DEFINE loading == tabs[t].loading /\ c.op # "reset2fa"
                 busy == tabs[t].busy /\ c.op = "reset2fa"
                 tab == [tabs[t] EXCEPT !.error = TRUE, !.loading = loading, !.busy = busy]
      <4>1. Shows(c, tab)
        BY <1>3, <3>1 DEF HearInvalid
      <4> HIDE DEF loading, busy
      <4>2. tab.page = tabs[t].page /\ tab.at = tabs[t].at /\ tab.qr = tabs[t].qr
        BY <1>3 DEF TabStates
      <4> QED BY <4>1, <4>2
    <3>2. CASE HearPreUpdated(c)
      <4> DEFINE tab == [tabs[t] EXCEPT !.busy = FALSE, !.error = FALSE]
      <4>1. Shows(c, tab)
        BY <1>3, <3>2 DEF HearPreUpdated
      <4>2. tab.page = tabs[t].page /\ tab.at = tabs[t].at /\ tab.qr = tabs[t].qr
        BY <1>3 DEF TabStates
      <4> QED BY <4>1, <4>2
    <3>3. CASE HearRespondents(c)
      <4> DEFINE tab == [tabs[t] EXCEPT !.loading = FALSE, !.colleagues = TRUE, !.sheet = "lost"]
      <4>1. Shows(c, tab)
        BY <1>3, <3>3 DEF HearRespondents
      <4>2. tab.page = tabs[t].page /\ tab.at = tabs[t].at /\ tab.qr = tabs[t].qr
        BY <1>3 DEF TabStates
      <4> QED BY <4>1, <4>2
    <3>4. CASE HearRequested(c)
      BY <1>3, <3>4 DEF HearRequested, TabStates
    <3>5. CASE HearRead(c)
      BY <1>3, <3>5 DEF HearRead, TabStates
    <3> QED BY <1>19, <3>1, <3>2, <3>3, <3>4, <3>5
  <2> QED BY <1>11, <2>1, <2>2
<1>20. CASE HearUpdated(c) \/ HearUnknown(c)
  <2>1. \E page : page # "closed" /\ Goes(t, Rest(c), page, Now(c).me, Now(c).n)
    BY <1>20 DEF HearUpdated, HearUnknown
  <2>2. ~Ends(c) /\ ~Brings(c)
    BY <1>4, <1>20 DEF HearUpdated, HearUnknown, Heard, Formed, Ends, Brings, QrOps
  <2>3. Fresh(t, {}) /\ Rest(c) \union {} = Rest(c)
    BY DEF Fresh
  <2> QED BY <1>3, <1>10, <2>1, <2>2, <2>3
<1>21. CASE HearLoads(c)
  <2>1. \E url, n : url # "closed" /\ Loaded(t, Rest(c), url, n)
    BY <1>4, <1>21 DEF HearLoads
  <2> QED BY <1>7, <2>1
<1> QED BY <1>12, <1>13, <1>14, <1>15, <1>16, <1>17, <1>18, <1>19, <1>20, <1>21 DEF Hear

(* Scanning the code on the screen gives codes that the server takes,      *)
(* whatever was opened, sent and answered before, as long as one tab is    *)
(* open and no answer has put back an older cookie.                        *)
THEOREM CodeIsCurrent == Spec => []QrCodeCounts
<1>1. Init => CodeInv
  <2> SUFFICES ASSUME Init PROVE CodeInv
    OBVIOUS
  <2>1. net = {} /\ jar = Stranger /\ \A t \in Tabs : tabs[t].at = "/" /\ tabs[t].qr = None
    BY DEF Init
  <2> QED BY <2>1 DEF CodeInv, OpenInv, Agrees, AllSay, Stranger
<1>2. GateInv /\ GateInv' /\ CodeInv /\ [Next]_vars => CodeInv'
  <2> SUFFICES ASSUME GateInv, GateInv', CodeInv, [Next]_vars PROVE CodeInv'
    OBVIOUS
  <2>1. CASE UNCHANGED <<jar, net, tabs, overtaken>>
    BY <2>1 DEF CodeInv, OpenInv, Alone, Agrees, AllSay, Leads, Formed, Says, Brings, Ends
  <2>2. CASE UNCHANGED vars \/ Later
    BY <2>1, <2>2 DEF vars, history, Later
  <2>3. ASSUME NEW t \in Tabs, UserStep(t) PROVE CodeInv'
    BY <2>3, UserCode
  <2>4. ASSUME NEW t, CallStep(t) PROVE CodeInv'
    BY <2>4, ServeCode, HearCode DEF CallStep
  <2> QED BY <2>2, <2>3, <2>4 DEF Next
<1>3. CodeInv => QrCodeCounts
  BY DEF CodeInv, Agrees, Alone, QrCodeCounts
<1> QED BY <1>1, <1>2, <1>3, SaidIsDone, PTL DEF Spec
===============================================================================
