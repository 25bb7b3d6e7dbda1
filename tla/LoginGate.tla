------------------------------ MODULE LoginGate -------------------------------
(***************************************************************************)
(* How a user gets into the web client: the tabs of one browser with their *)
(* pages for the policies and the second factor, the calls they make, and  *)
(* the handlers that answer.  The server keeps no session: it is a cookie  *)
(* that all tabs share and that an answer overwrites as a whole, with what *)
(* the request brought along.                                              *)
(***************************************************************************)
EXTENDS Naturals, FiniteSets

CONSTANTS
  Tabs,
  Limit,    \* rate_limit_totp_guesses_per_30_seconds
  Scenes    \* what Init chooses from: see SceneAssumption

(* "proxy" is /2fa/<uuid>, where the login of a service sends its users.   *)
Addresses == {"/", "profile", "update", "aup", "2fa", "proxy", "service-aup"}
(* The account to begin with; whether the user has the authenticator still,*)
(* whether the provider checks the factor, whether time passes, what the   *)
(* user opens, who may log out and the bound: what is done in each tab.    *)
ASSUME SceneAssumption ==
  Scenes \subseteq [aup : BOOLEAN, factor : BOOLEAN, services : BOOLEAN, lost : BOOLEAN,
                    idpMfa : BOOLEAN, late : BOOLEAN, wrong : BOOLEAN,
                    opens : SUBSET Addresses, budget : [Tabs -> Nat]]
ASSUME LimitAssumption == Limit \in Nat
(* "nobody" stands for the tab of a call whose page has been left.         *)
ASSUME TabsAssumption == "nobody" \notin Tabs

VARIABLES
  scene,     \* the scene of this behaviour, which never changes
  db,        \* the user: policy, secret, suspended, services, token, recent, uuid
  made,      \* the secrets generated; secret n is the n-th
  rate,      \* the guesses that redis counts
  wrong,     \* guesses since the window began or a right one (history)
  jar,       \* the session cookie of the browser
  net,       \* the requests on their way and the answers not heard
  tabs,      \* what each tab shows
  device,    \* the secrets in the authenticator of the user
  did,       \* the steps taken (history)
  overtaken  \* an answer has put back a cookie older than the one there was (history)

history == <<wrong, did, overtaken>>
vars == <<scene, db, made, rate, jar, net, tabs, device, history>>

None == 0
Stranger == [user |-> FALSE, aup |-> FALSE, confirmed |-> FALSE, pending |-> None,
             checked |-> FALSE, dest |-> "/"]
Guest == [guest |-> TRUE, suspended |-> FALSE, aup |-> FALSE, confirmed |-> FALSE,
          factor |-> FALSE, missing |-> FALSE]
NoGuesses == [entry |-> FALSE, count |-> 0, fresh |-> FALSE]
Pages == {"home", "profile", "update", "service-aup"}
Factor == {"2fa", "proxy", "update"}   \* the pages of SecondFactorAuthentication

-------------------------------------------------------------------------------
(* Routes.                                                                 *)

ProtectedSkipsAup(page, me) ==
  IF me.guest THEN "leaving" ELSE IF me.missing /\ page # "service-aup" THEN "missing" ELSE page
(* ProtectedRoute: in this order.  Only service-aup, which the proxy opens,*)
(* is shown before the policies of the services are accepted.              *)
Protected(page, me) ==
  IF me.guest THEN "leaving"
  ELSE IF ~me.aup THEN "aup"
  ELSE IF ~me.confirmed THEN "2fa"
  ELSE IF me.missing /\ page # "service-aup" THEN "missing" ELSE page
(* The switch of App, with what the components do with a guest at once.    *)
Routed(page, me) ==
  CASE page = "/" -> IF me.guest THEN "landing" ELSE Protected("home", me)
    [] page = "aup" -> IF me.guest THEN "leaving" ELSE "aup"
    [] page = "2fa" -> IF me.guest THEN "landing" ELSE "2fa"
    [] page \in Pages -> Protected(page, me)
    [] page = "missing" -> IF me.guest \/ ~me.confirmed THEN "crashed" ELSE "missing"
    [] OTHER -> page

(* The tab as the component of a page is mounted.  The component gets the  *)
(* identifier and the address of the service into its state only if there  *)
(* is no session, or one of a user who has a factor.                       *)
Mounted(tab, page, at, me) ==
  [tab EXCEPT !.page = page, !.at = at, !.me = me, !.busy = FALSE, !.error = FALSE,
     !.sheet = "form", !.qr = None, !.colleagues = FALSE,
     !.via = (page = "proxy" /\ (me.guest \/ me.factor)),
     !.loading = \/ page \in {"update", "service-aup"}
                 \/ (page \in {"2fa", "proxy"} /\ (me.guest \/ ~me.factor))]
(* The address to come back to: a redirect changes it, missing-service-aup *)
(* carries the one it was asked for along.                                 *)
Arrival(tab, page, me) ==
  LET to == Routed(page, me)
  IN Mounted(tab, to, IF to \in {"leaving", "missing"}
                        THEN IF page = "missing" THEN tab.at ELSE page ELSE to, me)
Call(t, op, code, path) ==
  [tab |-> t, op |-> op, code |-> code, path |-> path, cookie |-> jar', sets |-> FALSE,
   status |-> 0, me |-> Guest, live |-> TRUE, old |-> FALSE]
(* What mounting asks for.  A guest is sent to log in, and eduTeams only   *)
(* knows one address: the one to come back to goes into the session.       *)
MountCalls(t, tab) ==
  CASE tab.page = "leaving" -> {Call(t, "authorization", None, tab.at)}
    [] tab.page = "proxy" /\ tab.me.guest -> {Call(t, "get2faProxyAuthz", None, "")}
    [] tab.page = "update" \/ (tab.page \in {"2fa", "proxy"} /\ ~tab.me.guest /\ ~tab.me.factor) ->
         {Call(t, "get2fa", None, "")}
    [] tab.page = "service-aup" -> {Call(t, "serviceByUuid4", None, "")}
    [] OTHER -> {}
(* The header asks for the organisation: when it is mounted, of a user who *)
(* has taken all steps; when it gets a new user, of one who has agreed.    *)
HeaderMounted(t, me) ==
  IF ~me.guest /\ me.aup /\ me.confirmed THEN {Call(t, "schacHome", None, "")} ELSE {}
HeaderReceives(t, me) == IF me.aup THEN {Call(t, "schacHome", None, "")} ELSE {}
(* Answers for a component that is gone no longer change what is shown.    *)
Unmounted(t, cs) == {IF c.tab = t THEN [c EXCEPT !.live = FALSE] ELSE c : c \in cs}
(* Leaving the page drops its calls: the server still handles them, their  *)
(* answers and their cookies are not received.                             *)
Dropped(t, cs) == {c \in cs : c.tab # t}
                  \union {[c EXCEPT !.tab = "nobody"] : c \in {d \in cs : d.tab = t /\ d.status = 0}}
Loaded(t, cs, url, n) ==
  /\ tabs' = [tabs EXCEPT ![t] =
       [Mounted(@, "loading", IF url = "missing" THEN @.at ELSE url, Guest) EXCEPT !.n = n]]
  /\ net' = Dropped(t, cs) \union {Call(t, "me", None, url)}
Url(tab) == IF tab.page \in {"landing", "home"} THEN "/" ELSE tab.page
(* history.push: the same component stays when the address does.           *)
Goes(t, cs, page, me, n) ==
  IF page = tabs[t].page
    THEN tabs' = [tabs EXCEPT ![t].me = me, ![t].n = n] /\ net' = cs
    ELSE LET tab == [Arrival(tabs[t], page, me) EXCEPT !.n = n]
         IN tabs' = [tabs EXCEPT ![t] = tab] /\ net' = Unmounted(t, cs) \union MountCalls(t, tab)

Init ==
  /\ scene \in Scenes
  /\ made = (IF scene.factor THEN 1 ELSE None)
  /\ db = [aup |-> scene.aup, secret |-> made, suspended |-> FALSE, services |-> scene.services,
           token |-> None, mails |-> 0, recent |-> FALSE, uuid |-> 1]
  /\ rate = NoGuesses /\ wrong = 0 /\ overtaken = FALSE /\ jar = Stranger /\ net = {}
  /\ tabs = [t \in Tabs |-> [page |-> "closed", at |-> "/", me |-> Guest, loading |-> FALSE,
       busy |-> FALSE, error |-> FALSE, sheet |-> "form", qr |-> None, colleagues |-> FALSE,
       via |-> FALSE, n |-> 0]]
  /\ device = (IF scene.factor /\ ~scene.lost THEN {1} ELSE {})
  /\ did = (IF scene.aup THEN {"aup"} ELSE {})

-------------------------------------------------------------------------------
(* What the user does.                                                     *)

Acts(t) == tabs[t].n < scene.budget[t] 
OnlyTabs == UNCHANGED <<scene, db, made, rate, jar, device, history>>
Sends(t, op, code, path) ==
  /\ OnlyTabs /\ net' = net \union {Call(t, op, code, path)}
  /\ tabs' = [tabs EXCEPT ![t].n = @ + 1]
SendsBusy(t, op, code) ==
  /\ OnlyTabs /\ net' = net \union {Call(t, op, code, "")}
  /\ tabs' = [tabs EXCEPT ![t].n = @ + 1, ![t].busy = TRUE]
SendsLoading(t, op, code, path) ==
  /\ OnlyTabs /\ net' = net \union {Call(t, op, code, path)}
  /\ tabs' = [tabs EXCEPT ![t].n = @ + 1, ![t].loading = TRUE]

(* A new tab, or a new address in a tab: the page is loaded.               *)
Open(t, at) ==
  /\ Acts(t) /\ at \in scene.opens /\ tabs[t].page \notin {"idp", "leaving"}
  /\ OnlyTabs /\ Loaded(t, net, at, tabs[t].n + 1)
(* The button of the landing page, disabled for a suspended user.          *)
LoginButton(t) ==
  /\ Acts(t) /\ tabs[t].page = "landing" /\ ~tabs[t].me.suspended
  /\ Sends(t, "authorization", None, "/")
(* The identity provider sends the browser back.                           *)
ComeBack(t) ==
  /\ tabs[t].page = "idp" /\ ~\E c \in net : c.tab = t
  /\ OnlyTabs /\ net' = net \union {Call(t, "resume", None, "")} /\ UNCHANGED tabs
(* The logo of the header: the home page, without loading anything.        *)
Logo(t) ==
  /\ Acts(t) /\ tabs[t].page \in {"aup", "missing"} \union Factor \union Pages
  /\ OnlyTabs /\ Goes(t, net, "/", tabs[t].me, tabs[t].n + 1)
(* The menu is there for who has agreed and verified.                      *)
LogoutButton(t) ==
  /\ Acts(t) /\ tabs[t].page \in Pages \union {"aup", "2fa", "missing"}
  /\ tabs[t].me.aup /\ tabs[t].me.confirmed /\ Sends(t, "logout", None, "")
ConfigureMfa(t) ==
  /\ Acts(t) /\ tabs[t].page = "profile" /\ tabs[t].me.factor
  /\ OnlyTabs /\ Goes(t, net, "update", tabs[t].me, tabs[t].n + 1)

AgreeAup(t) == Acts(t) /\ tabs[t].page = "aup" /\ Sends(t, "agree", None, "")
(* The address is in the state parameter whenever the page is shown.       *)
AgreeMissing(t) ==
  /\ Acts(t) /\ tabs[t].page = "missing" /\ ~tabs[t].loading
  /\ SendsLoading(t, "bulk", None, tabs[t].at)
AgreeService(t) ==
  /\ Acts(t) /\ tabs[t].page = "service-aup" /\ ~tabs[t].loading
  /\ Sends(t, "serviceAup", None, "")

(* The second factor: the form for the code, with a QR code to scan when   *)
(* the user registers or updates; the form to ask for a token, and the one *)
(* to enter it.                                                            *)
At(t, sheet) ==
  /\ Acts(t) /\ tabs[t].page \in Factor /\ ~tabs[t].loading /\ tabs[t].sheet = sheet
Scan(t) ==
  /\ tabs[t].page \in Factor /\ ~tabs[t].loading /\ tabs[t].sheet = "form"
  /\ tabs[t].qr # None /\ tabs[t].qr \notin device /\ device' = device \union {tabs[t].qr}
  /\ UNCHANGED <<scene, db, made, rate, jar, net, tabs, history>>
Codes == device \union (IF scene.wrong THEN {None} ELSE {})
(* The last digit sends the code, while an earlier one is busy too.        *)
Verify(t, code) ==
  /\ At(t, "form")
  /\ SendsBusy(t, IF tabs[t].page = "update" THEN "update2fa"
                  ELSE IF tabs[t].via THEN "verify2faProxyAuthz" ELSE "verify2fa", code)
PreUpdateVerify(t, code) ==
  At(t, "form") /\ tabs[t].page = "update" /\ SendsBusy(t, "preUpdate2fa", code)
OpenResetRequest(t) ==
  /\ At(t, "form") /\ tabs[t].qr = None
  /\ IF tabs[t].colleagues
       THEN /\ tabs' = [tabs EXCEPT ![t].sheet = "lost", ![t].n = @ + 1]
            /\ OnlyTabs /\ UNCHANGED net
       ELSE SendsLoading(t, "respondents", IF tabs[t].via THEN 1 ELSE None, "")
SendResetRequest(t) ==
  At(t, "lost") /\ Sends(t, "resetRequest", IF tabs[t].via THEN 1 ELSE None, "")
EnterResetToken(t) ==
  /\ At(t, "form") /\ tabs[t].qr = None
  /\ tabs' = [tabs EXCEPT ![t].sheet = "reset", ![t].n = @ + 1] /\ OnlyTabs /\ UNCHANGED net
CloseSheet(t) ==
  /\ At(t, tabs[t].sheet) /\ tabs[t].sheet # "form"
  /\ tabs' = [tabs EXCEPT ![t].sheet = "form", ![t].error = FALSE, ![t].n = @ + 1]
  /\ OnlyTabs /\ UNCHANGED net
(* The token of a mail, handed over by the colleague.                      *)
SubmitResetCode(t, code) == At(t, "reset") /\ SendsLoading(t, "reset2fa", code, "")
Cancel(t) ==
  /\ At(t, "form") /\ tabs[t].page = "update"
  /\ OnlyTabs /\ Goes(t, net, "profile", tabs[t].me, tabs[t].n + 1)

-------------------------------------------------------------------------------
(* The server: an action per handler, each one transaction.                *)

Silent == {"me", "verify2fa", "verify2faProxyAuthz", "preUpdate2fa", "update2fa", "resetRequest",
           "reset2fa", "serviceByUuid4"}
Public == {"me", "authorization", "resume", "logout", "get2faProxyAuthz", "verify2faProxyAuthz",
           "respondents", "resetRequest"}
(* auth_filter, for users who are not platform admins.                     *)
Admitted(c) ==
  \/ c.op \in Public
  \/ c.cookie.user /\ c.op = "agree"
  \/ c.cookie.user /\ c.cookie.aup
     /\ (c.cookie.confirmed \/ c.op \in {"refresh", "get2fa", "reset2fa", "verify2fa"})
(* The user of the identifier, which every login renews, or of the session.*)
Found(c) ==
  IF \/ c.op \in {"get2faProxyAuthz", "verify2faProxyAuthz"}
     \/ (c.op \in {"respondents", "resetRequest"} /\ c.code = 1)
    THEN db.uuid = 1 ELSE c.cookie.user
Asked(c, op) == c.status = 0 /\ c.op = op /\ Admitted(c)
Replies(c, d) == net' = (net \ {c}) \union (IF c.tab = "nobody" THEN {} ELSE {d})
Ok(c) == [c EXCEPT !.status = 200]
(* The answer of a handler that changed the session brings all of it.      *)
OkWith(c, cookie) == [c EXCEPT !.status = 200, !.sets = TRUE, !.cookie = cookie]

NotAdmitted(c) ==
  /\ c.status = 0 /\ ~Admitted(c) /\ Replies(c, [c EXCEPT !.status = 401])
  /\ UNCHANGED <<scene, db, made, rate, jar, tabs, device, history>>
ServeMe(c) ==
  /\ Asked(c, "me")
  /\ LET s == c.cookie IN
     Replies(c, IF ~s.user THEN Ok(c)
                ELSE IF db.suspended
                  THEN [c EXCEPT !.status = 409, !.me = [Guest EXCEPT !.suspended = TRUE]]
                ELSE [Ok(c) EXCEPT !.me = [Guest EXCEPT !.guest = FALSE, !.aup = s.aup,
                        !.confirmed = s.confirmed, !.factor = db.secret # None,
                        !.missing = s.confirmed /\ db.services]])
  /\ UNCHANGED <<scene, db, made, rate, jar, tabs, device, history>>
(* The policy is read from the database, the factor from the session.      *)
ServeRefresh(c) ==
  /\ Asked(c, "refresh")
  /\ Replies(c, [Ok(c) EXCEPT !.me = [Guest EXCEPT !.guest = FALSE, !.aup = db.aup,
                   !.confirmed = c.cookie.confirmed, !.factor = db.secret # None,
                   !.missing = db.services]])
  /\ UNCHANGED <<scene, db, made, rate, jar, tabs, device, history>>
ServeAgree(c) ==
  /\ Asked(c, "agree") /\ db' = [db EXCEPT !.aup = TRUE] /\ did' = did \union {"aup"}
  /\ Replies(c, [OkWith(c, [c.cookie EXCEPT !.aup = TRUE]) EXCEPT !.path = c.cookie.dest])
  /\ UNCHANGED <<scene, made, rate, jar, tabs, device, wrong, overtaken>>
ServeGet2faForgets(c) ==
  /\ Asked(c, "get2fa") /\ made' = made + 1 /\ Replies(c, [Ok(c) EXCEPT !.code = made + 1])
  /\ UNCHANGED <<scene, db, rate, jar, tabs, device, history>>
(* A new secret on every call; the proxy's only if there is none.          *)
ServeGet2fa(c) ==
  /\ \/ Asked(c, "get2fa")
     \/ (Asked(c, "get2faProxyAuthz") /\ Found(c) /\ db.secret = None)
  /\ made' = made + 1
  /\ Replies(c, [OkWith(c, [c.cookie EXCEPT !.pending = made + 1]) EXCEPT !.code = made + 1])
  /\ UNCHANGED <<scene, db, rate, jar, tabs, device, history>>
ServeHasFactor(c) ==
  /\ Asked(c, "get2faProxyAuthz") /\ (Found(c) => db.secret # None)
  /\ Replies(c, IF Found(c) THEN Ok(c) ELSE [c EXCEPT !.status = 404])
  /\ UNCHANGED <<scene, db, made, rate, jar, tabs, device, history>>

Verifies(c) == Asked(c, "verify2fa") \/ Asked(c, "verify2faProxyAuthz")
(* rate_limit_reached: no entry counts as a guess made now.                *)
Reached == rate.count >= Limit /\ (rate.entry => rate.fresh)
Counts == [entry |-> TRUE, fresh |-> TRUE,
           count |-> IF rate.entry /\ ~rate.fresh THEN 0 ELSE rate.count + 1]
Secret(c) == IF db.secret # None THEN db.secret ELSE c.cookie.pending
(* After the last guess allowed: the user is suspended and logged out.     *)
ServeTooMany(c) ==
  /\ Verifies(c) /\ Found(c) /\ Reached
  /\ db' = [db EXCEPT !.suspended = TRUE]
  /\ Replies(c, [OkWith(c, Stranger) EXCEPT !.status = 429])
  /\ UNCHANGED <<scene, made, rate, jar, tabs, device, history>>
ServeWrong(c) ==
  /\ Verifies(c) /\ (Found(c) => ~Reached /\ (Secret(c) = None \/ c.code # Secret(c)))
  /\ rate' = IF Found(c) THEN Counts ELSE rate
  /\ wrong' = IF ~Found(c) THEN wrong ELSE IF rate.entry /\ ~rate.fresh THEN 1 ELSE wrong + 1
  /\ Replies(c, [c EXCEPT !.status = IF Found(c) THEN 400 ELSE 404])
  /\ UNCHANGED <<scene, db, made, jar, tabs, device, did, overtaken>>
ServeRightKeepsCount(c) ==
  /\ Verifies(c) /\ Found(c) /\ ~Reached /\ Secret(c) # None /\ c.code = Secret(c)
  /\ wrong' = 0 /\ did' = did \union {"mfa"}
  /\ db' = [db EXCEPT !.secret = Secret(c), !.recent = TRUE]
  /\ Replies(c, [OkWith(c, [c.cookie EXCEPT !.user = TRUE, !.confirmed = TRUE, !.aup = db.aup])
                   EXCEPT !.path = c.cookie.dest])
  /\ UNCHANGED <<scene, made, rate, jar, tabs, device, overtaken>>
(* The secret that the code was right for becomes the user's.              *)
ServeRight(c) ==
  /\ Verifies(c) /\ Found(c) /\ ~Reached /\ Secret(c) # None /\ c.code = Secret(c)
  /\ rate' = NoGuesses /\ wrong' = 0 /\ did' = did \union {"mfa"}
  /\ db' = [db EXCEPT !.secret = Secret(c), !.recent = TRUE]
  /\ Replies(c, [OkWith(c, [c.cookie EXCEPT !.user = TRUE, !.confirmed = TRUE, !.aup = db.aup])
                   EXCEPT !.path = c.cookie.dest])
  /\ UNCHANGED <<scene, made, jar, tabs, device, overtaken>>
ServePreUpdate(c) ==
  /\ Asked(c, "preUpdate2fa")
  /\ Replies(c, IF db.secret # None /\ c.code = db.secret
                  THEN OkWith(c, [c.cookie EXCEPT !.checked = TRUE]) ELSE [c EXCEPT !.status = 400])
  /\ UNCHANGED <<scene, db, made, rate, jar, tabs, device, history>>
NewCodeUnchecked(c) == c.cookie.checked /\ c.cookie.pending # None
(* The flag of the old code is never taken back.                           *)
NewCodeIsRight(c) == c.cookie.checked /\ c.cookie.pending # None /\ c.code = c.cookie.pending
ServeUpdate(c) ==
  /\ Asked(c, "update2fa")
  /\ db' = [db EXCEPT !.secret = IF NewCodeIsRight(c) THEN c.cookie.pending ELSE @]
  /\ Replies(c, IF NewCodeIsRight(c) THEN Ok(c) ELSE [c EXCEPT !.status = 400])
  /\ UNCHANGED <<scene, made, rate, jar, tabs, device, history>>
ServeRespondents(c) ==
  /\ Asked(c, "respondents") /\ Replies(c, IF Found(c) THEN Ok(c) ELSE [c EXCEPT !.status = 404])
  /\ UNCHANGED <<scene, db, made, rate, jar, tabs, device, history>>
(* A new token replaces the one of an earlier mail.                        *)
ServeResetRequest(c) ==
  /\ Asked(c, "resetRequest")
  /\ db' = IF Found(c) THEN [db EXCEPT !.token = db.mails + 1, !.mails = @ + 1] ELSE db
  /\ Replies(c, IF Found(c) THEN Ok(c) ELSE [c EXCEPT !.status = 404])
  /\ UNCHANGED <<scene, made, rate, jar, tabs, device, history>>
ServeReset(c) ==
  /\ Asked(c, "reset2fa")
  /\ IF c.code # None /\ c.code = db.token
       THEN db' = [db EXCEPT !.secret = None, !.token = None] /\ Replies(c, Ok(c))
       ELSE UNCHANGED db /\ Replies(c, [c EXCEPT !.status = 403])
  /\ UNCHANGED <<scene, made, rate, jar, tabs, device, history>>
ServeAuthorization(c) ==
  /\ Asked(c, "authorization") /\ Replies(c, OkWith(c, [c.cookie EXCEPT !.dest = c.path]))
  /\ UNCHANGED <<scene, db, made, rate, jar, tabs, device, history>>
(* resume_session and redirect_to_client.  The factor is required unless   *)
(* the provider has checked it or the user has verified a short while ago. *)
ServeResume(c) ==
  LET confirmed == scene.idpMfa \/ db.recent
      s == [c.cookie EXCEPT !.user = TRUE, !.aup = db.aup, !.confirmed = confirmed]
  IN /\ Asked(c, "resume")
     /\ db' = [db EXCEPT !.recent = @ \/ confirmed, !.uuid = IF confirmed THEN @ ELSE 2]
     /\ did' = did \union (IF confirmed THEN {"mfa"} ELSE {})
     /\ Replies(c, IF ~db.aup THEN [OkWith(c, s) EXCEPT !.path = "aup"]
                   ELSE IF ~confirmed THEN [OkWith(c, s) EXCEPT !.path = "2fa"]
                   ELSE [OkWith(c, [s EXCEPT !.dest = "/"]) EXCEPT !.path = s.dest])
     /\ UNCHANGED <<scene, made, rate, jar, tabs, device, wrong, overtaken>>
ServeServiceAups(c) ==
  /\ Asked(c, "bulk") \/ Asked(c, "serviceAup")
  /\ db' = [db EXCEPT !.services = FALSE] /\ Replies(c, Ok(c))
  /\ UNCHANGED <<scene, made, rate, jar, tabs, device, history>>
ServeRead(c) ==
  /\ Asked(c, "serviceByUuid4") \/ Asked(c, "schacHome")
  /\ Replies(c, Ok(c))
  /\ UNCHANGED <<scene, db, made, rate, jar, tabs, device, history>>
ServeLogout(c) ==
  /\ Asked(c, "logout") /\ Replies(c, OkWith(c, Stranger))
  /\ UNCHANGED <<scene, db, made, rate, jar, tabs, device, history>>

(* Half a minute passes, and the time after which to verify again.         *)
Later ==
  /\ scene.late /\ rate' = [rate EXCEPT !.fresh = FALSE] /\ db' = [db EXCEPT !.recent = FALSE]
  /\ UNCHANGED <<scene, made, jar, net, tabs, device, history>>

-------------------------------------------------------------------------------
(* What a tab hears.                                                       *)

Heard(c, op) == c.status = 200 /\ c.tab \in Tabs /\ c.op = op
(* The browser stores the cookie of an answer, whatever it has stored since*)
(* the request left.                                                       *)
Stored(c) ==
  /\ jar' = IF c.sets THEN c.cookie ELSE jar
  /\ overtaken' = (overtaken \/ (c.sets /\ c.old))
  /\ UNCHANGED <<scene, db, made, rate, device, wrong, did>>
Now(c) == tabs[c.tab]
Rest(c) == {IF c.sets THEN [d EXCEPT !.old = TRUE] ELSE d : d \in net \ {c}}
Shows(c, tab) == tabs' = [tabs EXCEPT ![c.tab] = IF c.live THEN tab ELSE @] /\ net' = Rest(c)
Leaves(c, page) ==
  /\ tabs' = [tabs EXCEPT ![c.tab] = Mounted(@, page, @.at, @.me)] /\ net' = Dropped(c.tab, Rest(c))
Refreshes(c, path) ==
  /\ net' = Rest(c) \union {[Call(c.tab, "refresh", None, path) EXCEPT !.live = c.live]}
  /\ UNCHANGED tabs

(* A call that is not silent and not admitted reloads the page.            *)
HearUnauthorized(c) ==
  /\ c.status = 401 /\ c.tab \in Tabs /\ c.op \notin Silent /\ Stored(c)
  /\ Loaded(c.tab, Rest(c), Url(Now(c)), Now(c).n)
(* The app is mounted, with the user or with a guest.                      *)
HearMe(c) ==
  /\ c.op = "me" /\ c.status # 0 /\ c.tab \in Tabs /\ Stored(c)
  /\ LET tab == Arrival(Now(c), c.path, c.me)
     IN /\ tabs' = [tabs EXCEPT ![c.tab] = tab]
        /\ net' = Rest(c) \union MountCalls(c.tab, tab) \union HeaderMounted(c.tab, c.me)
(* refreshUserMemberships, and what the page that asked for it then does:  *)
(* it goes on, or does again what it did when it was mounted.              *)
HearRefresh(c) ==
  /\ Heard(c, "refresh") /\ Stored(c)
  /\ LET rest == Rest(c) \union HeaderReceives(c.tab, c.me)
         again == Mounted(Now(c), Now(c).page, Now(c).at, c.me)
     IN IF c.path # "again" THEN Goes(c.tab, rest, c.path, c.me, Now(c).n)
        ELSE IF c.live
          THEN tabs' = [tabs EXCEPT ![c.tab] = again] /\ net' = rest \union MountCalls(c.tab, again)
          ELSE tabs' = [tabs EXCEPT ![c.tab].me = c.me] /\ net' = rest
HearAgreed(c) == (Heard(c, "agree") \/ Heard(c, "bulk")) /\ Stored(c) /\ Refreshes(c, c.path)
HearQrCode(c) ==
  /\ Heard(c, "get2fa") \/ Heard(c, "get2faProxyAuthz")
  /\ Stored(c) /\ Shows(c, [Now(c) EXCEPT !.loading = FALSE, !.qr = c.code])
HearVerified(c) == Heard(c, "verify2fa") /\ Stored(c) /\ Refreshes(c, c.path)
(* On to the service.                                                      *)
HearContinue(c) ==
  /\ Heard(c, "verify2faProxyAuthz") \/ Heard(c, "serviceAup")
  /\ Stored(c) /\ Leaves(c, "service")
(* Suspended: the landing page, with the user there was.                   *)
HearTooMany(c) ==
  /\ c.status = 429 /\ c.tab \in Tabs /\ Stored(c)
  /\ tabs' = [tabs EXCEPT ![c.tab] = Mounted(@, "landing", "/", @.me)]
  /\ net' = Unmounted(c.tab, Rest(c))
HearInvalidStaysBusy(c) ==
  /\ c.op \in {"verify2fa", "verify2faProxyAuthz", "preUpdate2fa", "update2fa", "reset2fa"}
  /\ c.status \in {400, 401, 403, 404} /\ c.tab \in Tabs /\ Stored(c)
  /\ Shows(c, [Now(c) EXCEPT !.error = TRUE])
(* Everything else that goes wrong with a code is an invalid code.         *)
HearInvalid(c) ==
  /\ c.op \in {"verify2fa", "verify2faProxyAuthz", "preUpdate2fa", "update2fa", "reset2fa"}
  /\ c.status \in {400, 401, 403, 404} /\ c.tab \in Tabs /\ Stored(c)
  /\ Shows(c, [Now(c) EXCEPT !.error = TRUE, !.loading = @ /\ c.op # "reset2fa",
                             !.busy = @ /\ c.op = "reset2fa"])
HearPreUpdated(c) ==
  /\ Heard(c, "preUpdate2fa") /\ Stored(c)
  /\ Shows(c, [Now(c) EXCEPT !.busy = FALSE, !.error = FALSE])
HearUpdated(c) ==
  /\ Heard(c, "update2fa") /\ Stored(c) /\ Goes(c.tab, Rest(c), "profile", Now(c).me, Now(c).n)
HearRespondents(c) ==
  /\ Heard(c, "respondents") /\ Stored(c)
  /\ Shows(c, [Now(c) EXCEPT !.loading = FALSE, !.colleagues = TRUE, !.sheet = "lost"])
(* No catch: the form stays.                                               *)
HearRequested(c) ==
  /\ c.op = "resetRequest" /\ c.status # 0 /\ c.tab \in Tabs /\ Stored(c)
  /\ Shows(c, [Now(c) EXCEPT !.sheet = IF c.status = 200 THEN "form" ELSE @])
HearReset(c) == Heard(c, "reset2fa") /\ Stored(c) /\ Refreshes(c, "again")
HearAuthorization(c) == Heard(c, "authorization") /\ Stored(c) /\ Leaves(c, "idp")
(* After the login, after the logout, and where a call that is not silent  *)
(* ends that finds no user.                                                *)
HearLoads(c) ==
  /\ \/ Heard(c, "resume") \/ Heard(c, "logout")
     \/ (c.op = "respondents" /\ c.status = 404 /\ c.tab \in Tabs)
  /\ Stored(c)
  /\ Loaded(c.tab, Rest(c), IF c.op = "resume" THEN c.path
                            ELSE IF c.op = "logout" THEN "/" ELSE "404", Now(c).n)
HearUnknown(c) ==
  /\ c.op = "get2faProxyAuthz" /\ c.status = 404 /\ c.tab \in Tabs /\ Stored(c)
  /\ Goes(c.tab, Rest(c), "404", Now(c).me, Now(c).n)
HearRead(c) ==
  /\ \/ Heard(c, "schacHome")
     \/ (c.op = "serviceByUuid4" /\ c.status # 0 /\ c.tab \in Tabs)
  /\ Stored(c)
  /\ Shows(c, [Now(c) EXCEPT !.loading = @ /\ ~(c.op = "serviceByUuid4" /\ c.status = 200)])

-------------------------------------------------------------------------------
UserStep(t) ==
  \/ \E at \in Addresses : Open(t, at)
  \/ LoginButton(t) \/ ComeBack(t) \/ Logo(t) \/ LogoutButton(t) \/ ConfigureMfa(t)
  \/ AgreeAup(t) \/ AgreeMissing(t) \/ AgreeService(t) \/ Scan(t)
  \/ \E code \in Codes : Verify(t, code) \/ PreUpdateVerify(t, code)
  \/ OpenResetRequest(t) \/ SendResetRequest(t) \/ EnterResetToken(t) \/ CloseSheet(t)
  \/ \E code \in 0..db.mails : SubmitResetCode(t, code)
  \/ Cancel(t)
Serve(c) ==
  \/ NotAdmitted(c) \/ ServeMe(c) \/ ServeRefresh(c) \/ ServeAgree(c) \/ ServeGet2fa(c)
  \/ ServeHasFactor(c) \/ ServeTooMany(c) \/ ServeWrong(c) \/ ServeRight(c) \/ ServePreUpdate(c)
  \/ ServeUpdate(c) \/ ServeRespondents(c) \/ ServeResetRequest(c) \/ ServeReset(c)
  \/ ServeAuthorization(c) \/ ServeResume(c) \/ ServeServiceAups(c) \/ ServeRead(c) \/ ServeLogout(c)
Hear(c) ==
  \/ HearUnauthorized(c) \/ HearMe(c) \/ HearRefresh(c) \/ HearAgreed(c) \/ HearQrCode(c)
  \/ HearVerified(c) \/ HearContinue(c) \/ HearTooMany(c) \/ HearInvalid(c) \/ HearPreUpdated(c)
  \/ HearUpdated(c) \/ HearRespondents(c) \/ HearRequested(c) \/ HearReset(c)
  \/ HearAuthorization(c) \/ HearLoads(c) \/ HearUnknown(c) \/ HearRead(c)
CallStep(t) == \E c \in net : c.tab = t /\ (Serve(c) \/ Hear(c))
Next == \/ \E t \in Tabs : UserStep(t) \/ CallStep(t)
        \/ CallStep("nobody") \/ Later

(* Every call is answered and heard; users may stop, time may stand still. *)
Spec == Init /\ [][Next]_vars
FairSpec == Spec /\ \A t \in Tabs : WF_vars(CallStep(t))

-------------------------------------------------------------------------------
(* A tab shows a page of the application only after the steps of the login,*)
(* whatever the other tabs, late answers and cookies put back do.          *)
Gate == INSTANCE LoginSteps WITH done <- did, inside <- {t \in Tabs : tabs[t].page \in Pages}
StepsBeforePages == Gate!Spec

(* The secret the server checks codes against is one that the user's       *)
(* authenticator has (or the one on the lost device): two forms open with  *)
(* two QR codes never leave the user with a factor nobody scanned.         *)
NeverLockedOut == db.secret = None \/ db.secret \in device \union (IF scene.lost THEN {1} ELSE {})

(* The QR code on the screen is the one whose codes the server will take,  *)
(* when nothing is on its way, one tab is open and no answer has put back  *)
(* an older cookie.                                                        *)
QrCodeCounts ==
  \A t \in Tabs :
    tabs[t].qr # None /\ ~overtaken /\ net = {} /\ (\A u \in Tabs \ {t} : tabs[u].page = "closed")
      => jar.pending = tabs[t].qr

(* A user is suspended only for Limit guesses within a window that were not*)
(* followed by a right code.                                               *)
SuspensionIsEarned == [][db'.suspended /\ ~db.suspended => wrong >= Limit]_vars

(* A form that is busy or loading, or a page that is, comes to an end,     *)
(* except for a user who has not agreed in this session and is on /2fa:    *)
(* the page then reloads for ever.                                         *)
Waits(t) == tabs[t].page \in {"loading", "leaving"} \/ tabs[t].loading \/ tabs[t].busy
ReloadsForEver(t) == jar.user /\ ~jar.aup /\ tabs[t].at \in {"2fa", "proxy", "service-aup"}
WaitingEnds == \A t \in Tabs : Waits(t) ~> (~Waits(t) \/ ReloadsForEver(t))
===============================================================================
