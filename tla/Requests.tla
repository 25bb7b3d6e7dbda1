------------------------------- MODULE Requests -------------------------------
(***************************************************************************)
(* Requests to join a collaboration and requests for a new one: the guest  *)
(* who asks and follows the requests, the two people who decide on them,   *)
(* each on a page of their own, the handlers of the server and the         *)
(* messages by which it tells the other pages.  Pages are left only where  *)
(* the answer to an action of theirs leads elsewhere.                      *)
(***************************************************************************)
EXTENDS Naturals, FiniteSets

Reviewers == {"ann", "bob"}   \* administrators of the collaboration, managers of its organisation
Users == Reviewers \union {"guest"}
Requesters == {"guest", "jo"} \* jo has asked and is not looking
Ids == 1 .. 4                 \* join requests, in the order they are made
Plans == {"p1", "p2"}         \* the guest's requests for a new collaboration
Names == {"", "n1", "n2"}
Live == {"open", "approved", "denied"}
Statuses == Live \union {"none", "gone"}
Ops == {"open", "back", "filter", "accept", "decline", "delete", "name", "approve", "join", "leave"}
Lists == {"joins", "plans", "home"}
Asks == [by : Requesters, status : Statuses]
Bids == [name : Names, status : Statuses]

CONSTANT Scenes  \* what Init chooses from
(* The page each user is at, what they do there and how often; the join    *)
(* requests and the requests for a collaboration there are; whether the    *)
(* collaboration stopped taking join requests after the page for them was  *)
(* opened; whether a mail may fail.                                        *)
ASSUME SceneAssumption ==
  Scenes \subseteq [at : [Users -> Lists \union {"register", "away"}],
                    does : [Users -> SUBSET Ops], budget : [Users -> Nat],
                    joins : [Ids -> Asks], plans : [Plans -> Bids],
                    closed : BOOLEAN, mails : SUBSET BOOLEAN]
(* Reviewers look at a list, the guest at the home page or the page to ask *)
(* on; nobody is a member yet, so nothing was approved before; whoever     *)
(* asked before has one request.                                           *)
ASSUME PlaceAssumption ==
  \A s \in Scenes : /\ \A u \in Reviewers : s.at[u] \in {"joins", "plans", "away"}
                    /\ s.at["guest"] \in {"home", "register", "away"}
ASSUME AskedAssumption ==
  \A s \in Scenes :
    /\ \A i \in Ids : s.joins[i].status # "approved"
    /\ \A p \in Plans : s.plans[p].status # "approved"
    /\ \A i, j \in Ids : s.joins[i].status \in Live /\ s.joins[j].status \in Live
                         /\ s.joins[i].by = s.joins[j].by => i = j

VARIABLES
  scene,    \* the scene of this behaviour, which never changes
  db,       \* the requests, the members of the collaboration, the collaborations made
  net,      \* the requests on their way, those being handled and the answers not heard
  inbox,    \* users whose page has yet to receive a message
  page,     \* what each user sees
  doubt,    \* users whose page may show something old (history)
  stray,    \* decisions on what was decided, or that were left half done (history)
  overlaps  \* requesters two of whose requests were being made at once (history)

vars == <<scene, db, net, inbox, page, doubt, stray, overlaps>>
History == <<doubt, stray, overlaps>>

NoRows == [i \in Ids |-> [by |-> "jo", status |-> "none"]]
NoPlans == [p \in Plans |-> [name |-> "", status |-> "none"]]
(* What a page reads: those of the guest alone on the home page, who is    *)
(* also an administrator of each collaboration made.                       *)
View(at, d) ==
  [joins |-> IF at = "joins" THEN d.joins
             ELSE IF at = "home" THEN [i \in Ids |-> IF d.joins[i].by = "guest" THEN d.joins[i] ELSE NoRows[i]]
             ELSE NoRows,
   plans |-> IF at \in {"plans", "home"} THEN d.plans ELSE NoPlans,
   member |-> at \in {"home", "register"} /\ "guest" \in d.members,
   runs |-> IF at = "home" THEN d.made ELSE {}]
(* The options of the filter: "all" and the statuses there are.            *)
Options(view) ==
  {"all"} \union {view.joins[i].status : i \in Ids} \union {view.plans[p].status : p \in Plans}
NoView == [joins |-> NoRows, plans |-> NoPlans, member |-> FALSE, runs |-> {}]
NoForm == [plan |-> "p1", name |-> "", status |-> "none", exists |-> FALSE, initial |-> TRUE]
Blank(at) ==
  [at |-> at, view |-> NoView, loading |-> TRUE, selected |-> 0, dialog |-> "none", asked |-> 0,
   lost |-> FALSE, reason |-> FALSE, options |-> {"all"}, filter |-> "all", tab |-> "none",
   form |-> NoForm, submitted |-> FALSE, n |-> 0]
Has(rows) == \E x \in DOMAIN rows : rows[x].status \in Live
(* Where the home page brings the guest, and its tab.                      *)
HomeTab(view) ==
  IF view.member \/ view.runs # {} THEN "collaborations"
  ELSE IF Has(view.joins) THEN "joinrequests" ELSE "collaboration_requests"
HomeAt(view) ==
  IF Has(view.joins) \/ Has(view.plans) THEN "home"
  ELSE CASE view.member /\ view.runs = {} -> "collaboration"
         [] ~view.member /\ Cardinality(view.runs) = 1 -> "collaboration"
         [] ~view.member /\ view.runs = {} -> "welcome"
         [] OTHER -> "home"
Mounted(p, view) ==
  [p EXCEPT !.view = view, !.loading = FALSE, !.options = Options(view), !.filter = "all",
            !.selected = 0, !.reason = FALSE]
Home(p, view) == [Mounted(p, view) EXCEPT !.at = HomeAt(view), !.tab = HomeTab(view)]
Opened(at, d) ==
  IF at = "home" THEN Home(Blank(at), View(at, d)) ELSE Mounted(Blank(at), View(at, d))
Init ==
  /\ scene \in Scenes
  /\ db = [joins |-> scene.joins, plans |-> scene.plans, members |-> {}, made |-> {}]
  /\ page = [u \in Users |-> Opened(scene.at[u], db)]
  /\ net = {} /\ inbox = {} /\ doubt = {} /\ stray = {} /\ overlaps = {}

-------------------------------------------------------------------------------
(* Calls.                                                                  *)

Call(u, op) ==
  [by |-> u, op |-> op, phase |-> "sent", at |-> page[u].at, view |-> NoView, old |-> FALSE,
   back |-> FALSE, request |-> 0, asked |-> 0, lost |-> FALSE, plan |-> "p1", name |-> "",
   status |-> "none", before |-> {}, exists |-> FALSE,
   id |-> CHOOSE i \in 0 .. Cardinality(net) : \A c \in net : c.by # u \/ c.op # op \/ c.id # i]
Sends(c) == net' = net \union {c}
Becomes(c, d) == net' = (net \ {c}) \union {d}
Answers(c, phase) == Becomes(c, [c EXCEPT !.phase = phase, !.before = {}])
Same == UNCHANGED <<scene, db, inbox>> /\ UNCHANGED History
Fails(c) == Answers(c, "failed") /\ Same /\ UNCHANGED page

-------------------------------------------------------------------------------
(* The people.                                                             *)

May(u, op) ==
  /\ op \in scene.does[u] /\ page[u].n < scene.budget[u] /\ ~page[u].loading
Shows(u, p) == page' = [page EXCEPT ![u] = [p EXCEPT !.n = @ + 1]]
Only(u, p) == Shows(u, p) /\ UNCHANGED net /\ Same
Waits(u, p, c) == Shows(u, [p EXCEPT !.loading = TRUE, !.dialog = "none"]) /\ Sends(c) /\ Same

(* The request that is shown: it may have gone from under the page.        *)
Selected(p) == p.selected # 0 /\ p.view.joins[p.selected].status \in Live
Passes(p, status) == status \in Live /\ p.filter \in {"all", status}
Listed(u) == page[u].at \in Lists /\ ~Selected(page[u])
OpenJoinRequest(u) ==
  /\ May(u, "open") /\ page[u].at = "joins" /\ Listed(u)
  /\ \E i \in Ids :
       /\ Passes(page[u], page[u].view.joins[i].status) /\ Only(u, [page[u] EXCEPT !.selected = i])
CancelSideScreen(u) ==
  /\ May(u, "back") /\ Selected(page[u]) /\ page[u].dialog = "none"
  /\ Only(u, [page[u] EXCEPT !.selected = 0])
Filter(u) ==
  /\ May(u, "filter") /\ Listed(u)
  /\ \E o \in page[u].options \ {"none", "gone", page[u].filter} : Only(u, [page[u] EXCEPT !.filter = o])

SelectedIs(u, statuses) ==
  /\ page[u].at = "joins" /\ Selected(page[u])
  /\ page[u].view.joins[page[u].selected].status \in statuses /\ page[u].dialog = "none"
AcceptJoinRequest(u) ==
  /\ May(u, "accept") /\ SelectedIs(u, {"open"})
  /\ Waits(u, page[u], [Call(u, "accept") EXCEPT !.request = page[u].selected, !.asked = page[u].selected])
Confirm(u, op, about) ==
  Only(u, [page[u] EXCEPT !.dialog = op, !.asked = about, !.lost = FALSE])
AskDecline(u) == May(u, "decline") /\ SelectedIs(u, {"open"}) /\ Confirm(u, "decline", page[u].selected)
AskDelete(u) ==
  May(u, "delete") /\ SelectedIs(u, {"approved", "denied"}) /\ Confirm(u, "delete", page[u].selected)
(* The dialog is part of what shows the request.                           *)
InDialog(u) ==
  /\ page[u].dialog # "none" /\ ~page[u].loading /\ page[u].n < scene.budget[u]
  /\ page[u].at = "joins" => Selected(page[u])
GiveReason(u) ==
  /\ InDialog(u) /\ page[u].dialog \in {"decline", "deny", "join"} /\ ~page[u].reason /\ ~page[u].submitted
  /\ Only(u, [page[u] EXCEPT !.reason = TRUE])
CancelDialog(u) ==
  /\ InDialog(u) /\ ~page[u].submitted
  /\ Only(u, [page[u] EXCEPT !.dialog = "none", !.reason = (page[u].at = "register" /\ @)])
(* The action takes the request that is selected now.                      *)
ConfirmDialog(u) ==
  /\ InDialog(u) /\ page[u].at = "joins" /\ (page[u].dialog = "decline" => page[u].reason)
  /\ Waits(u, page[u], [Call(u, page[u].dialog) EXCEPT
       !.request = page[u].selected, !.asked = page[u].asked, !.lost = page[u].lost])

(* A request for a collaboration has a page of its own, which hears of     *)
(* nothing.                                                                *)
OpenCollaborationRequest(u) ==
  /\ May(u, "open") /\ page[u].at = "plans"
  /\ \E p \in Plans :
       /\ Passes(page[u], page[u].view.plans[p].status)
       /\ Shows(u, [Blank("plan") EXCEPT !.form.plan = p, !.n = page[u].n])
       /\ inbox' = inbox \ {u}
       /\ Sends([Call(u, "readPlan") EXCEPT !.at = "plan", !.plan = p])
       /\ UNCHANGED <<scene, db>> /\ UNCHANGED History
FormIs(u, statuses) ==
  page[u].at = "plan" /\ page[u].form.status \in statuses /\ page[u].dialog = "none"
(* What is said of the old name is forgotten, and the new one asked about  *)
(* when the field is left.                                                 *)
UpdateName(u) ==
  /\ May(u, "name") /\ FormIs(u, {"open"})
  /\ \E v \in Names \ {page[u].form.name} :
       /\ Shows(u, [page[u] EXCEPT !.form.name = v, !.form.exists = FALSE])
       /\ Sends([Call(u, "exists") EXCEPT !.plan = page[u].form.plan, !.name = v]) /\ Same
IsValid(form) == ~form.exists /\ form.name # ""
Approve(u) ==
  LET form == page[u].form
      p == [page[u] EXCEPT !.form.initial = FALSE] IN
  /\ May(u, "approve") /\ FormIs(u, {"open"}) /\ (form.initial \/ IsValid(form))
  /\ IF IsValid(form)
       THEN Waits(u, p, [Call(u, "approve") EXCEPT !.plan = form.plan, !.name = form.name])
       ELSE Only(u, p)
AskDeny(u) ==
  /\ May(u, "decline") /\ FormIs(u, {"open"})
  /\ Only(u, [page[u] EXCEPT !.dialog = "deny", !.form.initial = FALSE])
AskDeleteRequest(u) ==
  May(u, "delete") /\ FormIs(u, {"approved", "denied"}) /\ Only(u, [page[u] EXCEPT !.dialog = "drop"])
ConfirmRequest(u) ==
  /\ InDialog(u) /\ page[u].at = "plan" /\ (page[u].dialog = "deny" => page[u].reason)
  /\ Waits(u, page[u], [Call(u, page[u].dialog) EXCEPT !.plan = page[u].form.plan])

(* The guest.  Nothing stops a second click before the answer is there.    *)
JoinRequestAction(u) ==
  /\ May(u, "join") /\ page[u].at = "register" /\ page[u].dialog = "none" /\ ~page[u].view.member
  /\ Only(u, [page[u] EXCEPT !.dialog = "join"])
SubmitJoin(u) ==
  /\ InDialog(u) /\ page[u].dialog = "join" /\ page[u].reason /\ ~page[u].submitted
  /\ Shows(u, page[u]) /\ Sends(Call(u, "join")) /\ Same
(* (A second click would only ask again.)                                  *)
GotoHome(u) ==
  /\ May(u, "leave") /\ page[u].dialog = "join" /\ page[u].submitted
  /\ ~\E c \in net : c.by = u /\ c.op = "read"
  /\ Shows(u, page[u]) /\ Sends([Call(u, "read") EXCEPT !.at = "home"]) /\ Same

-------------------------------------------------------------------------------
(* The server.  A handler that finds its rows and one that commits are two *)
(* steps, between which others commit.                                     *)

Serves(c, op) == c.op = op /\ c.phase = "sent"
Goes(c, op) == c.op = op /\ c.phase \in {"begun", "told"}
Quiet == UNCHANGED <<scene, page>>
(* Who has subscribed to the topic of the collaboration, of the            *)
(* organisation: the home page by the tab that is active.                  *)
Listens(u, kind) ==
  \/ page[u].at = kind /\ (kind = "plans" => ~page[u].loading)
  \/ /\ page[u].at = "home"
     /\ page[u].tab = (IF kind = "joins" THEN "joinrequests" ELSE "collaboration_requests")
(* A variant that tells no home page.                                      *)
ToldReviewers(c, kind) == {u \in Users \ {c.by} : page[u].at = kind /\ (kind = "plans" => ~page[u].loading)}
Told(c, kind) == {u \in Users \ {c.by} : Listens(u, kind)}
IsRead(c, phase) == c.op = "read" /\ c.phase = phase
(* Answers that were given before a change those in told will ask about.   *)
Older(calls, told) ==
  {[c EXCEPT !.old = @ \/ (IsRead(c, "ok") /\ c.by \notin told)] : c \in calls}
(* Whether it is announced after the commit, to whoever listens.            *)
Commits(c, d, phase, announced, told) ==
  /\ db' = d /\ inbox' = inbox \union told
  /\ net' = Older(net \ {c}, told) \union {[c EXCEPT !.phase = phase, !.before = {}]}
  /\ doubt' = doubt \union
       {u \in Users \ told : /\ u \notin inbox /\ ~\E x \in net : x.by = u /\ IsRead(x, "sent")
                           /\ IF u = c.by THEN c.op = "join" /\ page[u].at = "home" ELSE ~announced}
  /\ Quiet
(* Tells before the commit, and without knowing whether there will be one. *)
Tells(c, kind) ==
  /\ inbox' = inbox \union Told(c, kind)
  /\ Answers(c, "told") /\ UNCHANGED db /\ Quiet /\ UNCHANGED History
Status(c) == IF c.request = 0 THEN db.plans[c.plan].status ELSE db.joins[c.request].status
There(c) == Status(c) \in Live
About(c) == IF c.request = 0 THEN <<"plan", c.plan>> ELSE <<"join", c.request>>
Decides(c) == c.op \in {"accept", "decline", "delete", "approve", "deny", "drop"}
Strays(c) ==
  stray' = IF Status(c) = "open" /\ ~\E x \in net \ {c} : Decides(x) /\ Goes(x, x.op) /\ About(x) = About(c)
           THEN stray ELSE stray \union {About(c)}
Puts(c, status) ==
  IF c.request = 0 THEN [db EXCEPT !.plans[c.plan].status = status]
  ELSE [db EXCEPT !.joins[c.request].status = status]

ServeRead(c) ==
  /\ Serves(c, "read")
  /\ net' = {[x EXCEPT !.old = @ \/ (IsRead(x, "ok") /\ x.by = c.by)] : x \in net \ {c}}
            \union {[c EXCEPT !.phase = "ok", !.view = View(c.at, db)]}
  /\ Same /\ Quiet
ServePlan(c) ==
  /\ Serves(c, "readPlan")
  /\ IF There(c) THEN /\ Becomes(c, [c EXCEPT !.phase = "ok", !.name = db.plans[c.plan].name,
                                             !.status = Status(c)])
                     /\ Same /\ Quiet
     ELSE Fails(c)
(* A variant that lets the database find out.                              *)
Taken(name) == name \in {m.name : m \in db.made}
ServeExists(c) ==
  /\ Serves(c, "exists")
  /\ Becomes(c, [c EXCEPT !.phase = "ok", !.exists = Taken(c.name)]) /\ Same /\ Quiet

(* A variant that does not look for earlier requests.                      *)
BeginJoinAnew(c) ==
  /\ Serves(c, "join")
  /\ IF scene.closed \/ c.by \in db.members THEN Fails(c)
     ELSE Becomes(c, [c EXCEPT !.phase = "begun"]) /\ Quiet /\ Same
(* An earlier request of the same user goes with the new one; the mail is  *)
(* sent between the commit and the message.                                *)
BeginJoin(c) ==
  /\ Serves(c, "join")
  /\ IF scene.closed \/ c.by \in db.members THEN Fails(c)
     ELSE /\ Becomes(c, [c EXCEPT !.phase = "begun",
                !.before = {i \in Ids : db.joins[i].by = c.by /\ db.joins[i].status \in Live}])
          /\ overlaps' = (IF \E x \in net : Goes(x, "join") /\ x.by = c.by
                          THEN overlaps \union {c.by} ELSE overlaps)
          /\ Quiet /\ UNCHANGED <<db, inbox, doubt, stray>>
Free == {i \in Ids : \A j \in Ids : j >= i => db.joins[j].status = "none"}
CommitJoin(c) ==
  /\ Goes(c, "join")
  /\ \E i \in Free : /\ \A j \in Free : i <= j
       /\ \E mailed \in scene.mails :
            Commits(c, [db EXCEPT !.joins = [j \in Ids |->
                          IF j = i THEN [by |-> c.by, status |-> "open"]
                          ELSE IF j \in c.before THEN [db.joins[j] EXCEPT !.status = "gone"]
                          ELSE db.joins[j]]],
                    IF mailed THEN "ok" ELSE "failed", mailed, IF mailed THEN Told(c, "joins") ELSE {})
       /\ stray' = (IF c.by \in db.members THEN stray \union {<<"join", i>>} ELSE stray)
  /\ UNCHANGED overlaps

Member(c) == db.joins[c.request].by \in db.members
BeginAccept(c) ==
  /\ Serves(c, "accept")
  /\ \/ /\ There(c) /\ ~Member(c) /\ TRUE \in scene.mails
        /\ Answers(c, "begun") /\ Same /\ Quiet
     \/ /\ ~There(c) \/ Member(c) \/ FALSE \in scene.mails
        /\ Fails(c)
(* A variant that forgets the membership.                                  *)
CommitAcceptOnly(c) ==
  /\ Goes(c, "accept")
  /\ IF ~There(c) \/ Member(c) THEN Fails(c)
     ELSE Commits(c, Puts(c, "approved"), "ok", TRUE, Told(c, "joins")) /\ Strays(c) /\ UNCHANGED overlaps
(* There is an index on the user and the collaboration of a membership,    *)
(* and nothing about the status of the request.                            *)
CommitAccept(c) ==
  /\ Goes(c, "accept")
  /\ IF ~There(c) \/ Member(c) THEN Fails(c)
     ELSE /\ Commits(c, [Puts(c, "approved") EXCEPT !.members = @ \union {db.joins[c.request].by}],
                     "ok", TRUE, Told(c, "joins"))
          /\ Strays(c) /\ UNCHANGED overlaps
Kind(c) == IF c.op \in {"decline", "delete"} THEN "joins" ELSE "plans"
BeginDeny(c) ==
  /\ Serves(c, "decline") \/ Serves(c, "deny")
  /\ \/ There(c) /\ TRUE \in scene.mails /\ Tells(c, Kind(c))
     \/ (~There(c) \/ FALSE \in scene.mails) /\ Fails(c)
CommitDeny(c) ==
  /\ Goes(c, "decline") \/ Goes(c, "deny")
  /\ IF There(c) THEN Commits(c, Puts(c, "denied"), "ok", FALSE, {}) /\ Strays(c) /\ UNCHANGED overlaps
     ELSE Fails(c)
BeginDelete(c) ==
  /\ Serves(c, "delete") \/ Serves(c, "drop")
  /\ IF There(c) /\ Status(c) # "open" THEN Tells(c, Kind(c)) ELSE Fails(c)
CommitDelete(c) ==
  /\ Goes(c, "delete") \/ Goes(c, "drop")
  /\ IF There(c) THEN Commits(c, Puts(c, "gone"), "ok", FALSE, {}) /\ UNCHANGED <<stray, overlaps>>
     ELSE Fails(c)
(* The collaboration is committed, and its requester made administrator,   *)
(* before the mail and the status of the request.  The message goes to the *)
(* organisation with the number of the collaboration: to nobody.           *)
BeginApprove(c) ==
  /\ Serves(c, "approve")
  /\ IF ~There(c) \/ Taken(c.name) THEN Fails(c)
     ELSE /\ Commits(c, [db EXCEPT !.made = @ \union {[plan |-> c.plan, name |-> c.name]}],
                     "begun", FALSE, {})
          /\ Strays(c) /\ UNCHANGED overlaps
CommitApprove(c) ==
  /\ Goes(c, "approve")
  /\ \/ /\ There(c) /\ TRUE \in scene.mails
        /\ Commits(c, Puts(c, "approved"), "ok", FALSE, {}) /\ Strays(c) /\ UNCHANGED overlaps
     \/ /\ ~There(c) \/ FALSE \in scene.mails
        /\ Answers(c, "failed") /\ stray' = stray \union {About(c)}
        /\ Quiet /\ UNCHANGED <<db, inbox, doubt, overlaps>>

-------------------------------------------------------------------------------
(* The browser.                                                            *)

Hears(c, op, phase) == c.op = op /\ c.phase = phase
Drops(c) == net' = net \ {c} /\ Same
Shown(c, p) == page' = [page EXCEPT ![c.by] = p] /\ Drops(c)
Receive(u) ==
  /\ u \in inbox /\ inbox' = inbox \ {u}
  /\ IF Listens(u, "joins") \/ Listens(u, "plans") THEN Sends(Call(u, "read")) ELSE UNCHANGED net
  /\ UNCHANGED <<scene, db, page>> /\ UNCHANGED History
(* A variant that keeps the place in the list instead of the request.      *)
RefreshedByPlace(p, view) ==
  CASE p.at = "register" -> Home(Blank("home"), view)
    [] p.at = "home" -> [Home(p, view) EXCEPT !.options = Options(p.view)]
    [] OTHER ->
         LET Place(rows, i) == Cardinality({j \in 1 .. i : rows[j].status \in Live})
             at == {i \in Ids : /\ view.joins[i].status \in Live /\ p.selected # 0
                                /\ Place(view.joins, i) = Place(p.view.joins, p.selected)} IN
         [p EXCEPT !.view = view, !.selected = IF at = {} THEN 0 ELSE CHOOSE i \in at : TRUE]
(* What was read after a change goes under what the page itself keeps: the *)
(* request that is selected, the dialog and the filter.  The tab of the    *)
(* home page counts the statuses before it is given the new requests.      *)
Refreshed(p, view) ==
  CASE p.at = "register" -> Home(Blank("home"), view)
    [] p.at = "home" -> [Home(p, view) EXCEPT !.options = Options(p.view)]
    [] OTHER -> [p EXCEPT !.view = view,
                   !.lost = @ \/ (p.dialog # "none" /\ Selected(p)
                                  /\ view.joins[p.selected].status \notin Live)]
HearRead(c) ==
  LET u == c.by
      p == page[u]
      q == IF c.back \/ (p.at = "plans" /\ p.loading) THEN Mounted(p, c.view) ELSE Refreshed(p, c.view) IN
  /\ Hears(c, "read", "ok") /\ net' = net \ {c}
  /\ IF p.at = c.at \/ (c.at = "home" /\ p.at = "register")
       THEN /\ page' = [page EXCEPT ![u] = [q EXCEPT !.n = p.n]]
            /\ doubt' = IF c.old THEN doubt \union {u} ELSE doubt \ {u}
       ELSE UNCHANGED <<page, doubt>>
  /\ UNCHANGED <<scene, db, inbox, stray, overlaps>>
HearDecision(c) ==
  /\ \E op \in {"accept", "decline", "delete"} : Hears(c, op, "ok")
  /\ net' = (net \ {c}) \union {[Call(c.by, "read") EXCEPT !.back = TRUE]}
  /\ Same /\ UNCHANGED page
(* The page of the organisation, with its list.                            *)
HearDecided(c) ==
  /\ \E op \in {"approve", "deny", "drop"} : Hears(c, op, "ok")
  /\ page' = [page EXCEPT ![c.by] = [Blank("plans") EXCEPT !.n = page[c.by].n]]
  /\ net' = (net \ {c}) \union {[Call(c.by, "read") EXCEPT !.at = "plans"]}
  /\ Same
(* Nothing catches a refusal: the page waits for ever.                     *)
HearUnhandled(c) ==
  /\ \E op \in {"accept", "decline", "delete", "approve", "deny", "drop", "join"} : Hears(c, op, "failed")
  /\ Drops(c) /\ UNCHANGED page
HearPlan(c) ==
  /\ Hears(c, "readPlan", "ok")
  /\ Shown(c, [page[c.by] EXCEPT !.loading = FALSE, !.form.name = c.name, !.form.status = c.status])
HearNoPlan(c) == Hears(c, "readPlan", "failed") /\ Shown(c, Blank("away"))
HearExists(c) ==
  /\ Hears(c, "exists", "ok")
  /\ IF page[c.by].at = "plan" /\ page[c.by].form.plan = c.plan
       THEN Shown(c, [page[c.by] EXCEPT !.form.exists = c.exists])
       ELSE Drops(c) /\ UNCHANGED page
HearJoined(c) ==
  /\ Hears(c, "join", "ok")
  /\ Shown(c, [page[c.by] EXCEPT !.submitted = (page[c.by].at = "register")])

-------------------------------------------------------------------------------
Person ==
  \E u \in Users :
    \/ OpenJoinRequest(u) \/ CancelSideScreen(u) \/ Filter(u) \/ AcceptJoinRequest(u)
    \/ AskDecline(u) \/ AskDelete(u) \/ GiveReason(u) \/ CancelDialog(u) \/ ConfirmDialog(u)
    \/ OpenCollaborationRequest(u) \/ UpdateName(u) \/ Approve(u) \/ AskDeny(u)
    \/ AskDeleteRequest(u) \/ ConfirmRequest(u)
    \/ JoinRequestAction(u) \/ SubmitJoin(u) \/ GotoHome(u)
Server ==
  \E c \in net :
    \/ ServeRead(c) \/ ServePlan(c) \/ ServeExists(c)
    \/ BeginJoin(c) \/ CommitJoin(c) \/ BeginAccept(c) \/ CommitAccept(c)
    \/ BeginDeny(c) \/ CommitDeny(c) \/ BeginDelete(c) \/ CommitDelete(c)
    \/ BeginApprove(c) \/ CommitApprove(c)
Browser ==
  \/ \E u \in Users : Receive(u)
  \/ \E c \in net :
       \/ HearRead(c) \/ HearDecision(c) \/ HearDecided(c) \/ HearUnhandled(c)
       \/ HearPlan(c) \/ HearNoPlan(c) \/ HearExists(c) \/ HearJoined(c)
Next == Person \/ Server \/ Browser
Spec == Init /\ [][Next]_vars

-------------------------------------------------------------------------------
(* Properties.                                                             *)

(* Once everything is answered and received, a list on a page is that of   *)
(* the database: the messages of the server bring every page up to date,   *)
(* save one that read before the commit it was told of, was told nothing,  *)
(* or heard answers out of order.                                          *)
Resting == net = {} /\ inbox = {}
PagesCatchUp ==
  Resting => \A u \in Users \ doubt :
    page[u].at \in Lists /\ ~page[u].loading /\ page[u].tab # "collaborations"
      => page[u].view = View(page[u].at, db)
(* Whoever asks again has one open request, the last; two at once only if  *)
(* two were sent and handled at once (JoinRequestDialog does not wait).    *)
OneOpenRequest ==
  \A r \in Requesters \ overlaps :
    Cardinality({i \in Ids : db.joins[i].by = r /\ db.joins[i].status = "open"}) <= 1
(* The status of a request agrees with what became of it: one that is open *)
(* or denied has made nobody a member and no collaboration, one that was   *)
(* approved has made one; unless it was decided again from a page that was *)
(* not told, was made beside another, or a mail failed half way; and no two*)
(* requests make collaborations of the same name.                          *)
DecisionsStand ==
  /\ \A m, k \in db.made : m.name = k.name => m = k
  /\ \A i \in Ids : LET r == db.joins[i] IN <<"join", i>> \notin stray =>
       /\ r.status \in {"open", "denied"} => r.by \notin db.members \/ r.by \in overlaps
       /\ r.status = "approved" => r.by \in db.members
  /\ \A p \in Plans : <<"plan", p>> \notin stray =>
       LET made == {m \in db.made : m.plan = p} IN
       /\ db.plans[p].status = "denied" => made = {}
       /\ db.plans[p].status = "open" /\ made # {} => \E c \in net : Goes(c, "approve") /\ c.plan = p
       /\ db.plans[p].status = "approved" => Cardinality(made) = 1
(* A dialog declines or deletes the request it was opened for, whatever    *)
(* changes on the page meanwhile, unless that request went from the page   *)
(* under the open dialog.                                                  *)
ActsOnWhatWasAsked ==
  \A c \in net : c.op \in {"accept", "decline", "delete"} /\ ~c.lost => c.request = c.asked
===============================================================================
