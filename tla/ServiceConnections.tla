-------------------------- MODULE ServiceConnections --------------------------
(***************************************************************************)
(* How a collaboration and a service are connected: the administrators of  *)
(* the collaboration, who connect, disconnect and ask on the page of its   *)
(* services; those of the service, who decide on what is asked (on a page  *)
(* of the service, or by the link of a mail) and disconnect; the handlers  *)
(* of the server and the messages that tell the other pages.               *)
(***************************************************************************)
EXTENDS Naturals, FiniteSets

Owners == {"ann", "bob"}    \* administrators of collaboration c1
Keepers == {"sam", "sue"}   \* administrators of service s1
Users == Owners \union Keepers
Pairs == {<<"c1", "s1">>, <<"c1", "s2">>, <<"c2", "s1">>}
NoPair == <<"none", "none">>
Ids == 1 .. 3               \* requests, in the order they are made
Requests == [pair : Pairs, member : BOOLEAN, status : {"none", "open", "gone"}]
Places == {"services", "requests", "collaborations", "mail"}
Ops == {"link", "unlink", "ask", "resend", "remove", "open", "back", "approve", "deny", "check",
        "one", "selected", "leave"}

CONSTANT Scenes  \* what Init chooses from
(* The page each user is at, what they do there and how often; what is     *)
(* connected and asked for already; the services that may be connected     *)
(* without asking and those that have a policy; whether a mail may fail.   *)
ASSUME SceneAssumption ==
  Scenes \subseteq [at : [Users -> Places \union {"away"}], does : [Users -> SUBSET Ops],
                    budget : [Users -> Nat], linked : SUBSET Pairs, reqs : [Ids -> Requests],
                    automatic : SUBSET {"s1", "s2"}, policy : SUBSET {"s1", "s2"},
                    mails : SUBSET BOOLEAN]
(* A mail is about a request that was made.                                *)
ASSUME MailAssumption ==
  \A s \in Scenes : (\E u \in Users : s.at[u] = "mail") => s.reqs[1].status # "none"
(* What was asked before: one request for a pair, neither connected nor of *)
(* a service that anyone may connect without asking.                       *)
ASSUME RequestAssumption ==
  \A s \in Scenes, i \in Ids : s.reqs[i].status = "open" =>
    /\ s.reqs[i].pair \notin s.linked /\ s.reqs[i].pair[2] \notin s.automatic
    /\ \A j \in Ids : s.reqs[j].status = "open" /\ s.reqs[j].pair = s.reqs[i].pair => j = i

VARIABLES
  scene,    \* the scene of this behaviour, which never changes
  db,       \* the rows that connect a pair, and the requests
  net,      \* the calls on their way, those being handled and the answers not heard
  inbox,    \* users whose page has yet to receive a message
  page,     \* what each user sees
  doubt,    \* users whose page may show something old (history)
  late,     \* users whose page may show an offer made from an older reading (history)
  stray,    \* pairs left half decided, or asked for when connected (history)
  overlaps  \* pairs two handlers worked on at once (history)

vars == <<scene, db, net, inbox, page, doubt, late, stray, overlaps>>
History == <<doubt, late, stray, overlaps>>

Scope(at) == {p \in Pairs : IF at = "services" THEN p[1] = "c1" ELSE p[2] = "s1"}
NoRequest == [pair |-> <<"c1", "s1">>, member |-> FALSE, status |-> "none"]
Open(r) == r.status = "open"
View(at, d) ==
  [linked |-> {p \in Scope(at) : d.rows[p] > 0},
   reqs |-> [i \in Ids |-> IF Open(d.reqs[i]) /\ d.reqs[i].pair \in Scope(at) THEN d.reqs[i] ELSE NoRequest]]
NoView == [linked |-> {}, reqs |-> [i \in Ids |-> NoRequest]]
Requested(view) == {view.reqs[i].pair : i \in {j \in Ids : Open(view.reqs[j])}}
(* What the page offers besides: made from the list of all services and    *)
(* the collaboration as the page knows it at that time.                    *)
OfferUnlinked(view) == Scope("services") \ view.linked
Offer(view) == Scope("services") \ (view.linked \union Requested(view))
Opened(at, d) ==
  LET view == IF at = "away" THEN NoView ELSE View(at, d) IN
  [at |-> at, view |-> view, offered |-> IF at = "services" THEN Offer(view) ELSE {},
   loading |-> FALSE, dialog |-> "none", pair |-> NoPair, request |-> 0, policy |-> FALSE,
   form |-> NoPair, message |-> FALSE, selected |-> IF at = "mail" THEN 1 ELSE 0, checked |-> {}, n |-> 0]
Init ==
  /\ scene \in Scenes
  /\ db = [rows |-> [p \in Pairs |-> IF p \in scene.linked THEN 1 ELSE 0], reqs |-> scene.reqs]
  /\ page = [u \in Users |-> Opened(scene.at[u], db)]
  /\ net = {} /\ inbox = {} /\ doubt = {} /\ late = {} /\ stray = {} /\ overlaps = {}

-------------------------------------------------------------------------------
(* Calls.                                                                  *)

Call(u, op) ==
  [by |-> u, op |-> op, phase |-> "sent", pair |-> NoPair, request |-> 0, pairs |-> {},
   seen |-> FALSE, failed |-> FALSE, old |-> FALSE, back |-> FALSE, view |-> NoView,
   id |-> CHOOSE i \in 0 .. Cardinality(net) : \A c \in net : c.by # u \/ c.op # op \/ c.id # i]
Sends(c) == net' = net \union {c}
Becomes(c, d) == net' = (net \ {c}) \union {d}
Same == UNCHANGED <<scene, db, inbox>> /\ UNCHANGED History
Quiet == UNCHANGED <<scene, page>>
Fails(c) == Becomes(c, [c EXCEPT !.phase = "failed"]) /\ Same /\ UNCHANGED page

-------------------------------------------------------------------------------
(* The people.                                                             *)

May(u, op) ==
  op \in scene.does[u] /\ page[u].n < scene.budget[u] /\ ~page[u].loading
Shows(u, p) == page' = [page EXCEPT ![u] = [p EXCEPT !.n = @ + 1]]
Only(u, p) == Shows(u, p) /\ UNCHANGED net /\ Same
Waits(u, p, c) ==
  Shows(u, [p EXCEPT !.loading = TRUE, !.dialog = "none", !.policy = FALSE]) /\ Sends(c) /\ Same
Shown(p) == p.selected # 0 /\ Open(p.view.reqs[p.selected])
(* The list of services, with no form or request over it and no dialog.    *)
AtList(u, at) ==
  page[u].at = at /\ page[u].form = NoPair /\ ~Shown(page[u]) /\ page[u].dialog = "none"
Confirm(u, op, pair, i) ==
  Only(u, [page[u] EXCEPT !.dialog = op, !.pair = pair, !.request = i, !.policy = FALSE])

UnlinkService(u) ==
  /\ May(u, "unlink") /\ AtList(u, "services")
  /\ \E p \in page[u].view.linked : Confirm(u, "unlink", p, 0)
LinkService(u) ==
  /\ May(u, "link") /\ AtList(u, "services")
  /\ \E p \in page[u].offered : p[2] \in scene.automatic /\ Confirm(u, "link", p, 0)
RequestConnection(u) ==
  /\ May(u, "ask") /\ AtList(u, "services")
  /\ \E p \in page[u].offered : p[2] \notin scene.automatic /\ Only(u, [page[u] EXCEPT !.form = p])
(* Those that members made can be opened, the others sent again or removed.*)
Asked(u, member) == {i \in Ids : Open(page[u].view.reqs[i]) /\ page[u].view.reqs[i].member = member}
ResendServiceConnectionRequest(u) ==
  /\ May(u, "resend") /\ AtList(u, "services")
  /\ \E i \in Asked(u, FALSE) : Confirm(u, "resend", page[u].view.reqs[i].pair, i)
RemoveServiceConnectionRequest(u) ==
  /\ May(u, "remove") /\ AtList(u, "services")
  /\ \E i \in Asked(u, FALSE) : Confirm(u, "remove", page[u].view.reqs[i].pair, i)
OpenServiceConnectionRequest(u) ==
  /\ May(u, "open") /\ (AtList(u, "services") \/ AtList(u, "requests"))
  /\ \E i \in Asked(u, TRUE) \union (IF page[u].at = "services" THEN {} ELSE Asked(u, FALSE)) :
       Only(u, [page[u] EXCEPT !.selected = i])

(* The form that asks for a connection.  Going back forgets it, and the    *)
(* request that is shown.                                                  *)
WriteMessage(u) ==
  /\ May(u, "ask") /\ page[u].form # NoPair /\ ~page[u].message
  /\ Only(u, [page[u] EXCEPT !.message = TRUE])
AcceptPolicy(u) ==
  /\ \/ May(u, "ask") /\ page[u].form # NoPair /\ page[u].form[2] \in scene.policy
     \/ May(u, "link") /\ page[u].dialog = "link" /\ page[u].pair[2] \in scene.policy
  /\ Only(u, [page[u] EXCEPT !.policy = ~@])
Back(p) == [p EXCEPT !.form = NoPair, !.selected = 0, !.message = FALSE, !.policy = FALSE]
CancelRequestConnectionService(u) ==
  /\ May(u, "back") /\ page[u].dialog = "none"
  /\ page[u].form # NoPair \/ (page[u].at \in {"services", "requests"} /\ Shown(page[u]))
  /\ Only(u, Back(page[u]))
Agreed(p, pair) == pair[2] \in scene.policy => p.policy
ServiceConnectionRequest(u) ==
  LET p == page[u] IN
  /\ May(u, "ask") /\ p.form # NoPair /\ p.message /\ Agreed(p, p.form)
  /\ Waits(u, p, [Call(u, "ask") EXCEPT !.pair = p.form])

(* The dialog stays when what it is about goes from the page: it holds on  *)
(* to the request or the service it was opened for.                        *)
Approve(u) ==
  /\ May(u, "approve") /\ page[u].at \in {"services", "requests"} /\ Shown(page[u])
  /\ page[u].dialog = "none"
  /\ Confirm(u, "approve", page[u].view.reqs[page[u].selected].pair, page[u].selected)
Deny(u) ==
  /\ May(u, "deny") /\ page[u].at \in {"services", "requests"} /\ Shown(page[u])
  /\ page[u].dialog = "none"
  /\ Confirm(u, "deny", page[u].view.reqs[page[u].selected].pair, page[u].selected)
(* On the page of the requests of a service the dialog is part of what     *)
(* shows the request.                                                      *)
InDialog(u) ==
  /\ page[u].dialog # "none" /\ ~page[u].loading /\ page[u].n < scene.budget[u]
  /\ page[u].at = "requests" => Shown(page[u])
CancelDialog(u) == InDialog(u) /\ Only(u, [page[u] EXCEPT !.dialog = "none"])
ConfirmDialog(u) ==
  LET p == page[u] IN
  /\ InDialog(u) /\ p.at \in {"services", "requests"} /\ (p.dialog = "link" => Agreed(p, p.pair))
  /\ Waits(u, p, [Call(u, p.dialog) EXCEPT !.pair = p.pair, !.request = p.request])

(* By the link of a mail.  The page does not wait: a second click is one.  *)
Linked(u, op) == May(u, op) /\ page[u].at = "mail" /\ page[u].dialog = "none"
Decides(u, op) ==
  /\ Shows(u, page[u]) /\ Same
  /\ Sends([Call(u, op) EXCEPT !.request = 1, !.pair = scene.reqs[1].pair])
AcceptByMail(u) == Linked(u, "approve") /\ Decides(u, "approve")
DeclineByMail(u) == Linked(u, "deny") /\ Only(u, [page[u] EXCEPT !.dialog = "deny"])
CancelByMail(u) == Linked(u, "leave") /\ Only(u, [page[u] EXCEPT !.dialog = "leave"])
DoDecline(u) == InDialog(u) /\ page[u].at = "mail" /\ page[u].dialog = "deny" /\ Decides(u, "deny")
GotoHome(u) ==
  /\ InDialog(u) /\ page[u].at = "mail" /\ page[u].dialog = "leave"
  /\ Only(u, [page[u] EXCEPT !.at = "away", !.dialog = "none"])

(* The collaborations of a service.  What is checked stays checked, and    *)
(* the dialog stays open, when they are removed.                           *)
OnCheck(u) ==
  /\ May(u, "check") /\ AtList(u, "collaborations")
  /\ \E p \in page[u].view.linked :
       Only(u, [page[u] EXCEPT !.checked = IF p \in @ THEN @ \ {p} ELSE @ \union {p}])
RemoveCollaboration(u) ==
  /\ AtList(u, "collaborations")
  /\ \/ \E p \in page[u].view.linked : May(u, "one") /\ Confirm(u, "one", p, 0)
     \/ May(u, "selected") /\ page[u].checked # {} /\ Confirm(u, "selected", NoPair, 0)
ConfirmRemoval(u) ==
  LET p == page[u]
      pairs == IF p.dialog = "one" THEN {p.pair} ELSE p.checked IN
  /\ InDialog(u) /\ p.at = "collaborations"
  /\ Shows(u, p) /\ Sends([Call(u, "drop") EXCEPT !.pairs = pairs]) /\ Same

-------------------------------------------------------------------------------
(* The server.  A handler that finds its rows and one that commits are two *)
(* steps, between which others commit.                                     *)

Serves(c, op) == c.op = op /\ c.phase = "sent"
Goes(c, phase) == c.phase = phase
Working(c) == c.phase \in {"begun", "linked", "mailed"}
(* Who has subscribed to the topic of the collaboration, or of the service.*)
Listens(u, pair) == page[u].at \in Places \ {"mail"} /\ pair \in Scope(page[u].at)
ToldOwners(c, pair) == {u \in Owners \ {c.by} : Listens(u, pair)}
Told(c, pair) == {u \in Users \ {c.by} : Listens(u, pair)}
IsRead(c, phase) == c.op = "read" /\ c.phase = phase
Reads(u) == u \in inbox \/ \E c \in net : c.by = u /\ IsRead(c, "sent")
(* A commit, announced after it, or before it and perhaps for nothing.     *)
Commits(c, d, answer, pair, announced) ==
  /\ db' = d /\ inbox' = IF announced THEN inbox \union Told(c, pair) ELSE inbox
  /\ net' = {[x EXCEPT !.old = @ \/ IsRead(x, "ok")] : x \in net \ {c}} \union {answer}
  /\ doubt' = doubt \union (IF announced THEN {c.by} ELSE {u \in Users : Listens(u, pair) /\ ~Reads(u)})
  /\ Quiet /\ UNCHANGED late
Tells(c, pair) == inbox' = inbox \union Told(c, pair)
Begins(c, pair, d) ==
  /\ Becomes(c, d)
  /\ overlaps' = IF \E x \in net \ {c} : Working(x) /\ x.pair = pair
                 THEN overlaps \union {pair} ELSE overlaps
  /\ Quiet /\ UNCHANGED <<db, doubt, late, stray>>

ServeRead(c) ==
  /\ Serves(c, "read")
  /\ net' = {[x EXCEPT !.old = @ \/ (IsRead(x, "ok") /\ x.by = c.by)] : x \in net \ {c}}
            \union {[c EXCEPT !.phase = "ok", !.view = View(page[c.by].at, db)]}
  /\ Same /\ Quiet

(* Appends the service to those it found: no row when it is one of them.   *)
Connected(c) == [db EXCEPT !.rows[c.pair] = IF c.seen THEN @ ELSE @ + 1]
BeginLink(c) ==
  /\ Serves(c, "link")
  /\ Begins(c, c.pair, [c EXCEPT !.phase = "begun", !.seen = db.rows[c.pair] > 0]) /\ UNCHANGED inbox
CommitLink(c) ==
  /\ c.op = "link" /\ Goes(c, "begun")
  /\ Commits(c, Connected(c), [c EXCEPT !.phase = "ok"], c.pair, TRUE)
  /\ UNCHANGED <<stray, overlaps>>
(* What is not connected cannot be removed; a pair that is connected twice *)
(* loses both rows, or the database driver counts them and the call fails. *)
Answered(c) == IF c.pairs # {} THEN c ELSE [c EXCEPT !.phase = IF c.failed THEN "failed" ELSE "ok"]
Removes(c, pair, d) ==
  \/ /\ db.rows[pair] > 0 /\ Commits(c, [db EXCEPT !.rows[pair] = 0], Answered(d), pair, TRUE)
     /\ UNCHANGED <<stray, overlaps>>
  \/ /\ db.rows[pair] # 1
     /\ Becomes(c, Answered([d EXCEPT !.failed = TRUE])) /\ Quiet /\ Same
ServeUnlink(c) == Serves(c, "unlink") /\ Removes(c, c.pair, c)
(* One call for each collaboration, which the page awaits together.        *)
ServeDrop(c) ==
  /\ Serves(c, "drop")
  /\ \E p \in c.pairs : Removes(c, p, [c EXCEPT !.pairs = @ \ {p}])

(* Refused when there is a request; nothing asks whether it is connected.  *)
BeginAsk(c) ==
  /\ Serves(c, "ask")
  /\ IF \E i \in Ids : Open(db.reqs[i]) /\ db.reqs[i].pair = c.pair THEN Fails(c)
     ELSE Begins(c, c.pair, [c EXCEPT !.phase = "begun"]) /\ UNCHANGED inbox
Free == {i \in Ids : \A j \in Ids : j >= i => db.reqs[j].status = "none"}
(* The mail is sent after the commit and the message.                      *)
CommitAsk(c) ==
  /\ c.op = "ask" /\ Goes(c, "begun")
  /\ \E i \in Free, mailed \in scene.mails :
       /\ \A j \in Free : i <= j
       /\ Commits(c, [db EXCEPT !.reqs[i] = [pair |-> c.pair, member |-> FALSE, status |-> "open"]],
                  [c EXCEPT !.phase = IF mailed THEN "ok" ELSE "failed"], c.pair, TRUE)
  /\ stray' = IF db.rows[c.pair] > 0 THEN stray \union {c.pair} ELSE stray
  /\ UNCHANGED overlaps

(* To approve is to connect, commit and tell; then to mail, to tell again, *)
(* and to delete the request.  To deny is the second half.                 *)
Found(c) == Open(db.reqs[c.request])
BeginApprove(c) ==
  /\ Serves(c, "approve")
  /\ IF Found(c) THEN /\ UNCHANGED inbox
                      /\ Begins(c, c.pair, [c EXCEPT !.phase = "begun", !.seen = db.rows[c.pair] > 0])
     ELSE Fails(c)
ConnectApproved(c) ==
  /\ c.op = "approve" /\ Goes(c, "begun")
  /\ Commits(c, Connected(c), [c EXCEPT !.phase = "linked"], c.pair, TRUE)
  /\ UNCHANGED <<stray, overlaps>>
MailApproved(c) ==
  /\ c.op = "approve" /\ Goes(c, "linked")
  /\ \/ /\ TRUE \in scene.mails /\ Tells(c, c.pair)
        /\ Becomes(c, [c EXCEPT !.phase = "mailed"]) /\ Quiet /\ UNCHANGED db /\ UNCHANGED History
     \/ /\ FALSE \in scene.mails /\ stray' = stray \union {c.pair}
        /\ Becomes(c, [c EXCEPT !.phase = "failed"])
        /\ Quiet /\ UNCHANGED <<db, inbox, doubt, late, overlaps>>
BeginDeny(c) ==
  /\ Serves(c, "deny")
  /\ \/ Found(c) /\ TRUE \in scene.mails /\ Tells(c, c.pair) /\ Begins(c, c.pair, [c EXCEPT !.phase = "mailed"])
     \/ (~Found(c) \/ FALSE \in scene.mails) /\ Fails(c)
BeginRemove(c) ==
  /\ Serves(c, "remove")
  /\ IF Found(c) THEN Tells(c, c.pair) /\ Begins(c, c.pair, [c EXCEPT !.phase = "mailed"]) ELSE Fails(c)
CommitDenied(c) ==
  /\ c.op \in {"approve", "deny", "remove"} /\ Goes(c, "mailed")
  /\ Commits(c, IF c.op = "approve" THEN db ELSE [db EXCEPT !.reqs[c.request].status = "gone"],
             [c EXCEPT !.phase = "ok"], c.pair, FALSE)
  /\ UNCHANGED <<stray, overlaps>>
CommitGone(c) ==
  /\ c.op \in {"approve", "deny", "remove"} /\ Goes(c, "mailed")
  /\ Commits(c, [db EXCEPT !.reqs[c.request].status = "gone"], [c EXCEPT !.phase = "ok"], c.pair, FALSE)
  /\ UNCHANGED <<stray, overlaps>>
ServeResend(c) ==
  /\ Serves(c, "resend")
  /\ \/ /\ Found(c) /\ TRUE \in scene.mails
        /\ Becomes(c, [c EXCEPT !.phase = "ok"]) /\ Same /\ Quiet
     \/ (~Found(c) \/ FALSE \in scene.mails) /\ Fails(c)

-------------------------------------------------------------------------------
(* The browser.                                                            *)

Hears(c, ops, phase) == c.op \in ops /\ c.phase = phase
(* The page of the collaboration reads it again at once; the list of its   *)
(* services in it waits a second ("sent") and asks for all services ("ok").*)
Receive(u) ==
  /\ u \in inbox /\ inbox' = inbox \ {u}
  /\ net' = net \union {Call(u, "read")} \union (IF page[u].at = "services" THEN {Call(u, "offer")} ELSE {})
  /\ UNCHANGED <<scene, db, page>> /\ UNCHANGED History
(* The list asks with the collaboration it has then, and makes its offer   *)
(* of that when all services come, whatever was read meanwhile.            *)
AskServices(c) ==
  /\ Hears(c, {"offer"}, "sent")
  /\ Becomes(c, [c EXCEPT !.phase = "ok", !.view = page[c.by].view])
  /\ Same /\ UNCHANGED page
Waiting(u) == \E c \in net : c.by = u /\ Hears(c, {"offer"}, "sent")
(* After an operation of its own the list asks at once, and once more when *)
(* that was a decision.                                                    *)
HearRead(c) ==
  LET u == c.by
      p == [page[u] EXCEPT !.view = c.view]
      asks == page[u].at = "services" /\ c.back
      offer == [Call(u, "offer") EXCEPT !.phase = "ok", !.view = c.view] IN
  /\ Hears(c, {"read"}, "ok")
  /\ page' = [page EXCEPT ![u] =
       IF c.back /\ p.at = "requests" THEN [p EXCEPT !.loading = FALSE, !.selected = 0] ELSE p]
  /\ net' = {[x EXCEPT !.old = @ \/ (x.by = u /\ Hears(x, {"offer"}, "ok"))] : x \in net \ {c}}
            \union (IF asks THEN {offer, [offer EXCEPT !.seen = c.seen]} ELSE {})
  /\ doubt' = IF c.old THEN doubt \union {u} ELSE doubt \ {u}
  /\ late' = IF page[u].at = "services" /\ ~asks /\ ~Waiting(u) THEN late \union {u} ELSE late
  /\ UNCHANGED <<scene, db, inbox, stray, overlaps>>
HearServices(c) ==
  /\ Hears(c, {"offer"}, "ok") /\ net' = net \ {c}
  /\ page' = [page EXCEPT ![c.by].offered = Offer(c.view), ![c.by].loading = FALSE]
  /\ late' = IF c.old THEN late \union {c.by} ELSE late \ {c.by}
  /\ UNCHANGED <<scene, db, inbox, doubt, stray, overlaps>>
HearDone(c) ==
  /\ \/ /\ Hears(c, {"link", "unlink", "resend", "remove"}, "ok") /\ UNCHANGED page
     \/ /\ Hears(c, {"ask"}, "ok") /\ page' = [page EXCEPT ![c.by] = Back(@)]
     \/ /\ Hears(c, {"approve", "deny"}, "ok") /\ page[c.by].at # "mail" /\ UNCHANGED page
     \/ /\ Hears(c, {"drop"}, "ok") /\ UNCHANGED page
  /\ Becomes(c, [Call(c.by, "read") EXCEPT !.back = TRUE, !.seen = c.op \in {"approve", "deny"}]) /\ Same
HearByMail(c) ==
  /\ Hears(c, {"approve", "deny"}, "ok") \/ Hears(c, {"approve", "deny"}, "failed")
  /\ page[c.by].at \in {"mail", "away"}
  /\ page' = [page EXCEPT ![c.by].at = "away", ![c.by].dialog = "none"]
  /\ net' = net \ {c} /\ Same
(* Nothing catches a refusal: the page waits until it is told something.   *)
HearUnhandled(c) ==
  /\ c.phase = "failed" /\ page[c.by].at \in Places \ {"mail"}
  /\ net' = net \ {c} /\ Same /\ UNCHANGED page

-------------------------------------------------------------------------------
Person ==
  \E u \in Users :
    \/ UnlinkService(u) \/ LinkService(u) \/ RequestConnection(u) \/ ResendServiceConnectionRequest(u)
    \/ RemoveServiceConnectionRequest(u) \/ OpenServiceConnectionRequest(u) \/ WriteMessage(u)
    \/ AcceptPolicy(u) \/ CancelRequestConnectionService(u) \/ ServiceConnectionRequest(u)
    \/ Approve(u) \/ Deny(u) \/ CancelDialog(u) \/ ConfirmDialog(u)
    \/ AcceptByMail(u) \/ DeclineByMail(u) \/ CancelByMail(u) \/ DoDecline(u) \/ GotoHome(u)
    \/ OnCheck(u) \/ RemoveCollaboration(u) \/ ConfirmRemoval(u)
Server ==
  \E c \in net :
    \/ ServeRead(c) \/ BeginLink(c) \/ CommitLink(c) \/ ServeUnlink(c) \/ ServeDrop(c)
    \/ BeginAsk(c) \/ CommitAsk(c) \/ BeginApprove(c) \/ ConnectApproved(c) \/ MailApproved(c)
    \/ BeginDeny(c) \/ BeginRemove(c) \/ CommitGone(c) \/ ServeResend(c)
Browser ==
  \/ \E u \in Users : Receive(u)
  \/ \E c \in net : HearRead(c) \/ AskServices(c) \/ HearServices(c) \/ HearDone(c) \/ HearByMail(c) \/ HearUnhandled(c)
Next == Person \/ Server \/ Browser
Spec == Init /\ [][Next]_vars

-------------------------------------------------------------------------------
(* Properties.                                                             *)

(* Once a page has heard everything, each service is on it once: in use,   *)
(* asked for or on offer.  The offer is made apart from the reading of the *)
(* collaboration, from the one the page had when it asked for all services,*)
(* and that is the last, save when a reading took more than the second the *)
(* page waits (UsedServices.jsx:91) or came while all services were asked  *)
(* for, and no later list has come since.                                  *)
Rests(u) == u \notin inbox /\ \A c \in net : c.by # u
ListedOnce ==
  \A u \in Users \ late :
    LET p == page[u] IN
    p.at = "services" /\ Rests(u) /\ ~p.loading
      => /\ p.offered \intersect (p.view.linked \union Requested(p.view)) = {}
         /\ p.offered \union p.view.linked \union Requested(p.view) = Scope("services")
(* Once everything is answered and received, every page shows what the     *)
(* database holds: the messages bring it up to date, save one that read    *)
(* before the commit it was told of or whose own call was refused half way.*)
PagesCatchUp ==
  net = {} /\ inbox = {} =>
    \A u \in Users \ doubt :
      page[u].at \in Places \ {"mail"} => page[u].view = View(page[u].at, db)
(* A service is connected or asked for, not both, once nobody works on it: *)
(* to approve takes the request away, and nobody asks for what the page    *)
(* shows as connected; save when a mail failed half way, or when it was    *)
(* asked for from a page that had not heard, or beside another handler.    *)
(* Without another handler there is one row of it and one request.         *)
Asks(p) == {i \in Ids : Open(db.reqs[i]) /\ db.reqs[i].pair = p}
AskedOrConnected ==
  /\ \A p \in Pairs \ overlaps : db.rows[p] <= 1 /\ Cardinality(Asks(p)) <= 1
  /\ \A p \in Pairs \ (stray \union overlaps) :
    db.rows[p] > 0 /\ Asks(p) # {}
      => \E c \in net : c.pair = p /\ Working(c)
===============================================================================
