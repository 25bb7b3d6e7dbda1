------------------------ MODULE ServiceConnectionsProofs ------------------------
(***************************************************************************)
(* Connections of collaborations and services for any scene: pages catch   *)
(* up with the database, offer what is neither connected nor asked for, and*)
(* a connection takes its request away.                                    *)
(***************************************************************************)
EXTENDS ServiceConnections, FiniteSetTheorems, TLAPS

Views == [linked : SUBSET Pairs, reqs : [Ids -> Requests]]
Databases == [rows : [Pairs -> Nat], reqs : [Ids -> Requests]]
PageStates ==
  [at : Places \union {"away"}, view : Views, offered : SUBSET Pairs, loading : BOOLEAN,
   dialog : Ops \union {"none"}, pair : Pairs \union {NoPair}, request : Ids \union {0},
   policy : BOOLEAN, form : Pairs \union {NoPair}, message : BOOLEAN, selected : Ids \union {0},
   checked : SUBSET Pairs, n : Nat]
Phases == {"sent", "begun", "linked", "mailed", "ok", "failed"}
(* Whatever number a call has: only that it is apart from others matters.  *)
CallOf(ids) ==
  [by : Users, op : Ops \union {"read", "offer", "drop"}, phase : Phases, pair : Pairs \union {NoPair},
   request : Ids \union {0}, pairs : SUBSET Pairs, seen : BOOLEAN, failed : BOOLEAN, old : BOOLEAN,
   back : BOOLEAN, view : Views, id : ids]
IsCall(c) == c \in CallOf({c.id})
AllCalls(cs) == \A c \in cs : IsCall(c)

TypeInv ==
  /\ scene \in Scenes /\ db \in Databases /\ page \in [Users -> PageStates] /\ AllCalls(net)
  /\ inbox \in SUBSET Users /\ doubt \in SUBSET Users

LEMMA SceneTypes ==
  ASSUME TypeInv
  PROVE  /\ scene.reqs \in [Ids -> Requests] /\ scene.automatic \in SUBSET {"s1", "s2"}
         /\ scene.at \in [Users -> Places \union {"away"}] /\ scene.does \in [Users -> SUBSET Ops]
BY SceneAssumption DEF TypeInv

LEMMA PageFields ==
  ASSUME TypeInv, NEW u \in Users
  PROVE  /\ page[u] \in PageStates /\ page[u].at \in Places \union {"away"} /\ page[u].view \in Views
         /\ page[u].view.linked \in SUBSET Pairs /\ page[u].view.reqs \in [Ids -> Requests]
         /\ page[u].offered \in SUBSET Pairs /\ page[u].dialog \in Ops \union {"none"}
         /\ page[u].pair \in Pairs \union {NoPair} /\ page[u].form \in Pairs \union {NoPair}
         /\ page[u].request \in Ids \union {0} /\ page[u].selected \in Ids \union {0}
         /\ page[u].checked \in SUBSET Pairs /\ page[u].n \in Nat /\ page[u].policy \in BOOLEAN
         /\ page[u].loading \in BOOLEAN /\ page[u].message \in BOOLEAN
BY DEF TypeInv, PageStates, Views

LEMMA CallFields ==
  ASSUME NEW c, IsCall(c)
  PROVE  /\ c.by \in Users /\ c.op \in Ops \union {"read", "offer", "drop"} /\ c.phase \in Phases
         /\ c.pair \in Pairs \union {NoPair} /\ c.request \in Ids \union {0} /\ c.pairs \in SUBSET Pairs
         /\ c.seen \in BOOLEAN /\ c.failed \in BOOLEAN /\ c.old \in BOOLEAN /\ c.back \in BOOLEAN
         /\ c.view \in Views
BY DEF IsCall, CallOf

LEMMA ViewType ==
  ASSUME NEW at, NEW d \in Databases
  PROVE  View(at, d) \in Views /\ NoView \in Views
<1>1. NoRequest \in Requests
  BY DEF NoRequest, Requests, Pairs
<1>2. d.reqs \in [Ids -> Requests]
  BY DEF Databases
<1>3. [i \in Ids |-> IF Open(d.reqs[i]) /\ d.reqs[i].pair \in Scope(at) THEN d.reqs[i] ELSE NoRequest]
        \in [Ids -> Requests]
  BY <1>1, <1>2
<1>4. {p \in Scope(at) : d.rows[p] > 0} \in SUBSET Pairs
  BY DEF Scope
<1> QED BY <1>1, <1>3, <1>4 DEF View, NoView, Views

(* A call as it is sent.                                                   *)
LEMMA CallType ==
  ASSUME NEW u \in Users, NEW op \in Ops \union {"read", "offer", "drop"}
  PROVE  /\ IsCall(Call(u, op))
         /\ Call(u, op).by = u /\ Call(u, op).op = op /\ Call(u, op).phase = "sent"
         /\ Call(u, op).pair = NoPair /\ Call(u, op).request = 0 /\ Call(u, op).view = NoView
         /\ Call(u, op).old = FALSE /\ Call(u, op).seen = FALSE
<1> DEFINE i == CHOOSE i \in 0 .. Cardinality(net) : \A c \in net : c.by # u \/ c.op # op \/ c.id # i
<1>1. NoView \in Views
  <2>1. NoRequest \in Requests
    BY DEF NoRequest, Requests, Pairs
  <2> QED BY <2>1 DEF NoView, Views
<1> HIDE DEF i
<1>2. Call(u, op) = [by |-> u, op |-> op, phase |-> "sent", pair |-> NoPair, request |-> 0, pairs |-> {},
        seen |-> FALSE, failed |-> FALSE, old |-> FALSE, back |-> FALSE, view |-> NoView, id |-> i]
  BY DEF Call, i
<1> QED BY <1>1, <1>2 DEF IsCall, CallOf, Phases

LEMMA ReadCallType ==
  \A u \in Users, op \in {"read", "offer"} :
    /\ IsCall(Call(u, op)) /\ Call(u, op).by = u /\ Call(u, op).op = op
    /\ Call(u, op).phase = "sent" /\ Call(u, op).view = NoView /\ ~Call(u, op).old
<1> SUFFICES ASSUME NEW u \in Users, NEW op \in {"read", "offer"}
             PROVE  /\ IsCall(Call(u, op)) /\ Call(u, op).by = u /\ Call(u, op).op = op
                    /\ Call(u, op).phase = "sent" /\ Call(u, op).view = NoView /\ ~Call(u, op).old
  OBVIOUS
<1>1. op \in Ops \union {"read", "offer", "drop"}
  OBVIOUS
<1> QED BY <1>1, CallType

LEMMA CallVariants ==
  ASSUME NEW u \in Users, NEW op \in Ops \union {"read", "offer", "drop"},
         NEW pair \in Pairs \union {NoPair}, NEW i \in Ids \union {0}, NEW pairs \in SUBSET Pairs
  PROVE  /\ IsCall([Call(u, op) EXCEPT !.pair = pair, !.request = i])
         /\ IsCall([Call(u, op) EXCEPT !.pair = pair]) /\ IsCall([Call(u, op) EXCEPT !.pairs = pairs])
         /\ IsCall([Call(u, op) EXCEPT !.back = TRUE])
<1> DEFINE c == Call(u, op)
<1>1. IsCall(c)
  BY CallType
<1> HIDE DEF c
<1> QED BY <1>1 DEF IsCall, CallOf, c

-------------------------------------------------------------------------------
(* What pages and calls refer to: a request keeps its pair once it is made,*)
(* connecting is for services that take anyone, asking for the others.     *)
Deciding == {"approve", "deny", "remove", "resend"}
Known(i, pair) ==
  i \in Ids /\ pair \in Pairs /\ db.reqs[i].status # "none" /\ db.reqs[i].pair = pair
Seen(view) == \A i \in Ids : Open(view.reqs[i]) => Known(i, view.reqs[i].pair)
Fits(p) ==
  /\ p.dialog \in Deciding /\ p.at \in {"services", "requests"} => Known(p.request, p.pair)
  /\ p.dialog # "ask" /\ (p.dialog \in {"link", "unlink", "one"} => p.pair \in Pairs)
  /\ p.dialog = "link" => p.pair[2] \in scene.automatic
  /\ p.form # NoPair => p.form \in Pairs /\ p.form[2] \notin scene.automatic
FitsCall(c) ==
  /\ c.op \in Deciding => Known(c.request, c.pair)
  /\ c.op \in {"link", "unlink", "ask"} => c.pair \in Pairs
  /\ c.op = "link" => c.pair[2] \in scene.automatic
  /\ c.op = "ask" => c.pair[2] \notin scene.automatic
RefersInv ==
  /\ \A u \in Users : Seen(page[u].view) /\ Fits(page[u])
  /\ \A c \in net : Seen(c.view) /\ FitsCall(c)
  /\ \A u \in Users : page[u].at = "mail" => Known(1, scene.reqs[1].pair)

(* What a person does to a page and the calls there are.                   *)
Turn(u, q) ==
  /\ q \in PageStates /\ q.view = page[u].view /\ q.offered = page[u].offered /\ Fits(q)
  /\ q.at = page[u].at \/ (page[u].at = "mail" /\ q.at = "away")
Fresh(u, c) ==
  /\ IsCall(c) /\ c.by = u /\ c.op \notin {"read", "offer"} /\ c.phase = "sent" /\ c.view = NoView
  /\ FitsCall(c)
Acted(u) ==
  /\ \E q : Turn(u, q) /\ page' = [page EXCEPT ![u] = q]
  /\ \E cs : net' = net \union cs /\ \A c \in cs : Fresh(u, c)
  /\ Same

LEMMA ShowsActs ==
  ASSUME TypeInv, NEW u \in Users, NEW q, Turn(u, q), Shows(u, q), Same,
         NEW cs, net' = net \union cs, \A c \in cs : Fresh(u, c)
  PROVE  Acted(u)
<1> DEFINE p == [q EXCEPT !.n = @ + 1]
<1>1. q \in PageStates /\ q.n + 1 \in Nat
  BY DEF Turn, PageStates
<1>2. /\ p \in PageStates /\ p.view = q.view /\ p.offered = q.offered /\ p.at = q.at /\ p.dialog = q.dialog
      /\ p.request = q.request /\ p.pair = q.pair /\ p.form = q.form
  BY <1>1 DEF PageStates
<1>3. page' = [page EXCEPT ![u] = p]
  BY DEF Shows
<1> HIDE DEF p
<1>4. Turn(u, p)
  BY <1>2 DEF Turn, Fits
<1> QED BY <1>3, <1>4 DEF Acted

LEMMA OnlyActs ==
  ASSUME TypeInv, NEW u \in Users, NEW q, Turn(u, q), Only(u, q) PROVE Acted(u)
<1> DEFINE none == {}
<1>1. net' = net \union none /\ \A c \in none : Fresh(u, c)
  BY DEF Only
<1>2. Shows(u, q) /\ Same
  BY DEF Only
<1> HIDE DEF none
<1> QED BY <1>1, <1>2, ShowsActs

LEMMA WaitsActs ==
  ASSUME TypeInv, NEW u \in Users, NEW q, Turn(u, q), NEW c, Fresh(u, c), Waits(u, q, c)
  PROVE  Acted(u)
<1> DEFINE p == [q EXCEPT !.loading = TRUE, !.dialog = "none", !.policy = FALSE]
<1>1. q \in PageStates
  BY DEF Turn
<1>2. /\ p \in PageStates /\ p.view = q.view /\ p.offered = q.offered /\ p.at = q.at
      /\ p.dialog = "none" /\ p.form = q.form
  BY <1>1 DEF PageStates
<1> DEFINE cs == {c}
<1>3. Shows(u, p) /\ net' = net \union cs /\ Same
  BY DEF Waits, Sends
<1> HIDE DEF p
<1>4. Turn(u, p)
  BY <1>2 DEF Turn, Fits, Deciding
<1>5. \A d \in cs : Fresh(u, d)
  OBVIOUS
<1> HIDE DEF cs
<1> QED BY <1>3, <1>4, <1>5, ShowsActs

LEMMA ConfirmActs ==
  ASSUME TypeInv, RefersInv, NEW u \in Users, NEW op \in Ops \ {"ask"}, NEW pair \in Pairs \union {NoPair},
         NEW i \in Ids \union {0}, op \in Deciding => Known(i, pair),
         op \in {"link", "unlink", "one"} => pair \in Pairs,
         op = "link" => pair[2] \in scene.automatic, Confirm(u, op, pair, i)
  PROVE  Acted(u)
<1> DEFINE q == [page[u] EXCEPT !.dialog = op, !.pair = pair, !.request = i, !.policy = FALSE]
<1>1. page[u] \in PageStates
  BY PageFields
<1>2. /\ q \in PageStates /\ q.view = page[u].view /\ q.offered = page[u].offered /\ q.at = page[u].at
      /\ q.dialog = op /\ q.pair = pair /\ q.request = i /\ q.form = page[u].form
  BY <1>1 DEF PageStates
<1>3. Only(u, q)
  BY DEF Confirm
<1> HIDE DEF q
<1>4. Turn(u, q)
  BY <1>2 DEF Turn, Fits, RefersInv
<1> QED BY <1>3, <1>4, OnlyActs

(* A change of a page that leaves alone what Turn is about.                *)
LEMMA AsideActs ==
  ASSUME TypeInv, RefersInv, NEW u \in Users, NEW q \in PageStates, Only(u, q),
         q.view = page[u].view, q.offered = page[u].offered, q.at = page[u].at, q.pair = page[u].pair,
         q.request = page[u].request, q.dialog = page[u].dialog \/ q.dialog = "none",
         q.form = page[u].form \/ q.form = NoPair
  PROVE  Acted(u)
<1>1. Fits(page[u])
  BY DEF RefersInv
<1>2. Turn(u, q)
  BY <1>1 DEF Turn, Fits, Deciding
<1> QED BY <1>2, OnlyActs

LEMMA FreshCall ==
  ASSUME TypeInv, NEW u \in Users, NEW op \in Ops \union {"drop"}, NEW pair \in Pairs \union {NoPair},
         NEW i \in Ids \union {0}, op \in Deciding => Known(i, pair),
         op \in {"link", "unlink", "ask"} => pair \in Pairs,
         op = "link" => pair[2] \in scene.automatic, op = "ask" => pair[2] \notin scene.automatic
  PROVE  /\ Fresh(u, [Call(u, op) EXCEPT !.pair = pair, !.request = i])
         /\ (op \notin Deciding => Fresh(u, [Call(u, op) EXCEPT !.pair = pair]))
<1> DEFINE c == Call(u, op)
           d == [c EXCEPT !.pair = pair, !.request = i]
           e == [c EXCEPT !.pair = pair]
<1>1. op \in Ops \union {"read", "offer", "drop"} /\ op \notin {"read", "offer"}
  BY DEF Ops
<1>2. /\ IsCall(c) /\ c.by = u /\ c.op = op /\ c.phase = "sent" /\ c.view = NoView
  BY <1>1, CallType
<1>3. IsCall(d) /\ IsCall(e)
  BY <1>1, CallVariants
<1>4. /\ d.by = u /\ d.op = op /\ d.phase = "sent" /\ d.view = NoView /\ d.pair = pair /\ d.request = i
      /\ e.by = u /\ e.op = op /\ e.phase = "sent" /\ e.view = NoView /\ e.pair = pair
  <2> HIDE DEF c
  <2> QED BY <1>2 DEF IsCall, CallOf
<1> HIDE DEF c, d, e
<1>5. Fresh(u, d) /\ (op \notin Deciding => Fresh(u, e))
  BY <1>1, <1>3, <1>4 DEF Fresh, FitsCall
<1> QED BY <1>5 DEF c, d, e

LEMMA PersonActs ==
  ASSUME TypeInv, RefersInv, NEW u \in Users,
         \/ UnlinkService(u) \/ LinkService(u) \/ RequestConnection(u) \/ ResendServiceConnectionRequest(u)
         \/ RemoveServiceConnectionRequest(u) \/ OpenServiceConnectionRequest(u) \/ WriteMessage(u)
         \/ AcceptPolicy(u) \/ CancelRequestConnectionService(u) \/ ServiceConnectionRequest(u)
         \/ Approve(u) \/ Deny(u) \/ CancelDialog(u) \/ ConfirmDialog(u)
         \/ AcceptByMail(u) \/ DeclineByMail(u) \/ CancelByMail(u) \/ DoDecline(u) \/ GotoHome(u)
         \/ OnCheck(u) \/ RemoveCollaboration(u) \/ ConfirmRemoval(u)
  PROVE  Acted(u)
<1> DEFINE p == page[u]
<1>1. /\ p \in PageStates /\ p.view.linked \in SUBSET Pairs /\ p.view.reqs \in [Ids -> Requests]
      /\ p.offered \in SUBSET Pairs /\ p.pair \in Pairs \union {NoPair} /\ p.form \in Pairs \union {NoPair}
      /\ p.dialog \in Ops \union {"none"} /\ p.request \in Ids \union {0} /\ p.selected \in Ids \union {0}
      /\ p.checked \in SUBSET Pairs /\ p.policy \in BOOLEAN
  BY PageFields
<1>2. /\ Fits(p) /\ Seen(p.view) /\ (p.at = "mail" => Known(1, scene.reqs[1].pair))
  BY DEF RefersInv
<1>3. \A i \in Ids : Open(p.view.reqs[i]) => Known(i, p.view.reqs[i].pair) /\ p.view.reqs[i].pair \in Pairs
  BY <1>1, <1>2 DEF Seen, Requests
<1>4. CASE UnlinkService(u)
  <2>1. PICK pair \in p.view.linked : Confirm(u, "unlink", pair, 0)
    BY <1>4 DEF UnlinkService
  <2> QED BY <1>1, <2>1, ConfirmActs DEF Ops, Deciding
<1>5. CASE LinkService(u)
  <2>1. PICK pair \in p.offered : pair[2] \in scene.automatic /\ Confirm(u, "link", pair, 0)
    BY <1>5 DEF LinkService
  <2> QED BY <1>1, <2>1, ConfirmActs DEF Ops, Deciding
<1>6. CASE RequestConnection(u)
  <2>1. PICK pair \in p.offered : pair[2] \notin scene.automatic /\ Only(u, [p EXCEPT !.form = pair])
    BY <1>6 DEF RequestConnection
  <2> DEFINE q == [p EXCEPT !.form = pair]
  <2>2. /\ q \in PageStates /\ q.view = p.view /\ q.offered = p.offered /\ q.at = p.at /\ q.form = pair
        /\ q.dialog = p.dialog /\ q.pair = p.pair /\ q.request = p.request
    BY <1>1, <2>1 DEF PageStates
  <2> HIDE DEF q
  <2>3. Turn(u, q)
    BY <1>1, <1>2, <2>1, <2>2 DEF Turn, Fits
  <2> QED BY <2>1, <2>3, OnlyActs DEF q
<1>7. CASE ResendServiceConnectionRequest(u) \/ RemoveServiceConnectionRequest(u)
  <2>1. PICK i \in Ids, op \in {"resend", "remove"} :
          Open(p.view.reqs[i]) /\ Confirm(u, op, p.view.reqs[i].pair, i)
    BY <1>7 DEF ResendServiceConnectionRequest, RemoveServiceConnectionRequest, Asked
  <2>2. op \in Ops \ {"ask"} /\ op \notin {"link", "unlink", "one"}
    BY <2>1 DEF Ops
  <2> QED BY <1>3, <2>1, <2>2, ConfirmActs
<1>8. CASE OpenServiceConnectionRequest(u)
  <2>1. PICK i \in Ids : Only(u, [p EXCEPT !.selected = i])
    BY <1>8 DEF OpenServiceConnectionRequest, Asked
  <2> DEFINE q == [p EXCEPT !.selected = i]
  <2>2. /\ q \in PageStates /\ q.view = p.view /\ q.offered = p.offered /\ q.at = p.at /\ q.form = p.form
        /\ q.dialog = p.dialog /\ q.pair = p.pair /\ q.request = p.request
    BY <1>1 DEF PageStates
  <2> HIDE DEF q
  <2> QED BY <2>1, <2>2, AsideActs DEF q
<1>9. CASE WriteMessage(u)
  <2> DEFINE q == [p EXCEPT !.message = TRUE]
  <2>1. /\ q \in PageStates /\ q.view = p.view /\ q.offered = p.offered /\ q.at = p.at /\ q.form = p.form
        /\ q.dialog = p.dialog /\ q.pair = p.pair /\ q.request = p.request /\ Only(u, q)
    BY <1>1, <1>9 DEF PageStates, WriteMessage
  <2> HIDE DEF q
  <2> QED BY <2>1, AsideActs
<1>10. CASE AcceptPolicy(u)
  <2> DEFINE policy == ~p.policy
             q == [p EXCEPT !.policy = policy]
  <2>1. Only(u, q)
    BY <1>10 DEF AcceptPolicy
  <2>2. /\ q \in PageStates /\ q.view = p.view /\ q.offered = p.offered /\ q.at = p.at /\ q.form = p.form
        /\ q.dialog = p.dialog /\ q.pair = p.pair /\ q.request = p.request
    <3>1. policy \in BOOLEAN
      OBVIOUS
    <3> HIDE DEF policy
    <3> QED BY <1>1, <3>1 DEF PageStates
  <2> HIDE DEF q
  <2> QED BY <2>1, <2>2, AsideActs
<1>11. CASE CancelRequestConnectionService(u)
  <2> DEFINE q == Back(p)
  <2>1. Only(u, q)
    BY <1>11 DEF CancelRequestConnectionService
  <2>2. /\ q \in PageStates /\ q.view = p.view /\ q.offered = p.offered /\ q.at = p.at /\ q.form = NoPair
        /\ q.dialog = p.dialog /\ q.pair = p.pair /\ q.request = p.request
    BY <1>1 DEF PageStates, Back
  <2> HIDE DEF q
  <2> QED BY <2>1, <2>2, AsideActs
<1>12. CASE ServiceConnectionRequest(u)
  <2> DEFINE c == [Call(u, "ask") EXCEPT !.pair = p.form]
  <2>1. p.form \in Pairs /\ p.form[2] \notin scene.automatic
    BY <1>2, <1>12 DEF ServiceConnectionRequest, Fits
  <2>2. Fresh(u, c)
    BY <2>1, FreshCall DEF Ops, Deciding
  <2>3. Waits(u, p, c)
    BY <1>12 DEF ServiceConnectionRequest
  <2> HIDE DEF c
  <2>4. Turn(u, p)
    BY <1>1, <1>2 DEF Turn
  <2> QED BY <2>2, <2>3, <2>4, WaitsActs
<1>13. CASE Approve(u) \/ Deny(u)
  <2>1. PICK op \in {"approve", "deny"} : Confirm(u, op, p.view.reqs[p.selected].pair, p.selected)
    BY <1>13 DEF Approve, Deny
  <2>2. p.selected \in Ids /\ Open(p.view.reqs[p.selected])
    BY <1>1, <1>13 DEF Approve, Deny, Shown
  <2>3. op \in Ops \ {"ask"} /\ op \notin {"link", "unlink", "one"}
    BY <2>1 DEF Ops
  <2>4. Known(p.selected, p.view.reqs[p.selected].pair) /\ p.view.reqs[p.selected].pair \in Pairs
    BY <1>3, <2>2
  <2> QED BY <2>1, <2>2, <2>3, <2>4, ConfirmActs
<1>14. CASE CancelDialog(u)
  <2> DEFINE q == [p EXCEPT !.dialog = "none"]
  <2>1. Only(u, q)
    BY <1>14 DEF CancelDialog
  <2>2. /\ q \in PageStates /\ q.view = p.view /\ q.offered = p.offered /\ q.at = p.at /\ q.form = p.form
        /\ q.dialog = "none" /\ q.pair = p.pair /\ q.request = p.request
    BY <1>1 DEF PageStates
  <2> HIDE DEF q
  <2> QED BY <2>1, <2>2, AsideActs
<1>15. CASE ConfirmDialog(u)
  <2> DEFINE c == [Call(u, p.dialog) EXCEPT !.pair = p.pair, !.request = p.request]
  <2>1. /\ Waits(u, p, c) /\ p.dialog # "none" /\ p.at \in {"services", "requests"}
    BY <1>15 DEF ConfirmDialog, InDialog
  <2>2. p.dialog # "ask"
    BY <1>2 DEF Fits
  <2>3. Fresh(u, c)
    BY <1>1, <1>2, <2>1, <2>2, FreshCall DEF Fits
  <2> HIDE DEF c
  <2>4. Turn(u, p)
    BY <1>1, <1>2 DEF Turn
  <2> QED BY <2>1, <2>3, <2>4, WaitsActs
<1>16. ASSUME NEW op \in {"approve", "deny"}, Decides(u, op), p.at = "mail" PROVE Acted(u)
  <2> DEFINE c == [Call(u, op) EXCEPT !.request = 1, !.pair = scene.reqs[1].pair]
             d == [Call(u, op) EXCEPT !.pair = scene.reqs[1].pair, !.request = 1]
             cs == {c}
  <2>1. Known(1, scene.reqs[1].pair) /\ scene.reqs[1].pair \in Pairs /\ 1 \in Ids /\ op \in Ops
    BY <1>2, <1>16 DEF Known, Ops
  <2>2. Fresh(u, d)
    BY <2>1, FreshCall
  <2>3. c = d
    BY CallType, <2>1 DEF IsCall, CallOf
  <2>4. Shows(u, p) /\ net' = net \union cs /\ Same
    BY <1>16 DEF Decides, Sends
  <2>5. \A x \in cs : Fresh(u, x)
    BY <2>2, <2>3
  <2>6. Turn(u, p)
    BY <1>1, <1>2 DEF Turn
  <2> HIDE DEF cs
  <2> QED BY <2>4, <2>5, <2>6, ShowsActs
<1>17. CASE AcceptByMail(u)
  BY <1>16, <1>17 DEF AcceptByMail, Linked
<1>18. CASE DoDecline(u)
  BY <1>16, <1>18 DEF DoDecline
<1>19. CASE DeclineByMail(u) \/ CancelByMail(u)
  <2>1. PICK op \in {"deny", "leave"} : p.at = "mail" /\ Only(u, [p EXCEPT !.dialog = op])
    BY <1>19 DEF DeclineByMail, CancelByMail, Linked
  <2> DEFINE q == [p EXCEPT !.dialog = op]
  <2>2. /\ q \in PageStates /\ q.view = p.view /\ q.offered = p.offered /\ q.at = "mail" /\ q.form = p.form
        /\ q.dialog = op
    BY <1>1, <2>1 DEF PageStates, Ops
  <2> HIDE DEF q
  <2>3. Turn(u, q)
    BY <1>2, <2>1, <2>2 DEF Turn, Fits
  <2> QED BY <2>1, <2>3, OnlyActs DEF q
<1>20. CASE GotoHome(u)
  <2> DEFINE q == [p EXCEPT !.at = "away", !.dialog = "none"]
  <2>1. Only(u, q) /\ p.at = "mail"
    BY <1>20 DEF GotoHome, InDialog
  <2>2. /\ q \in PageStates /\ q.view = p.view /\ q.offered = p.offered /\ q.at = "away" /\ q.form = p.form
        /\ q.dialog = "none"
    BY <1>1 DEF PageStates
  <2> HIDE DEF q
  <2>3. Turn(u, q)
    BY <1>2, <2>1, <2>2 DEF Turn, Fits, Deciding
  <2> QED BY <2>1, <2>3, OnlyActs
<1>21. CASE OnCheck(u)
  <2>1. PICK pair \in p.view.linked :
          Only(u, [p EXCEPT !.checked = IF pair \in @ THEN @ \ {pair} ELSE @ \union {pair}])
    BY <1>21 DEF OnCheck
  <2> DEFINE q == [p EXCEPT !.checked = IF pair \in @ THEN @ \ {pair} ELSE @ \union {pair}]
  <2>2. /\ q \in PageStates /\ q.view = p.view /\ q.offered = p.offered /\ q.at = p.at /\ q.form = p.form
        /\ q.dialog = p.dialog /\ q.pair = p.pair /\ q.request = p.request
    BY <1>1 DEF PageStates
  <2> HIDE DEF q
  <2> QED BY <2>1, <2>2, AsideActs DEF q
<1>22. CASE RemoveCollaboration(u)
  <2>1. CASE \E pair \in p.view.linked : Confirm(u, "one", pair, 0)
    BY <1>1, <2>1, ConfirmActs DEF Ops, Deciding
  <2>2. CASE Confirm(u, "selected", NoPair, 0)
    BY <2>2, ConfirmActs DEF Ops, Deciding
  <2> QED BY <1>22, <2>1, <2>2 DEF RemoveCollaboration
<1>23. CASE ConfirmRemoval(u)
  <2> DEFINE pairs == IF p.dialog = "one" THEN {p.pair} ELSE p.checked
             c == [Call(u, "drop") EXCEPT !.pairs = pairs]
             cs == {c}
  <2>1. Shows(u, p) /\ net' = net \union cs /\ Same
    BY <1>23 DEF ConfirmRemoval, Sends
  <2>2. pairs \in SUBSET Pairs
    BY <1>1, <1>2 DEF Fits
  <2>3. IsCall(c)
    <3> HIDE DEF pairs
    <3> QED BY <2>2, CallVariants DEF NoPair
  <2>4. c.by = u /\ c.op = "drop" /\ c.phase = "sent" /\ c.view = NoView
    <3> DEFINE e == Call(u, "drop")
    <3>0. \A op \in Ops \union {"read", "offer", "drop"} :
            /\ Call(u, op).by = u /\ Call(u, op).op = op /\ Call(u, op).phase = "sent"
            /\ Call(u, op).view = NoView /\ IsCall(Call(u, op))
      <4> TAKE op \in Ops \union {"read", "offer", "drop"}
      <4> QED BY CallType
    <3>1. /\ e.by = u /\ e.op = "drop" /\ e.phase = "sent" /\ e.view = NoView /\ IsCall(e)
      BY <3>0, Zenon
    <3> HIDE DEF pairs, e
    <3>2. c = [e EXCEPT !.pairs = pairs]
      BY DEF e
    <3> QED BY <3>1, <3>2 DEF IsCall, CallOf
  <2>5. \A x \in cs : Fresh(u, x)
    <3> HIDE DEF c
    <3> QED BY <2>3, <2>4 DEF Fresh, FitsCall, Deciding
  <2>6. Turn(u, p)
    BY <1>1, <1>2 DEF Turn
  <2> HIDE DEF cs
  <2> QED BY <2>1, <2>5, <2>6, ShowsActs
<1> QED BY <1>4, <1>5, <1>6, <1>7, <1>8, <1>9, <1>10, <1>11, <1>12, <1>13, <1>14, <1>15, <1>17, <1>18,
           <1>19, <1>20, <1>21, <1>22, <1>23

-------------------------------------------------------------------------------
(* What a handler does: it goes on, or it commits a change to one pair.    *)
Alike(c, d) ==
  /\ IsCall(d) /\ d.by = c.by /\ d.op = c.op /\ d.pair = c.pair /\ d.request = c.request
  /\ d.view = c.view
Moves(c, d) ==
  /\ net' = (net \ {c}) \union {d} /\ Alike(c, d)
  /\ UNCHANGED <<scene, db, page, doubt, late>> /\ inbox \subseteq inbox' /\ inbox' \in SUBSET Users
Touches(d, pair) ==
  /\ d \in Databases /\ \A at : pair \notin Scope(at) => View(at, d) = View(at, db)
  /\ \A i \in Ids : db.reqs[i].status # "none" =>
                      d.reqs[i].status # "none" /\ d.reqs[i].pair = db.reqs[i].pair
Commit(c, d, answer, pair, announced) ==
  Commits(c, d, answer, pair, announced) /\ Alike(c, answer) /\ Touches(d, pair)

LEMMA AlikeTypes ==
  ASSUME NEW c, IsCall(c), NEW phase \in Phases, NEW seen \in BOOLEAN
  PROVE  /\ Alike(c, [c EXCEPT !.phase = phase]) /\ Alike(c, [c EXCEPT !.phase = phase, !.seen = seen])
         /\ Alike(c, [c EXCEPT !.failed = TRUE])
         /\ \A pairs \in SUBSET Pairs :
              /\ Alike(c, [c EXCEPT !.pairs = pairs])
              /\ Alike(c, [c EXCEPT !.pairs = pairs, !.failed = TRUE])
BY DEF Alike, IsCall, CallOf

LEMMA FailedType ==
  ASSUME NEW c, IsCall(c)
  PROVE  /\ Alike(c, c) /\ Alike(c, [c EXCEPT !.failed = TRUE]) /\ [c EXCEPT !.failed = TRUE].phase = c.phase
         /\ \A pairs \in SUBSET Pairs :
              Alike(c, [c EXCEPT !.pairs = pairs]) /\ [c EXCEPT !.pairs = pairs].phase = c.phase
BY DEF Alike, IsCall, CallOf

LEMMA AnsweredType ==
  ASSUME NEW c, NEW d, Alike(c, d) PROVE Alike(c, Answered(d))
<1>1. IsCall(d)
  BY DEF Alike
<1>2. Alike(d, Answered(d))
  <2>1. CASE d.pairs # {}
    BY <1>1, <2>1 DEF Answered, Alike
  <2>2. CASE d.pairs = {}
    <3>1. \A phase \in Phases : Alike(d, [d EXCEPT !.phase = phase])
      BY <1>1, AlikeTypes
    <3>2. \E phase \in Phases : Answered(d) = [d EXCEPT !.phase = phase]
      BY <1>1, <2>2, CallFields DEF Answered, Phases
    <3> QED BY <3>1, <3>2
  <2> QED BY <2>1, <2>2
<1> QED BY <1>2 DEF Alike

LEMMA RowTouches ==
  ASSUME TypeInv, NEW pair \in Pairs, NEW n \in Nat
  PROVE  Touches([db EXCEPT !.rows[pair] = n], pair)
<1> DEFINE rows == [db.rows EXCEPT ![pair] = n]
           d == [db EXCEPT !.rows = rows]
<1>1. db.rows \in [Pairs -> Nat] /\ db.reqs \in [Ids -> Requests] /\ db \in Databases
  BY DEF TypeInv, Databases
<1>2. rows \in [Pairs -> Nat] /\ \A p \in Pairs \ {pair} : rows[p] = db.rows[p]
  BY <1>1
<1>3. d = [db EXCEPT !.rows[pair] = n]
  BY <1>1
<1> HIDE DEF rows
<1>4. d \in Databases /\ d.reqs = db.reqs /\ d.rows = rows
  BY <1>1, <1>2 DEF Databases
<1> HIDE DEF d
<1>5. ASSUME NEW at, pair \notin Scope(at) PROVE View(at, d) = View(at, db)
  <2>1. {p \in Scope(at) : d.rows[p] > 0} = {p \in Scope(at) : db.rows[p] > 0}
    BY <1>2, <1>4, <1>5 DEF Scope
  <2> QED BY <1>4, <2>1 DEF View
<1> QED BY <1>3, <1>4, <1>5 DEF Touches

LEMMA RequestTouches ==
  ASSUME TypeInv, NEW i \in Ids, NEW r \in Requests, r.status # "none",
         db.reqs[i].status = "none" \/ db.reqs[i].pair = r.pair
  PROVE  Touches([db EXCEPT !.reqs[i] = r], r.pair)
<1> DEFINE reqs == [db.reqs EXCEPT ![i] = r]
           d == [db EXCEPT !.reqs = reqs]
<1>1. db.rows \in [Pairs -> Nat] /\ db.reqs \in [Ids -> Requests] /\ db \in Databases
  BY DEF TypeInv, Databases
<1>2. reqs \in [Ids -> Requests] /\ reqs[i] = r /\ \A j \in Ids \ {i} : reqs[j] = db.reqs[j]
  BY <1>1
<1>3. d = [db EXCEPT !.reqs[i] = r]
  BY <1>1
<1> HIDE DEF reqs
<1>4. d \in Databases /\ d.rows = db.rows /\ d.reqs = reqs
  BY <1>1, <1>2 DEF Databases
<1> HIDE DEF d
<1>5. ASSUME NEW at, r.pair \notin Scope(at) PROVE View(at, d) = View(at, db)
  <2>1. \A j \in Ids : (IF Open(d.reqs[j]) /\ d.reqs[j].pair \in Scope(at) THEN d.reqs[j] ELSE NoRequest)
                     = (IF Open(db.reqs[j]) /\ db.reqs[j].pair \in Scope(at) THEN db.reqs[j] ELSE NoRequest)
    BY <1>2, <1>4, <1>5 DEF Open
  <2> QED BY <1>4, <2>1 DEF View
<1>6. \A j \in Ids : db.reqs[j].status # "none" =>
                       d.reqs[j].status # "none" /\ d.reqs[j].pair = db.reqs[j].pair
  BY <1>2, <1>4
<1> QED BY <1>3, <1>4, <1>5, <1>6 DEF Touches

LEMMA BecomesMoves ==
  ASSUME TypeInv, NEW c \in net, NEW d, Alike(c, d), Becomes(c, d),
         UNCHANGED <<scene, db, page, doubt, late>>, inbox \subseteq inbox', inbox' \in SUBSET Users
  PROVE  \E e : Moves(c, e)
BY DEF Becomes, Moves

LEMMA RemovesSteps ==
  ASSUME TypeInv, NEW c \in net, NEW pair \in Pairs, NEW d, Alike(c, d),
         Alike(c, [d EXCEPT !.failed = TRUE]), Removes(c, pair, d)
  PROVE  \/ \E e : Moves(c, e)
         \/ \E e, answer, p, announced : Commit(c, e, answer, p, announced)
<1>1. CASE Commits(c, [db EXCEPT !.rows[pair] = 0], Answered(d), pair, TRUE)
  <2>1. Touches([db EXCEPT !.rows[pair] = 0], pair)
    BY RowTouches
  <2>2. Commit(c, [db EXCEPT !.rows[pair] = 0], Answered(d), pair, TRUE)
    BY <1>1, <2>1, AnsweredType DEF Commit
  <2> QED BY <2>2
<1>2. CASE Becomes(c, Answered([d EXCEPT !.failed = TRUE])) /\ Quiet /\ Same
  <2>1. Alike(c, Answered([d EXCEPT !.failed = TRUE]))
    BY AnsweredType
  <2>2. UNCHANGED <<scene, db, page, doubt, late>> /\ inbox \subseteq inbox' /\ inbox' \in SUBSET Users
    BY <1>2 DEF Quiet, Same, History, TypeInv
  <2> QED BY <1>2, <2>1, <2>2, BecomesMoves
<1> QED BY <1>1, <1>2 DEF Removes

LEMMA ServerSteps ==
  ASSUME TypeInv, RefersInv, NEW c \in net,
         \/ BeginLink(c) \/ CommitLink(c) \/ ServeUnlink(c) \/ ServeDrop(c)
         \/ BeginAsk(c) \/ CommitAsk(c) \/ BeginApprove(c) \/ ConnectApproved(c) \/ MailApproved(c)
         \/ BeginDeny(c) \/ BeginRemove(c) \/ CommitGone(c) \/ ServeResend(c)
  PROVE  /\ c.op \notin {"read", "offer"}
         /\ \/ \E d : Moves(c, d)
            \/ \E d, answer, pair, announced : Commit(c, d, answer, pair, announced)
<1>0. c.op \notin {"read", "offer"}
  BY DEF BeginLink, CommitLink, ServeUnlink, ServeDrop, BeginAsk, CommitAsk, BeginApprove,
         ConnectApproved, MailApproved, BeginDeny, BeginRemove, CommitGone, ServeResend, Serves
<1>1. /\ IsCall(c) /\ c.pair \in Pairs \union {NoPair} /\ c.request \in Ids \union {0}
      /\ c.pairs \in SUBSET Pairs /\ FitsCall(c)
  BY CallFields DEF TypeInv, AllCalls, RefersInv
<1>2. /\ db.rows \in [Pairs -> Nat] /\ db.reqs \in [Ids -> Requests] /\ inbox \in SUBSET Users
  BY DEF TypeInv, Databases
<1>3. \A phase \in Phases, seen \in BOOLEAN :
        Alike(c, [c EXCEPT !.phase = phase]) /\ Alike(c, [c EXCEPT !.phase = phase, !.seen = seen])
  BY <1>1, AlikeTypes
<1>4. {"ok", "failed", "begun", "linked", "mailed"} \subseteq Phases
  BY DEF Phases
<1>5. \A pair : inbox \union Told(c, pair) \in SUBSET Users
  BY <1>2 DEF Told
<1>6. ASSUME NEW phase \in Phases, Becomes(c, [c EXCEPT !.phase = phase]),
             UNCHANGED <<scene, db, page, doubt, late>>,
             inbox' = inbox \/ \E pair : Tells(c, pair)
      PROVE  \E d : Moves(c, d)
  BY <1>2, <1>3, <1>5, <1>6, BecomesMoves DEF Tells
<1>7. ASSUME NEW phase \in Phases, NEW seen \in BOOLEAN,
             Begins(c, c.pair, [c EXCEPT !.phase = phase, !.seen = seen]), UNCHANGED inbox
      PROVE  \E d : Moves(c, d)
  <2>1. /\ Becomes(c, [c EXCEPT !.phase = phase, !.seen = seen])
        /\ UNCHANGED <<scene, db, page, doubt, late, inbox>>
    BY <1>7 DEF Begins, Quiet
  <2> QED BY <1>2, <1>3, <2>1, BecomesMoves
<1>8. ASSUME NEW phase \in Phases, Begins(c, c.pair, [c EXCEPT !.phase = phase]),
             inbox' = inbox \/ \E pair : Tells(c, pair)
      PROVE  \E d : Moves(c, d)
  BY <1>6, <1>8 DEF Begins, Quiet
<1>9. ASSUME Fails(c) PROVE \E d : Moves(c, d)
  BY <1>4, <1>6, <1>9 DEF Fails, Same, History
<1>10. ASSUME NEW phase \in Phases, c.pair \in Pairs, NEW announced,
              Commits(c, Connected(c), [c EXCEPT !.phase = phase], c.pair, announced)
       PROVE  \E d, answer, pair, told : Commit(c, d, answer, pair, told)
  <2> DEFINE n == IF c.seen THEN db.rows[c.pair] ELSE db.rows[c.pair] + 1
  <2>1. n \in Nat
    BY <1>2, <1>10
  <2>2. Connected(c) = [db EXCEPT !.rows[c.pair] = n]
    BY DEF Connected
  <2>3. Touches(Connected(c), c.pair)
    <3> HIDE DEF n
    <3> QED BY <1>10, <2>1, <2>2, RowTouches
  <2> QED BY <1>3, <1>10, <2>3 DEF Commit
<1>11. ASSUME NEW i \in Ids, NEW r \in Requests, r.status # "none", NEW phase \in Phases, NEW announced,
              db.reqs[i].status = "none" \/ db.reqs[i].pair = r.pair,
              Commits(c, [db EXCEPT !.reqs[i] = r], [c EXCEPT !.phase = phase], r.pair, announced)
       PROVE  \E d, answer, pair, told : Commit(c, d, answer, pair, told)
  BY <1>3, <1>11, RequestTouches DEF Commit
<1>12. CASE BeginLink(c)
  <2>1. Begins(c, c.pair, [c EXCEPT !.phase = "begun", !.seen = db.rows[c.pair] > 0]) /\ UNCHANGED inbox
    BY <1>12 DEF BeginLink
  <2> DEFINE seen == db.rows[c.pair] > 0
  <2>2. seen \in BOOLEAN
    OBVIOUS
  <2> HIDE DEF seen
  <2> QED BY <1>0, <1>4, <1>7, <2>1, <2>2 DEF seen
<1>13. CASE CommitLink(c)
  <2>1. c.pair \in Pairs
    BY <1>1, <1>13 DEF CommitLink, FitsCall
  <2> QED BY <1>0, <1>4, <1>10, <1>13, <2>1 DEF CommitLink
<1>14. CASE ServeUnlink(c)
  <2>1. c.pair \in Pairs /\ Removes(c, c.pair, c)
    BY <1>1, <1>14 DEF ServeUnlink, Serves, FitsCall
  <2>2. Alike(c, c) /\ Alike(c, [c EXCEPT !.failed = TRUE])
    BY <1>1, <1>4, AlikeTypes DEF Alike
  <2> QED BY <1>0, <2>1, <2>2, RemovesSteps
<1>15. CASE ServeDrop(c)
  <2>1. PICK p \in c.pairs : Removes(c, p, [c EXCEPT !.pairs = @ \ {p}])
    BY <1>15 DEF ServeDrop
  <2> DEFINE pairs == c.pairs \ {p}
             d == [c EXCEPT !.pairs = pairs]
  <2>2. pairs \in SUBSET Pairs /\ p \in Pairs
    BY <1>1, <2>1
  <2>3. Alike(c, d)
    <3> HIDE DEF pairs
    <3> QED BY <1>1, <2>2, AlikeTypes DEF Phases
  <2>4. Alike(c, [d EXCEPT !.failed = TRUE])
    <3> HIDE DEF d
    <3>1. IsCall(d)
      BY <2>3 DEF Alike
    <3>2. Alike(d, [d EXCEPT !.failed = TRUE])
      BY <3>1, AlikeTypes DEF Phases
    <3> QED BY <2>3, <3>2 DEF Alike
  <2>5. Removes(c, p, d)
    BY <2>1
  <2> HIDE DEF d
  <2> QED BY <1>0, <2>2, <2>3, <2>4, <2>5, RemovesSteps
<1>16. CASE BeginAsk(c)
  BY <1>0, <1>4, <1>8, <1>9, <1>16 DEF BeginAsk
<1>17. CASE CommitAsk(c)
  <2> DEFINE r == [pair |-> c.pair, member |-> FALSE, status |-> "open"]
  <2>1. PICK i \in Free, mailed \in scene.mails :
          Commits(c, [db EXCEPT !.reqs[i] = r], [c EXCEPT !.phase = IF mailed THEN "ok" ELSE "failed"],
                  c.pair, TRUE)
    BY <1>17 DEF CommitAsk
  <2>2. c.pair \in Pairs /\ i \in Ids /\ db.reqs[i].status = "none"
    BY <1>1, <1>17, <2>1 DEF CommitAsk, FitsCall, Free, Ids
  <2>3. r \in Requests /\ r.status # "none" /\ r.pair = c.pair
    BY <2>2 DEF Requests
  <2> DEFINE phase == IF mailed THEN "ok" ELSE "failed"
  <2>4. phase \in Phases
    BY DEF Phases
  <2>5. Commits(c, [db EXCEPT !.reqs[i] = r], [c EXCEPT !.phase = phase], r.pair, TRUE)
    BY <2>1, <2>3
  <2> HIDE DEF r, phase
  <2> QED BY <1>0, <1>11, <2>2, <2>3, <2>4, <2>5
<1>18. CASE BeginApprove(c)
  <2>1. CASE Fails(c)
    BY <1>0, <1>9, <2>1
  <2>2. CASE Begins(c, c.pair, [c EXCEPT !.phase = "begun", !.seen = db.rows[c.pair] > 0])
             /\ UNCHANGED inbox
    <3> DEFINE seen == db.rows[c.pair] > 0
    <3>1. seen \in BOOLEAN
      OBVIOUS
    <3> HIDE DEF seen
    <3> QED BY <1>0, <1>4, <1>7, <2>2, <3>1 DEF seen
  <2> QED BY <1>18, <2>1, <2>2 DEF BeginApprove
<1>19. CASE ConnectApproved(c)
  <2>1. c.pair \in Pairs
    BY <1>1, <1>19 DEF ConnectApproved, FitsCall, Known, Deciding
  <2> QED BY <1>0, <1>4, <1>10, <1>19, <2>1 DEF ConnectApproved
<1>20. CASE MailApproved(c)
  BY <1>0, <1>4, <1>6, <1>20 DEF MailApproved, Quiet, History
<1>21. CASE BeginDeny(c)
  BY <1>0, <1>4, <1>8, <1>9, <1>21 DEF BeginDeny
<1>22. CASE BeginRemove(c)
  BY <1>0, <1>4, <1>8, <1>9, <1>22 DEF BeginRemove
<1>23. CASE CommitGone(c)
  <2>1. Known(c.request, c.pair)
    BY <1>1, <1>23 DEF CommitGone, FitsCall, Deciding
  <2> DEFINE r == [db.reqs[c.request] EXCEPT !.status = "gone"]
  <2>2. r \in Requests /\ r.status # "none" /\ r.pair = c.pair /\ c.request \in Ids
        /\ db.reqs[c.request].pair = r.pair
    BY <1>2, <2>1 DEF Requests, Known
  <2>3. [db EXCEPT !.reqs[c.request].status = "gone"] = [db EXCEPT !.reqs[c.request] = r]
    OBVIOUS
  <2>4. Commits(c, [db EXCEPT !.reqs[c.request] = r], [c EXCEPT !.phase = "ok"], r.pair, FALSE)
    BY <1>23, <2>2, <2>3 DEF CommitGone
  <2> HIDE DEF r
  <2> QED BY <1>0, <1>4, <1>11, <2>2, <2>4
<1>24. CASE ServeResend(c)
  BY <1>0, <1>4, <1>6, <1>9, <1>24 DEF ServeResend, Same, Quiet, History
<1> QED BY <1>12, <1>13, <1>14, <1>15, <1>16, <1>17, <1>18, <1>19, <1>20, <1>21, <1>22, <1>23, <1>24

-------------------------------------------------------------------------------
(* What pages show.                                                        *)

(* An answer that is not overtaken is what the database holds; a page that *)
(* is not in doubt shows that, or is about to read it.                     *)
CatchInv ==
  /\ \A c \in net : IsRead(c, "ok") /\ ~c.old => c.view = View(page[c.by].at, db)
  /\ \A u \in Users \ doubt :
       page[u].at \in Places \ {"mail"} =>
         page[u].view = View(page[u].at, db) \/ Reads(u) \/ \E c \in net : c.by = u /\ IsRead(c, "ok")
(* A view is of the pairs of its page.                                     *)
Within(at, view) ==
  view.linked \subseteq Scope(at) /\ \A i \in Ids : Open(view.reqs[i]) => view.reqs[i].pair \in Scope(at)
WithinInv ==
  /\ \A u \in Users : Within(page[u].at, page[u].view)
  /\ \A c \in net : Within(page[c.by].at, c.view)
(* A list of services that was asked for since the last reading, or waits  *)
(* for its second to pass.                                                 *)
Latest(c) == c.op = "offer" /\ (c.phase = "sent" \/ (c.phase = "ok" /\ ~c.old))
Comes(u) == \E c \in net : c.by = u /\ Latest(c)
(* Such a list was asked for with what the page shows.  What is offered is *)
(* what is neither in use nor asked for, or such a list is on its way.     *)
OfferInv ==
  /\ \A c \in net : c.op = "offer" /\ c.phase = "ok" /\ ~c.old => c.view = page[c.by].view
  /\ \A c \in net : c.op = "offer" /\ c.phase = "sent" => ~c.old
  /\ \A u \in Users \ late :
       page[u].at = "services" => page[u].offered = Offer(page[u].view) \/ Comes(u)
PageInv == TypeInv /\ RefersInv /\ CatchInv /\ WithinInv /\ OfferInv

(* Neither the lists on their way nor what pages offer has changed.        *)
ListAlike(x, y) == x.by = y.by /\ x.op = y.op /\ x.phase = y.phase /\ x.view = y.view /\ x.old = y.old
LEMMA OfferLift ==
  ASSUME OfferInv, UNCHANGED late, \A x \in net : x.by \in Users,
         \A v \in Users : /\ page'[v].view = page[v].view /\ page'[v].offered = page[v].offered
                          /\ page'[v].at = "services" => page[v].at = "services",
         \A y \in net' : y.op = "offer" => \E x \in net : ListAlike(x, y),
         \A x \in net : x.op = "offer" => \E y \in net' : ListAlike(x, y)
  PROVE  OfferInv'
<1>1. ASSUME NEW y \in net', y.op = "offer", y.phase = "ok", ~y.old PROVE y.view = page'[y.by].view
  <2>1. PICK x \in net : ListAlike(x, y)
    BY <1>1
  <2> QED BY <1>1, <2>1 DEF OfferInv, ListAlike
<1>2. ASSUME NEW y \in net', y.op = "offer", y.phase = "sent" PROVE ~y.old
  <2>1. PICK x \in net : ListAlike(x, y)
    BY <1>2
  <2> QED BY <1>2, <2>1 DEF OfferInv, ListAlike
<1>3. \A v \in Users : Comes(v) => Comes(v)'
  BY DEF Comes, Latest, ListAlike
<1> QED BY <1>1, <1>2, <1>3 DEF OfferInv, Offer, Requested

LEMMA SameScope ==
  ASSUME NEW at, NEW to, at = to \/ (at # "services" /\ to # "services")
  PROVE  /\ Scope(at) = Scope(to) /\ \A d : View(at, d) = View(to, d)
         /\ \A view : Within(at, view) <=> Within(to, view)
<1>1. Scope(at) = Scope(to)
  BY DEF Scope
<1> QED BY <1>1 DEF View, Within

LEMMA ViewWithin == ASSUME NEW at, NEW d \in Databases PROVE Within(at, View(at, d)) /\ Within(at, NoView)
BY DEF View, NoView, Within, Open, NoRequest, Scope

LEMMA ViewSeen == ASSUME TypeInv, NEW at PROVE Seen(View(at, db)) /\ Seen(NoView)
<1>1. db.reqs \in [Ids -> Requests]
  BY DEF TypeInv, Databases
<1>2. \A i \in Ids : db.reqs[i].pair \in Pairs
  BY <1>1 DEF Requests
<1> QED BY <1>1, <1>2 DEF View, NoView, Seen, Known, Open, NoRequest

(* What referred to the old requests refers to the new.                    *)
LEMMA RefersLift ==
  ASSUME TypeInv, UNCHANGED scene,
         \A i \in Ids : db.reqs[i].status # "none" =>
                          db'.reqs[i].status # "none" /\ db'.reqs[i].pair = db.reqs[i].pair,
         \A u \in Users : /\ Seen(page'[u].view) /\ Fits(page'[u])
                          /\ page'[u].at = "mail" => Known(1, scene.reqs[1].pair),
         \A c \in net' : Seen(c.view) /\ FitsCall(c)
  PROVE  RefersInv'
<1>1. \A i, pair : Known(i, pair) => Known(i, pair)'
  BY DEF Known
<1> QED BY <1>1 DEF RefersInv, Seen, Fits, FitsCall, Known

LEMMA PersonKeeps ==
  ASSUME PageInv, NEW u \in Users, Acted(u)
  PROVE  PageInv'
<1>1. PICK q : Turn(u, q) /\ page' = [page EXCEPT ![u] = q]
  BY DEF Acted
<1>2. PICK cs : net' = net \union cs /\ \A c \in cs : Fresh(u, c)
  BY DEF Acted
<1>3. UNCHANGED <<scene, db, inbox, doubt, late>>
  BY DEF Acted, Same, History
<1>4. TypeInv'
  BY <1>1, <1>2, <1>3 DEF PageInv, TypeInv, Turn, Fresh, AllCalls
<1>5. page'[u] = q /\ \A v \in Users \ {u} : page'[v] = page[v]
  BY <1>1 DEF PageInv, TypeInv
<1>6. q.view = page[u].view /\ Fits(q) /\ q.offered = page[u].offered
      /\ (q.at = page[u].at \/ (page[u].at = "mail" /\ q.at = "away"))
  BY <1>1 DEF Turn
<1>7. \A v \in Users : page'[v].view = page[v].view /\ page'[v].offered = page[v].offered
      /\ (page'[v].at = page[v].at \/ (page[v].at = "mail" /\ page'[v].at = "away"))
  BY <1>5, <1>6
<1>8. RefersInv'
  <2>1. \A v \in Users : /\ Seen(page'[v].view) /\ Fits(page'[v])
                         /\ page'[v].at = "mail" => Known(1, scene.reqs[1].pair)
    BY <1>5, <1>6 DEF PageInv, RefersInv
  <2>2. \A c \in net' : Seen(c.view) /\ FitsCall(c)
    BY <1>2, ViewSeen DEF PageInv, RefersInv, Fresh
  <2> QED BY <1>3, <2>1, <2>2, RefersLift DEF PageInv
<1>9. \A v \in Users : /\ \A d : View(page'[v].at, d) = View(page[v].at, d)
                       /\ \A view : Within(page'[v].at, view) <=> Within(page[v].at, view)
  <2> SUFFICES ASSUME NEW v \in Users
               PROVE  /\ \A d : View(page'[v].at, d) = View(page[v].at, d)
                      /\ \A view : Within(page'[v].at, view) <=> Within(page[v].at, view)
    OBVIOUS
  <2>1. page'[v].at = page[v].at \/ (page'[v].at # "services" /\ page[v].at # "services")
    BY <1>7
  <2> QED BY <2>1, SameScope
<1>10. \A c \in net : c.by \in Users
  BY CallFields DEF PageInv, TypeInv, AllCalls
<1>11. CatchInv'
  <2>1. \A c \in net' : IsRead(c, "ok") => c \in net
    BY <1>2 DEF Fresh, IsRead
  <2>2. \A v \in Users : Reads(v) => Reads(v)'
    BY <1>2, <1>3 DEF Reads, IsRead
  <2>3. ASSUME NEW c \in net', IsRead(c, "ok"), ~c.old PROVE c.view = View(page'[c.by].at, db')
    <3>1. c \in net /\ c.by \in Users
      BY <1>10, <2>1, <2>3
    <3>2. c.view = View(page[c.by].at, db)
      BY <2>3, <3>1 DEF PageInv, CatchInv
    <3> QED BY <1>3, <1>9, <3>1, <3>2
  <2>4. ASSUME NEW v \in Users \ doubt', page'[v].at \in Places \ {"mail"}
        PROVE  page'[v].view = View(page'[v].at, db') \/ Reads(v)' \/ \E c \in net' : c.by = v /\ IsRead(c, "ok")
    <3>1. v \notin doubt /\ page'[v].at = page[v].at /\ page'[v].view = page[v].view
      BY <1>3, <1>7, <2>4 DEF Places
    <3>2. page[v].view = View(page[v].at, db) \/ Reads(v) \/ \E c \in net : c.by = v /\ IsRead(c, "ok")
      BY <2>4, <3>1 DEF PageInv, CatchInv
    <3> QED BY <1>2, <1>3, <2>2, <3>1, <3>2
  <2> QED BY <2>3, <2>4 DEF CatchInv, IsRead
<1>12. WithinInv'
  <2>1. \A v \in Users : Within(page'[v].at, page'[v].view)
    BY <1>7, <1>9 DEF PageInv, WithinInv
  <2>2. \A c \in net' : Within(page'[c.by].at, c.view)
    <3>1. \A c \in cs : c.by = u /\ c.view = NoView
      BY <1>2 DEF Fresh
    <3>2. db \in Databases
      BY DEF PageInv, TypeInv
    <3>3. \A c \in net : Within(page'[c.by].at, c.view)
      BY <1>9, <1>10 DEF PageInv, WithinInv
    <3> QED BY <1>2, <3>1, <3>2, <3>3, ViewWithin
  <2> QED BY <2>1, <2>2 DEF WithinInv
<1>13. OfferInv'
  <2>1. \A x \in cs : x.op # "offer"
    BY <1>2 DEF Fresh, Ops
  <2>2. \A x \in net' : x.op = "offer" => x \in net
    BY <1>2, <2>1
  <2>3. \A v \in Users : Comes(v) => Comes(v)'
    BY <1>2 DEF Comes, Latest
  <2> QED BY <1>3, <1>7, <1>10, <2>2, <2>3 DEF PageInv, OfferInv, Offer, Requested
<1> QED BY <1>4, <1>8, <1>11, <1>12, <1>13 DEF PageInv

(* A step of the server that changes nothing a page shows.                 *)
LEMMA MovesKeeps ==
  ASSUME PageInv, NEW c \in net, c.op \notin {"read", "offer"}, NEW d, Moves(c, d)
  PROVE  PageInv'
<1>1. net' = (net \ {c}) \union {d} /\ IsCall(d) /\ d.by = c.by /\ d.op = c.op /\ d.pair = c.pair
      /\ d.request = c.request /\ d.view = c.view
  BY DEF Moves, Alike
<1>2. UNCHANGED <<scene, db, page, doubt, late>> /\ inbox \subseteq inbox' /\ inbox' \in SUBSET Users
  BY DEF Moves
<1>3. TypeInv'
  BY <1>1, <1>2 DEF PageInv, TypeInv, AllCalls
<1>4. RefersInv'
  BY <1>1, <1>2 DEF PageInv, RefersInv, Seen, Fits, FitsCall, Known
<1>5. CatchInv'
  <2>1. \A x \in net' : IsRead(x, "ok") => x \in net
    BY <1>1 DEF IsRead
  <2>2. \A x \in net : x.op \in {"read", "offer"} => x \in net'
    BY <1>1
  <2>3. \A v \in Users : Reads(v) => Reads(v)'
    BY <1>2, <2>2 DEF Reads, IsRead
  <2> QED BY <1>2, <2>1, <2>2, <2>3 DEF PageInv, CatchInv, IsRead
<1>6. WithinInv'
  BY <1>1, <1>2 DEF PageInv, WithinInv
<1>7. OfferInv'
  <2>1. \A x \in net' : x.op = "offer" => x \in net
    BY <1>1
  <2>2. \A v \in Users : Comes(v) => Comes(v)'
    BY <1>1 DEF Comes, Latest
  <2> QED BY <1>2, <2>1, <2>2 DEF PageInv, OfferInv, Offer, Requested
<1> QED BY <1>3, <1>4, <1>5, <1>6, <1>7 DEF PageInv

LEMMA AgedType ==
  ASSUME NEW x, IsCall(x), NEW old \in BOOLEAN
  PROVE  Alike(x, [x EXCEPT !.old = old]) /\ [x EXCEPT !.old = old].phase = x.phase
         /\ [x EXCEPT !.old = old].old = old
BY DEF Alike, IsCall, CallOf

(* The calls after answers went old: each stands for one there was.        *)
Ages(x, y) ==
  /\ Alike(x, y) /\ y.phase = x.phase /\ y.old \in BOOLEAN /\ (x.old => y.old)

(* Commits: listeners read, or are in doubt; every answer is overtaken.    *)
LEMMA CommitKeeps ==
  ASSUME PageInv, NEW c \in net, c.op \notin {"read", "offer"},
         NEW d, NEW answer, NEW pair, NEW announced, Commit(c, d, answer, pair, announced)
  PROVE  PageInv'
<1>1. /\ db' = d /\ inbox' = (IF announced THEN inbox \union Told(c, pair) ELSE inbox)
      /\ net' = {[x EXCEPT !.old = @ \/ IsRead(x, "ok")] : x \in net \ {c}} \union {answer}
      /\ doubt' = doubt \union (IF announced THEN {c.by} ELSE {u \in Users : Listens(u, pair) /\ ~Reads(u)})
      /\ UNCHANGED <<scene, page, late>>
  BY DEF Commit, Commits, Quiet
<1>2. /\ IsCall(answer) /\ answer.by = c.by /\ answer.op = c.op /\ answer.pair = c.pair
      /\ answer.request = c.request /\ answer.view = c.view
  BY DEF Commit, Alike
<1>3. \A x \in net : IsCall(x) /\ x.by \in Users /\ x.old \in BOOLEAN
  BY CallFields DEF PageInv, TypeInv, AllCalls
<1>4. \A x \in net \ {c} : /\ [x EXCEPT !.old = @ \/ IsRead(x, "ok")] \in net'
                          /\ Ages(x, [x EXCEPT !.old = @ \/ IsRead(x, "ok")])
                          /\ [x EXCEPT !.old = @ \/ IsRead(x, "ok")].old = (x.old \/ IsRead(x, "ok"))
  <2> TAKE x \in net \ {c}
  <2> DEFINE old == x.old \/ IsRead(x, "ok")
             y == [x EXCEPT !.old = old]
  <2>1. old \in BOOLEAN /\ (x.old => old)
    BY <1>3
  <2>2. y \in net'
    BY <1>1
  <2>3. Ages(x, y) /\ y.old = old
    <3> HIDE DEF old
    <3> QED BY <1>3, <2>1, AgedType DEF Ages
  <2> QED BY <2>2, <2>3
<1>5. \A y \in net' \ {answer} : \E x \in net \ {c} : Ages(x, y) /\ (y.old <=> x.old \/ IsRead(x, "ok"))
  <2> TAKE y \in net' \ {answer}
  <2>1. PICK x \in net \ {c} : y = [x EXCEPT !.old = @ \/ IsRead(x, "ok")]
    BY <1>1
  <2> QED BY <1>4, <2>1
<1>6. \A x \in net \ {c} : \E y \in net' : Ages(x, y)
  BY <1>4
<1>7. \A v \in Users : Reads(v) => Reads(v)'
  <2>1. inbox \subseteq inbox'
    BY <1>1
  <2>2. \A x \in net : IsRead(x, "sent") => \E y \in net' : y.by = x.by /\ IsRead(y, "sent")
    BY <1>6 DEF Ages, Alike, IsRead
  <2> QED BY <2>1, <2>2 DEF Reads
<1>8. TypeInv'
  <2>1. \A y \in net' : IsCall(y)
    BY <1>2, <1>5 DEF Ages, Alike
  <2>2. d \in Databases /\ c.by \in Users
    BY <1>3 DEF Commit, Touches
  <2> QED BY <1>1, <2>1, <2>2 DEF PageInv, TypeInv, AllCalls, Told
<1>9. RefersInv'
  <2>1. \A i \in Ids : db.reqs[i].status # "none" =>
                           db'.reqs[i].status # "none" /\ db'.reqs[i].pair = db.reqs[i].pair
    BY <1>1 DEF Commit, Touches
  <2>2. \A y \in net' : Seen(y.view) /\ FitsCall(y)
    <3>1. \A x \in net : Seen(x.view) /\ FitsCall(x)
      BY DEF PageInv, RefersInv
    <3>2. \A y \in net' : \E x \in net : y.view = x.view /\ y.op = x.op /\ y.request = x.request /\ y.pair = x.pair
      BY <1>2, <1>5 DEF Ages, Alike
    <3> QED BY <3>1, <3>2 DEF FitsCall
  <2> QED BY <1>1, <2>1, <2>2, RefersLift DEF PageInv, RefersInv
<1>10. CatchInv'
  <2>1. \A y \in net' : IsRead(y, "ok") => y.old
    BY <1>2, <1>5 DEF Ages, Alike, IsRead
  <2>2. ASSUME NEW v \in Users \ doubt', page'[v].at \in Places \ {"mail"}
        PROVE  page'[v].view = View(page'[v].at, db') \/ Reads(v)' \/ \E y \in net' : y.by = v /\ IsRead(y, "ok")
    <3>1. v \notin doubt /\ page'[v] = page[v] /\ page[v].at \in Places \ {"mail"}
      BY <1>1, <2>2
    <3>2. CASE pair \in Scope(page[v].at)
      <4>1. Listens(v, pair)
        BY <3>1, <3>2 DEF Listens
      <4>2. CASE announced
        BY <1>1, <2>2, <4>1, <4>2 DEF Told, Reads
      <4>3. CASE ~announced
        BY <1>1, <1>7, <2>2, <4>1, <4>3
      <4> QED BY <4>2, <4>3
    <3>3. CASE pair \notin Scope(page[v].at)
      <4>1. View(page[v].at, db') = View(page[v].at, db)
        BY <1>1, <3>3 DEF Commit, Touches
      <4>2. page[v].view = View(page[v].at, db) \/ Reads(v) \/ \E x \in net : x.by = v /\ IsRead(x, "ok")
        BY <3>1 DEF PageInv, CatchInv
      <4>3. \A x \in net : IsRead(x, "ok") => \E y \in net' : y.by = x.by /\ IsRead(y, "ok")
        BY <1>6 DEF Ages, Alike, IsRead
      <4> QED BY <1>7, <3>1, <4>1, <4>2, <4>3
    <3> QED BY <3>2, <3>3
  <2> QED BY <2>1, <2>2 DEF CatchInv, IsRead
<1>11. WithinInv'
  <2>1. \A y \in net' : \E x \in net : y.view = x.view /\ y.by = x.by
    BY <1>2, <1>5 DEF Ages, Alike
  <2> QED BY <1>1, <2>1 DEF PageInv, WithinInv
<1>12. OfferInv'
  <2>1. \A y \in net' : y.op = "offer" => \E x \in net : ListAlike(x, y)
    BY <1>2, <1>3, <1>5 DEF Ages, Alike, IsRead, ListAlike
  <2>2. \A x \in net : x.op = "offer" => \E y \in net' : ListAlike(x, y)
    <3>1. ASSUME NEW x \in net, x.op = "offer" PROVE \E y \in net' : ListAlike(x, y)
      <4>1. x \in net \ {c} /\ ~IsRead(x, "ok") /\ x.old \in BOOLEAN
        BY <1>3, <3>1 DEF IsRead
      <4>2. LET y == [x EXCEPT !.old = @ \/ IsRead(x, "ok")] IN
              y \in net' /\ Ages(x, y) /\ y.old = (x.old \/ IsRead(x, "ok"))
        BY <1>4, <4>1
      <4> QED BY <4>1, <4>2 DEF Ages, Alike, ListAlike
    <3> QED BY <3>1
  <2> QED BY <1>1, <1>3, <2>1, <2>2, OfferLift DEF PageInv
<1> QED BY <1>8, <1>9, <1>10, <1>11, <1>12 DEF PageInv
(* A reading is answered, which overtakes the earlier answers to its user. *)
LEMMA ReadKeeps ==
  ASSUME PageInv, NEW c \in net, ServeRead(c)
  PROVE  PageInv'
<1> DEFINE answer == [c EXCEPT !.phase = "ok", !.view = View(page[c.by].at, db)]
           Aged(x) == [x EXCEPT !.old = @ \/ (IsRead(x, "ok") /\ x.by = c.by)]
<1>1. /\ net' = {Aged(x) : x \in net \ {c}} \union {answer} /\ c.op = "read" /\ c.phase = "sent"
      /\ UNCHANGED <<scene, db, inbox, page, doubt, late>>
  BY DEF ServeRead, Serves, Same, Quiet, History
<1>2. \A x \in net : IsCall(x) /\ x.by \in Users /\ x.old \in BOOLEAN
  BY CallFields DEF PageInv, TypeInv, AllCalls
<1>3. db \in Databases
  BY DEF PageInv, TypeInv
<1>4. /\ IsCall(answer) /\ answer.by = c.by /\ answer.op = "read" /\ answer.phase = "ok"
      /\ answer.view = View(page[c.by].at, db)
  <2> DEFINE view == View(page[c.by].at, db)
           e == [c EXCEPT !.phase = "ok", !.view = view]
  <2>1. view \in Views
    BY <1>3, ViewType
  <2>2. IsCall(e) /\ e.by = c.by /\ e.op = "read" /\ e.phase = "ok" /\ e.view = view
    <3> DEFINE o == [c EXCEPT !.phase = "ok"]
    <3>1. Alike(c, o) /\ o.phase = "ok"
      BY <1>1, <1>2, AlikeTypes DEF Phases, IsCall, CallOf
    <3>2. e = [o EXCEPT !.view = view] /\ o.by = c.by /\ o.op = "read"
      BY <1>1, <3>1 DEF Alike
    <3> HIDE DEF view, o, e
    <3> QED BY <2>1, <3>1, <3>2 DEF Alike, IsCall, CallOf
  <2> QED BY <2>2
<1>5. \A x \in net \ {c} : Ages(x, Aged(x)) /\ (x.op = "offer" => Aged(x).old = x.old)
  <2> TAKE x \in net \ {c}
  <2> DEFINE old == x.old \/ (IsRead(x, "ok") /\ x.by = c.by)
             y == [x EXCEPT !.old = old]
  <2>1. old \in BOOLEAN /\ (x.old => old)
    BY <1>2
  <2>2. Ages(x, y) /\ y.old = old
    <3> HIDE DEF old
    <3> QED BY <1>2, <2>1, AgedType DEF Ages
  <2>3. x.op = "offer" => old = x.old
    BY <1>2 DEF IsRead
  <2> QED BY <2>2, <2>3
<1> HIDE DEF Aged, answer
<1>6. \A y \in net' \ {answer} : \E x \in net \ {c} : Ages(x, y) /\ (x.op = "offer" => y.old = x.old)
  BY <1>1, <1>5
<1>7. \A x \in net \ {c} : \E y \in net' : Ages(x, y) /\ (x.op = "offer" => y.old = x.old)
  BY <1>1, <1>5
<1>8. answer \in net'
  BY <1>1
<1>9. TypeInv'
  BY <1>1, <1>4, <1>6 DEF PageInv, TypeInv, AllCalls, Ages, Alike
<1>10. RefersInv'
  <2>1. \A y \in net' : Seen(y.view) /\ FitsCall(y)
    <3>1. \A x \in net : Seen(x.view) /\ FitsCall(x)
      BY DEF PageInv, RefersInv
    <3>2. \A y \in net' \ {answer} : \E x \in net : y.view = x.view /\ y.op = x.op /\ y.request = x.request /\ y.pair = x.pair
      BY <1>6 DEF Ages, Alike
    <3>3. Seen(answer.view) /\ FitsCall(answer)
      BY <1>4, ViewSeen DEF FitsCall, Deciding, PageInv
    <3> QED BY <3>1, <3>2, <3>3 DEF FitsCall
  <2> QED BY <1>1, <2>1, RefersLift DEF PageInv, RefersInv
<1>11. CatchInv'
  <2>1. ASSUME NEW y \in net', IsRead(y, "ok"), ~y.old PROVE y.view = View(page[y.by].at, db)
    <3>1. CASE y = answer
      BY <1>4, <3>1
    <3>2. CASE y # answer
      <4>1. PICK x \in net : Ages(x, y)
        BY <1>6, <3>2
      <4>2. IsRead(x, "ok") /\ ~x.old /\ y.view = x.view /\ y.by = x.by
        BY <2>1, <4>1 DEF Ages, Alike, IsRead
      <4> QED BY <4>2 DEF PageInv, CatchInv
    <3> QED BY <3>1, <3>2
  <2>2. ASSUME NEW v \in Users \ doubt, page[v].at \in Places \ {"mail"}
        PROVE  page[v].view = View(page[v].at, db) \/ Reads(v)' \/ \E y \in net' : y.by = v /\ IsRead(y, "ok")
    <3>1. page[v].view = View(page[v].at, db) \/ Reads(v) \/ \E x \in net : x.by = v /\ IsRead(x, "ok")
      BY <2>2 DEF PageInv, CatchInv
    <3>2. \A phase : \A x \in net \ {c} : IsRead(x, phase) => \E y \in net' : y.by = x.by /\ IsRead(y, phase)
      BY <1>7 DEF Ages, Alike, IsRead
    <3>3. ASSUME NEW x \in net, x.by = v, IsRead(x, "sent")
          PROVE  Reads(v)' \/ \E y \in net' : y.by = v /\ IsRead(y, "ok")
      BY <1>4, <1>8, <3>2, <3>3 DEF Reads, IsRead
    <3>4. ASSUME NEW x \in net, x.by = v, IsRead(x, "ok") PROVE \E y \in net' : y.by = v /\ IsRead(y, "ok")
      BY <1>1, <3>2, <3>4 DEF IsRead
    <3> QED BY <1>1, <3>1, <3>3, <3>4 DEF Reads
  <2> QED BY <1>1, <2>1, <2>2 DEF CatchInv, IsRead
<1>12. WithinInv'
  <2>1. \A y \in net' \ {answer} : \E x \in net : y.view = x.view /\ y.by = x.by
    BY <1>6 DEF Ages, Alike
  <2> QED BY <1>1, <1>3, <1>4, <2>1, ViewWithin DEF PageInv, WithinInv
<1>13. OfferInv'
  <2>1. \A y \in net' : y.op = "offer" => \E x \in net : ListAlike(x, y)
    BY <1>4, <1>6 DEF Ages, Alike, ListAlike
  <2>2. \A x \in net : x.op = "offer" => \E y \in net' : ListAlike(x, y)
    BY <1>1, <1>7 DEF Ages, Alike, ListAlike
  <2> QED BY <1>1, <1>2, <2>1, <2>2, OfferLift DEF PageInv
<1> QED BY <1>9, <1>10, <1>11, <1>12, <1>13 DEF PageInv

-------------------------------------------------------------------------------
(* The browser.                                                            *)
LEMMA ReceiveKeeps ==
  ASSUME PageInv, NEW u \in Users, Receive(u)
  PROVE  PageInv'
<1> DEFINE cs == {Call(u, "read")} \union (IF page[u].at = "services" THEN {Call(u, "offer")} ELSE {})
<1>1. /\ inbox' = inbox \ {u} /\ net' = net \union cs /\ UNCHANGED <<scene, db, page, doubt, late>>
  BY DEF Receive, History
<1>2. \A c \in cs : /\ IsCall(c) /\ c.by = u /\ c.op \in {"read", "offer"} /\ c.phase = "sent" /\ c.view = NoView
                   /\ ~c.old
  <2>1. \A op \in {"read", "offer"} :
          /\ IsCall(Call(u, op)) /\ Call(u, op).by = u /\ Call(u, op).op = op
          /\ Call(u, op).phase = "sent" /\ Call(u, op).view = NoView /\ ~Call(u, op).old
    BY ReadCallType
  <2>2. \A c \in cs : c = Call(u, "read") \/ c = Call(u, "offer")
    OBVIOUS
  <2> QED BY <2>1, <2>2
<1>3. \E c \in cs : c.op = "read"
  <2>1. Call(u, "read").op = "read"
    BY ReadCallType
  <2> QED BY <2>1
<1> HIDE DEF cs
<1>4. TypeInv'
  BY <1>1, <1>2 DEF PageInv, TypeInv, AllCalls
<1>5. RefersInv'
  <2>1. \A c \in cs : Seen(c.view) /\ FitsCall(c)
    BY <1>2, ViewSeen DEF PageInv, FitsCall, Deciding
  <2> QED BY <1>1, <2>1, RefersLift DEF PageInv, RefersInv
<1>6. CatchInv'
  <2>1. \A x \in net' : IsRead(x, "ok") => x \in net
    BY <1>1, <1>2 DEF IsRead
  <2>2. Reads(u)'
    BY <1>1, <1>2, <1>3 DEF Reads, IsRead
  <2>3. \A v \in Users : Reads(v) => Reads(v)'
    BY <1>1, <2>2 DEF Reads, IsRead
  <2> QED BY <1>1, <2>1, <2>3 DEF PageInv, CatchInv, IsRead
<1>7. WithinInv'
  <2>1. db \in Databases
    BY DEF PageInv, TypeInv
  <2> QED BY <1>1, <1>2, <2>1, ViewWithin DEF PageInv, WithinInv
<1>8. OfferInv'
  <2>1. \A x \in net' : x.phase = "ok" => x \in net
    BY <1>1, <1>2
  <2>2. \A v \in Users : Comes(v) => Comes(v)'
    BY <1>1 DEF Comes, Latest
  <2>3. \A x \in net' : x.op = "offer" /\ x.phase = "sent" => ~x.old
    BY <1>1, <1>2 DEF PageInv, OfferInv
  <2> QED BY <1>1, <2>1, <2>2, <2>3 DEF PageInv, OfferInv, Offer, Requested
<1> QED BY <1>4, <1>5, <1>6, <1>7, <1>8 DEF PageInv

(* What an answer does to the page of its user, whose view stays.          *)
Heard(u, q) ==
  /\ q \in PageStates /\ q.view = page[u].view /\ Fits(q)
  /\ q.at = page[u].at \/ (page[u].at \in {"mail", "away"} /\ q.at = "away")

(* An answer is heard that brings no view: its call is gone, or a reading  *)
(* takes its place.                                                        *)
LEMMA HeardKeeps ==
  ASSUME PageInv, NEW c \in net, NEW q, Heard(c.by, q), page' = [page EXCEPT ![c.by] = q],
         NEW cs, net' = (net \ {c}) \union cs,
         \A d \in cs : IsCall(d) /\ d.by = c.by /\ d.op = "read" /\ d.phase = "sent" /\ d.view = NoView,
         ~IsRead(c, "ok"), ~IsRead(c, "sent"), UNCHANGED <<scene, db, inbox, doubt>>,
         late' \in {late, late \ {c.by}, late \union {c.by}},
         \/ q.offered = Offer(q.view) \/ c.by \in late'
         \/ late' = late /\ q.offered = page[c.by].offered /\ ~Latest(c)
  PROVE  PageInv'
<1>1. \A x \in net : IsCall(x) /\ x.by \in Users
  BY CallFields DEF PageInv, TypeInv, AllCalls
<1>2. TypeInv'
  BY <1>1 DEF PageInv, TypeInv, AllCalls, Heard
<1>3. page'[c.by] = q /\ \A v \in Users \ {c.by} : page'[v] = page[v]
  BY <1>1 DEF PageInv, TypeInv
<1>4. \A v \in Users : page'[v].view = page[v].view
        /\ (page'[v].at = page[v].at \/ (page[v].at \in {"mail", "away"} /\ page'[v].at = "away"))
  BY <1>3 DEF Heard
<1>5. \A v \in Users : /\ \A d : View(page'[v].at, d) = View(page[v].at, d)
                       /\ \A view : Within(page'[v].at, view) <=> Within(page[v].at, view)
  BY <1>4, SameScope
<1>6. RefersInv'
  <2>1. \A v \in Users : /\ Seen(page'[v].view) /\ Fits(page'[v])
                         /\ page'[v].at = "mail" => Known(1, scene.reqs[1].pair)
    BY <1>3, <1>4 DEF PageInv, RefersInv, Heard
  <2>2. \A d \in net' : Seen(d.view) /\ FitsCall(d)
    <3>1. \A d \in cs : Seen(d.view) /\ FitsCall(d)
      BY ViewSeen DEF PageInv, FitsCall, Deciding
    <3> QED BY <3>1 DEF PageInv, RefersInv
  <2> QED BY <2>1, <2>2, RefersLift DEF PageInv
<1>7. CatchInv'
  <2>1. \A x \in net' : IsRead(x, "ok") => x \in net
    BY DEF IsRead
  <2>2. \A v \in Users : Reads(v) => Reads(v)'
    BY DEF Reads, IsRead
  <2>3. \A x \in net : IsRead(x, "ok") => x \in net'
    OBVIOUS
  <2>4. ASSUME NEW x \in net', IsRead(x, "ok"), ~x.old PROVE x.view = View(page'[x.by].at, db')
    <3>1. x \in net /\ x.by \in Users
      BY <1>1, <2>1, <2>4
    <3>2. x.view = View(page[x.by].at, db)
      BY <2>4, <3>1 DEF PageInv, CatchInv
    <3> QED BY <1>5, <3>1, <3>2
  <2>5. ASSUME NEW v \in Users \ doubt', page'[v].at \in Places \ {"mail"}
        PROVE  page'[v].view = View(page'[v].at, db') \/ Reads(v)' \/ \E x \in net' : x.by = v /\ IsRead(x, "ok")
    <3>1. v \notin doubt /\ page'[v].at = page[v].at /\ page'[v].view = page[v].view
      BY <1>4, <2>5 DEF Places
    <3>2. page[v].view = View(page[v].at, db) \/ Reads(v) \/ \E x \in net : x.by = v /\ IsRead(x, "ok")
      BY <2>5, <3>1 DEF PageInv, CatchInv
    <3> QED BY <2>2, <2>3, <3>1, <3>2
  <2> QED BY <2>4, <2>5 DEF CatchInv, IsRead
<1>8. WithinInv'
  <2>1. \A v \in Users : Within(page'[v].at, page'[v].view)
    BY <1>4, <1>5 DEF PageInv, WithinInv
  <2>2. \A d \in cs : Within(page'[d.by].at, d.view)
    <3>1. db \in Databases
      BY DEF PageInv, TypeInv
    <3> QED BY <3>1, ViewWithin
  <2>3. \A d \in net : Within(page'[d.by].at, d.view)
    BY <1>1, <1>5 DEF PageInv, WithinInv
  <2> QED BY <2>1, <2>2, <2>3 DEF WithinInv
<1>9. OfferInv'
  <2>0. ASSUME NEW x \in net', x.op = "offer"
        PROVE  IF x.phase = "ok" THEN x.old \/ x.view = page'[x.by].view ELSE x.phase = "sent" => ~x.old
    <3>1. x \in net
      BY <2>0
    <3> QED BY <1>1, <1>4, <2>0, <3>1 DEF PageInv, OfferInv
  <2>1. ASSUME NEW v \in Users \ late', page'[v].at = "services"
        PROVE  page'[v].offered = Offer(page'[v].view) \/ Comes(v)'
    <3>1. page[v].at = "services" /\ page'[v].view = page[v].view
      BY <1>4, <2>1
    <3>2. CASE v = c.by /\ q.offered = Offer(q.view)
      BY <1>3, <3>2
    <3>3. CASE v # c.by \/ q.offered # Offer(q.view)
      <4>1. v \notin late /\ page'[v].offered = page[v].offered
        BY <1>3, <2>1, <3>3
      <4>2. page[v].offered = Offer(page[v].view) \/ Comes(v)
        BY <3>1, <4>1 DEF PageInv, OfferInv
      <4>3. v # c.by \/ ~Latest(c)
        BY <2>1, <3>3
      <4>4. Comes(v) => Comes(v)'
        BY <4>3 DEF Comes, Latest
      <4> QED BY <3>1, <4>1, <4>2, <4>4
    <3> QED BY <3>2, <3>3
  <2> QED BY <2>0, <2>1 DEF OfferInv, Offer, Requested
<1> QED BY <1>2, <1>6, <1>7, <1>8, <1>9 DEF PageInv
(* What the page asks for on its own.                                      *)
BackRead(u, twice) == [Call(u, "read") EXCEPT !.back = TRUE, !.seen = twice]
LEMMA BackType ==
  ASSUME NEW u \in Users, NEW twice \in BOOLEAN
  PROVE  LET d == BackRead(u, twice) IN
         IsCall(d) /\ d.by = u /\ d.op = "read" /\ d.phase = "sent" /\ d.view = NoView
<1> DEFINE c == Call(u, "read")
           d == [c EXCEPT !.back = TRUE, !.seen = twice]
<1>1. IsCall(c) /\ c.by = u /\ c.op = "read" /\ c.phase = "sent" /\ c.view = NoView
  BY ReadCallType
<1>2. IsCall(d) /\ d.by = u /\ d.op = "read" /\ d.phase = "sent" /\ d.view = NoView
  <2> HIDE DEF c
  <2> QED BY <1>1 DEF IsCall, CallOf
<1> QED BY <1>2 DEF BackRead

Lists(u, view, twice) ==
  LET offer == [Call(u, "offer") EXCEPT !.phase = "ok", !.view = view] IN {offer, [offer EXCEPT !.seen = twice]}
LEMMA ListType ==
  ASSUME NEW u \in Users, NEW view \in Views, NEW twice \in BOOLEAN
  PROVE  \A d \in Lists(u, view, twice) :
           IsCall(d) /\ d.by = u /\ d.op = "offer" /\ d.phase = "ok" /\ d.view = view /\ ~d.old
<1> DEFINE c == Call(u, "offer")
           d == [c EXCEPT !.phase = "ok", !.view = view]
           e == [d EXCEPT !.seen = twice]
<1>1. IsCall(c) /\ c.by = u /\ c.op = "offer" /\ ~c.old
  BY ReadCallType
<1>2. IsCall(d) /\ d.by = u /\ d.op = "offer" /\ d.phase = "ok" /\ d.view = view /\ ~d.old
  <2> HIDE DEF c
  <2> QED BY <1>1 DEF IsCall, CallOf, Phases
<1>3. IsCall(e) /\ e.by = u /\ e.op = "offer" /\ e.phase = "ok" /\ e.view = view /\ ~e.old
  <2> HIDE DEF d
  <2> QED BY <1>2 DEF IsCall, CallOf
<1> QED BY <1>2, <1>3 DEF Lists

(* The list asks for all services, with what the page shows.               *)
LEMMA AskKeeps ==
  ASSUME PageInv, NEW c \in net, AskServices(c)
  PROVE  PageInv'
<1> DEFINE view == page[c.by].view
           d == [c EXCEPT !.phase = "ok", !.view = view]
<1>1. /\ net' = (net \ {c}) \union {d} /\ c.op = "offer" /\ c.phase = "sent"
      /\ UNCHANGED <<scene, db, inbox, page, doubt, late>>
  BY DEF AskServices, Hears, Becomes, Same, History
<1>2. TypeInv /\ \A x \in net : IsCall(x) /\ x.by \in Users
  BY CallFields DEF PageInv, TypeInv, AllCalls
<1>3. view \in Views /\ Seen(view) /\ Within(page[c.by].at, view)
  BY <1>2, PageFields DEF PageInv, RefersInv, WithinInv
<1>4. IsCall(d) /\ d.by = c.by /\ d.op = "offer" /\ d.phase = "ok" /\ d.view = view /\ d.old = c.old
  <2> HIDE DEF view
  <2> QED BY <1>1, <1>2, <1>3 DEF IsCall, CallOf, Phases
<1> HIDE DEF d
<1>5. TypeInv'
  BY <1>1, <1>2, <1>4 DEF TypeInv, AllCalls
<1>6. RefersInv'
  <2>1. Seen(d.view) /\ FitsCall(d)
    BY <1>3, <1>4 DEF FitsCall, Deciding
  <2> QED BY <1>1, <1>2, <2>1, RefersLift DEF PageInv, RefersInv
<1>7. CatchInv'
  <2>1. \A x \in net' : IsRead(x, "ok") => x \in net
    BY <1>1, <1>4 DEF IsRead
  <2>2. \A x \in net : x.op = "read" => x \in net'
    BY <1>1
  <2>3. \A v \in Users : Reads(v) => Reads(v)'
    BY <1>1, <2>2 DEF Reads, IsRead
  <2> QED BY <1>1, <2>1, <2>2, <2>3 DEF PageInv, CatchInv, IsRead
<1>8. WithinInv'
  BY <1>1, <1>3, <1>4 DEF PageInv, WithinInv
<1>9. OfferInv'
  <2>1. ASSUME NEW x \in net', x.op = "offer", x.phase = "ok", ~x.old PROVE x.view = page'[x.by].view
    <3>1. x = d \/ x \in net
      BY <1>1
    <3> QED BY <1>1, <1>4, <2>1, <3>1 DEF PageInv, OfferInv
  <2>2. ~d.old /\ \A x \in net' : x.op = "offer" /\ x.phase = "sent" => ~x.old
    BY <1>1, <1>4 DEF PageInv, OfferInv
  <2>3. \A v \in Users : Comes(v) => Comes(v)'
    BY <1>1, <1>4, <2>2 DEF Comes, Latest
  <2> QED BY <1>1, <2>1, <2>2, <2>3 DEF PageInv, OfferInv, Offer, Requested
<1> QED BY <1>5, <1>6, <1>7, <1>8, <1>9 DEF PageInv

LEMMA HearKeeps ==
  ASSUME PageInv, NEW c \in net, HearServices(c) \/ HearDone(c) \/ HearByMail(c) \/ HearUnhandled(c)
  PROVE  PageInv'
<1> DEFINE u == c.by
           p == page[u]
           Back1 == BackRead(u, c.op \in {"approve", "deny"})
           none == {}
<1>1. c.by \in Users /\ TypeInv
  BY CallFields DEF PageInv, TypeInv, AllCalls
<1>2. /\ p \in PageStates /\ Fits(p) /\ page = [page EXCEPT ![c.by] = p] /\ Heard(c.by, p)
  BY <1>1, PageFields DEF PageInv, RefersInv, Heard, TypeInv
<1>3. \A d \in none : IsCall(d) /\ d.by = c.by /\ d.op = "read" /\ d.phase = "sent" /\ d.view = NoView
  OBVIOUS
<1>4. \A cs : net' = net \ {c} /\ cs = none => net' = (net \ {c}) \union cs
  OBVIOUS
<1> HIDE DEF none
<1>5. CASE HearServices(c)
  <2> DEFINE offered == Offer(c.view)
             q == [p EXCEPT !.offered = offered, !.loading = FALSE]
  <2>1. /\ page' = [page EXCEPT ![c.by] = q] /\ net' = net \ {c} /\ c.op = "offer" /\ c.phase = "ok"
        /\ late' = (IF c.old THEN late \union {c.by} ELSE late \ {c.by})
        /\ UNCHANGED <<scene, db, inbox, doubt>>
    BY <1>5 DEF HearServices, Hears
  <2>2. offered \in SUBSET Pairs
    BY DEF Offer, Scope
  <2>3. /\ q \in PageStates /\ q.view = p.view /\ q.offered = offered /\ q.at = p.at /\ q.dialog = p.dialog
        /\ q.request = p.request /\ q.pair = p.pair /\ q.form = p.form
    <3> HIDE DEF offered
    <3> QED BY <1>2, <2>2 DEF PageStates
  <2> HIDE DEF q
  <2>4. Heard(c.by, q)
    BY <1>2, <2>3 DEF Heard, Fits
  <2>6. q.offered = Offer(q.view) \/ c.by \in late'
    <3>1. CASE c.old
      BY <2>1, <3>1
    <3>2. CASE ~c.old
      BY <2>1, <2>3, <3>2 DEF PageInv, OfferInv
    <3> QED BY <3>1, <3>2
  <2>5. /\ late' \in {late, late \ {c.by}, late \union {c.by}} /\ ~IsRead(c, "ok") /\ ~IsRead(c, "sent")
        /\ net' = (net \ {c}) \union none
    BY <1>4, <2>1 DEF IsRead
  <2> QED BY <1>3, <2>1, <2>4, <2>5, <2>6, HeardKeeps
<1>6. CASE HearDone(c)
  <2>1. /\ c.phase = "ok" /\ c.op \notin {"read", "offer"} /\ net' = (net \ {c}) \union {Back1} /\ Same
        /\ UNCHANGED page \/ page' = [page EXCEPT ![c.by] = Back(@)]
    BY <1>6 DEF HearDone, Hears, Becomes, BackRead
  <2>2. /\ IsCall(Back1) /\ Back1.by = u /\ Back1.op = "read" /\ Back1.phase = "sent" /\ Back1.view = NoView
    <3>1. (c.op \in {"approve", "deny"}) \in BOOLEAN
      OBVIOUS
    <3> QED BY <1>1, <3>1, BackType
  <2> DEFINE cs == {Back1}
  <2>3. \A d \in cs : IsCall(d) /\ d.by = c.by /\ d.op = "read" /\ d.phase = "sent" /\ d.view = NoView
    BY <2>2
  <2>4. net' = (net \ {c}) \union cs
    BY <2>1
  <2> HIDE DEF cs
  <2>5. UNCHANGED <<scene, db, inbox, doubt, late>>
    BY <2>1 DEF Same, History
  <2>6. \E q : /\ Heard(c.by, q) /\ page' = [page EXCEPT ![c.by] = q] /\ q.offered = page[c.by].offered
    <3>1. CASE UNCHANGED page
      BY <1>2, <3>1
    <3>2. CASE page' = [page EXCEPT ![c.by] = Back(@)]
      <4> DEFINE q == Back(p)
      <4>1. /\ q \in PageStates /\ q.view = p.view /\ q.offered = p.offered /\ q.at = p.at /\ q.dialog = p.dialog
            /\ q.request = p.request /\ q.pair = p.pair /\ q.form = NoPair
        BY <1>2 DEF PageStates, Back
      <4>2. page' = [page EXCEPT ![c.by] = q]
        BY <3>2
      <4> HIDE DEF q
      <4>3. Heard(c.by, q)
        BY <1>2, <4>1 DEF Heard, Fits
      <4> QED BY <4>1, <4>2, <4>3
    <3> QED BY <2>1, <3>1, <3>2
  <2>7. ~IsRead(c, "ok") /\ ~IsRead(c, "sent") /\ ~Latest(c)
    BY <2>1 DEF IsRead, Latest
  <2> QED BY <2>3, <2>4, <2>5, <2>6, <2>7, HeardKeeps
<1>7. CASE HearByMail(c)
  <2> DEFINE q == [p EXCEPT !.at = "away", !.dialog = "none"]
  <2>1. /\ page' = [page EXCEPT ![c.by] = q] /\ net' = net \ {c} /\ c.op \notin {"read", "offer"}
        /\ UNCHANGED <<scene, db, inbox, doubt, late>> /\ p.at \in {"mail", "away"}
    BY <1>7 DEF HearByMail, Hears, Same, History
  <2>2. /\ q \in PageStates /\ q.view = p.view /\ q.offered = p.offered /\ q.at = "away" /\ q.dialog = "none"
        /\ q.form = p.form
    BY <1>2 DEF PageStates
  <2> HIDE DEF q
  <2>3. Heard(c.by, q)
    BY <1>2, <2>1, <2>2 DEF Heard, Fits, Deciding
  <2> QED BY <1>3, <1>4, <2>1, <2>2, <2>3, HeardKeeps DEF IsRead, Latest
<1>8. CASE HearUnhandled(c)
  <2>1. /\ page' = [page EXCEPT ![c.by] = p] /\ net' = net \ {c} /\ c.phase = "failed"
        /\ UNCHANGED <<scene, db, inbox, doubt, late>>
    BY <1>2, <1>8 DEF HearUnhandled, Same, History
  <2> QED BY <1>2, <1>3, <1>4, <2>1, HeardKeeps DEF IsRead, Latest
<1> QED BY <1>5, <1>6, <1>7, <1>8

(* A reading is heard: the page shows what was read.                       *)
LEMMA HearReadKeeps ==
  ASSUME PageInv, NEW c \in net, HearRead(c)
  PROVE  PageInv'
<1> DEFINE u == c.by
           p == page[u]
           asks == p.at = "services" /\ c.back
           cs == IF asks THEN Lists(u, c.view, c.seen) ELSE {}
           Aged(x) == [x EXCEPT !.old = @ \/ (x.by = u /\ Hears(x, {"offer"}, "ok"))]
           p1 == [p EXCEPT !.view = c.view]
           q == IF c.back /\ p1.at = "requests" THEN [p1 EXCEPT !.loading = FALSE, !.selected = 0] ELSE p1
<1>1. /\ c.op = "read" /\ c.phase = "ok" /\ page' = [page EXCEPT ![u] = q]
      /\ net' = {Aged(x) : x \in net \ {c}} \union cs
      /\ doubt' = (IF c.old THEN doubt \union {u} ELSE doubt \ {u})
      /\ late' = (IF p.at = "services" /\ ~asks /\ ~Waiting(u) THEN late \union {u} ELSE late)
      /\ UNCHANGED <<scene, db, inbox>>
  BY DEF HearRead, Hears, Lists
<1>2. TypeInv /\ \A x \in net : IsCall(x) /\ x.by \in Users /\ x.view \in Views /\ x.old \in BOOLEAN
                                /\ x.seen \in BOOLEAN
  BY CallFields DEF PageInv, TypeInv, AllCalls
<1>3. p \in PageStates /\ Fits(p) /\ Seen(c.view) /\ Within(p.at, c.view)
  BY <1>2, PageFields DEF PageInv, RefersInv, WithinInv
<1>4. \A d \in cs : IsCall(d) /\ d.by = u /\ d.op = "offer" /\ d.phase = "ok" /\ d.view = c.view /\ ~d.old
  <2>1. \A d \in Lists(u, c.view, c.seen) :
          IsCall(d) /\ d.by = u /\ d.op = "offer" /\ d.phase = "ok" /\ d.view = c.view /\ ~d.old
    <3>1. c.by \in Users /\ c.view \in Views /\ c.seen \in BOOLEAN
      BY <1>2
    <3> QED BY <3>1, ListType
  <2> QED BY <2>1
<1>5. asks => cs # {}
  BY DEF Lists
<1>14. \A x \in net \ {c} : /\ Ages(x, Aged(x)) /\ Aged(x) \in net'
                           /\ Aged(x).old = (x.old \/ (x.by = u /\ Hears(x, {"offer"}, "ok")))
  <2> TAKE x \in net \ {c}
  <2> DEFINE old == x.old \/ (x.by = u /\ Hears(x, {"offer"}, "ok"))
             y == [x EXCEPT !.old = old]
  <2>1. old \in BOOLEAN /\ (x.old => old)
    BY <1>2
  <2>2. Ages(x, y) /\ y.old = old
    <3> HIDE DEF old
    <3> QED BY <1>2, <2>1, AgedType DEF Ages
  <2>3. Aged(x) \in net'
    BY <1>1
  <2> QED BY <2>2, <2>3
<1> HIDE DEF Aged
<1>15. \A y \in net' \ cs : \E x \in net \ {c} : /\ Ages(x, y)
          /\ y.old = (x.old \/ (x.by = u /\ Hears(x, {"offer"}, "ok")))
  BY <1>1, <1>14
<1>6. /\ q \in PageStates /\ q.view = c.view /\ q.offered = p.offered /\ q.at = p.at /\ q.dialog = p.dialog
      /\ q.request = p.request /\ q.pair = p.pair /\ q.form = p.form
  BY <1>2, <1>3 DEF PageStates
<1>7. page'[u] = q /\ \A v \in Users \ {u} : page'[v] = page[v]
  BY <1>1, <1>2 DEF TypeInv
<1> HIDE DEF q, cs
<1>8. \A v \in Users : page'[v].at = page[v].at /\ page'[v].offered = page[v].offered
  BY <1>6, <1>7
<1>9. TypeInv'
  <2>1. \A y \in net' : IsCall(y)
    BY <1>4, <1>15 DEF Ages, Alike
  <2> QED BY <1>1, <1>2, <1>6, <2>1 DEF TypeInv, AllCalls
<1>10. RefersInv'
  <2>1. \A v \in Users : /\ Seen(page'[v].view) /\ Fits(page'[v])
                         /\ page'[v].at = "mail" => Known(1, scene.reqs[1].pair)
    <3>1. Fits(q)
      BY <1>3, <1>6 DEF Fits
    <3> QED BY <1>3, <1>6, <1>7, <1>8, <3>1 DEF PageInv, RefersInv
  <2>2. \A d \in net' : Seen(d.view) /\ FitsCall(d)
    <3>1. \A d \in cs : Seen(d.view) /\ FitsCall(d)
      BY <1>3, <1>4 DEF FitsCall, Deciding
    <3>2. \A x \in net : Seen(x.view) /\ FitsCall(x)
      BY DEF PageInv, RefersInv
    <3>3. \A y \in net' \ cs : \E x \in net : y.view = x.view /\ y.op = x.op /\ y.request = x.request /\ y.pair = x.pair
      BY <1>15 DEF Ages, Alike
    <3> QED BY <3>1, <3>2, <3>3 DEF FitsCall
  <2> QED BY <1>1, <1>2, <2>1, <2>2, RefersLift
<1>11. CatchInv'
  <2>1. \A y \in net' : IsRead(y, "ok") => \E x \in net : IsRead(x, "ok") /\ x.by = y.by /\ x.view = y.view /\ (x.old => y.old)
    BY <1>4, <1>15 DEF IsRead, Ages, Alike
  <2>5. \A phase : \A x \in net \ {c} : IsRead(x, phase) => \E y \in net' : y.by = x.by /\ IsRead(y, phase)
    BY <1>14 DEF IsRead, Ages, Alike
  <2>2. \A v \in Users : Reads(v) => Reads(v)'
    BY <1>1, <2>5 DEF Reads, IsRead
  <2>3. \A x \in net' : IsRead(x, "ok") /\ ~x.old => x.view = View(page'[x.by].at, db')
    BY <1>1, <1>2, <1>8, <2>1 DEF PageInv, CatchInv
  <2>4. ASSUME NEW v \in Users \ doubt', page'[v].at \in Places \ {"mail"}
        PROVE  page'[v].view = View(page'[v].at, db') \/ Reads(v)' \/ \E x \in net' : x.by = v /\ IsRead(x, "ok")
    <3>1. CASE v = u
      <4>1. ~c.old
        BY <1>1, <2>4, <3>1
      <4>2. c.view = View(p.at, db)
        BY <1>1, <4>1 DEF PageInv, CatchInv, IsRead
      <4> QED BY <1>1, <1>6, <1>7, <3>1, <4>2
    <3>2. CASE v # u
      <4>1. v \notin doubt /\ page'[v] = page[v]
        BY <1>1, <1>7, <2>4, <3>2
      <4>2. page[v].view = View(page[v].at, db) \/ Reads(v) \/ \E x \in net : x.by = v /\ IsRead(x, "ok")
        BY <2>4, <4>1 DEF PageInv, CatchInv
      <4>3. \A x \in net : x.by = v /\ IsRead(x, "ok") => \E y \in net' : y.by = v /\ IsRead(y, "ok")
        BY <2>5, <3>2
      <4> QED BY <1>1, <2>2, <4>1, <4>2, <4>3
    <3> QED BY <3>1, <3>2
  <2> QED BY <2>3, <2>4 DEF CatchInv, IsRead
<1>12. WithinInv'
  <2>1. \A v \in Users : Within(page'[v].at, page'[v].view)
    BY <1>3, <1>6, <1>7 DEF PageInv, WithinInv
  <2>2. \A d \in cs : Within(page'[d.by].at, d.view)
    BY <1>2, <1>3, <1>4, <1>8
  <2>3. \A y \in net' \ cs : Within(page'[y.by].at, y.view)
    <3>1. \A y \in net' \ cs : \E x \in net : y.view = x.view /\ y.by = x.by
      BY <1>15 DEF Ages, Alike
    <3> QED BY <1>2, <1>8, <3>1 DEF PageInv, WithinInv
  <2> QED BY <2>1, <2>2, <2>3 DEF WithinInv
<1>13. OfferInv'
  <2>1. ASSUME NEW y \in net', y.op = "offer", y.phase = "ok", ~y.old PROVE y.view = page'[y.by].view
    <3>1. CASE y \in cs
      BY <1>4, <1>6, <1>7, <3>1
    <3>2. CASE y \notin cs
      <4>1. PICK x \in net \ {c} : Ages(x, y) /\ y.old = (x.old \/ (x.by = u /\ Hears(x, {"offer"}, "ok")))
        BY <1>15, <3>2
      <4>2. x.op = "offer" /\ x.phase = "ok" /\ x.by = y.by /\ x.view = y.view /\ ~x.old /\ x.by # u
        BY <2>1, <4>1 DEF Ages, Alike, Hears
      <4> QED BY <1>2, <1>7, <4>2 DEF PageInv, OfferInv
    <3> QED BY <3>1, <3>2
  <2>2. ASSUME NEW y \in net', y.op = "offer", y.phase = "sent" PROVE ~y.old
    <3>1. y \notin cs
      BY <1>4, <2>2
    <3>2. PICK x \in net \ {c} : Ages(x, y) /\ y.old = (x.old \/ (x.by = u /\ Hears(x, {"offer"}, "ok")))
      BY <1>15, <3>1
    <3> QED BY <2>2, <3>2 DEF Ages, Alike, Hears, PageInv, OfferInv
  <2>3. ASSUME NEW v \in Users \ late', page'[v].at = "services"
        PROVE  page'[v].offered = Offer(page'[v].view) \/ Comes(v)'
    <3>1. Waiting(v) => Comes(v)'
      BY <1>1, <1>14 DEF Waiting, Hears, Comes, Latest, Ages, Alike, PageInv, OfferInv
    <3>2. CASE v = u
      <4>1. asks \/ Waiting(u)
        BY <1>1, <1>8, <2>3, <3>2
      <4>2. asks => Comes(u)'
        BY <1>1, <1>4, <1>5 DEF Comes, Latest
      <4> QED BY <3>1, <3>2, <4>1, <4>2
    <3>3. CASE v # u
      <4>1. v \notin late /\ page'[v] = page[v]
        BY <1>1, <1>7, <2>3, <3>3
      <4>2. Comes(v) => Comes(v)'
        <5>1. \A x \in net : x.by = v /\ Latest(x) => Aged(x) \in net' /\ Aged(x).by = v /\ Latest(Aged(x))
          BY <1>1, <1>14, <3>3 DEF Ages, Alike, Latest
        <5> QED BY <5>1 DEF Comes
      <4> QED BY <2>3, <4>1, <4>2 DEF PageInv, OfferInv
    <3> QED BY <3>2, <3>3
  <2> QED BY <2>1, <2>2, <2>3 DEF OfferInv, Offer, Requested
<1> QED BY <1>9, <1>10, <1>11, <1>12, <1>13 DEF PageInv
LEMMA PageInit == Init => PageInv
<1> SUFFICES ASSUME Init PROVE PageInv
  OBVIOUS
<1>1. /\ scene \in Scenes /\ scene.reqs \in [Ids -> Requests] /\ scene.linked \in SUBSET Pairs
      /\ scene.at \in [Users -> Places \union {"away"}]
  BY SceneAssumption DEF Init
<1>2. db = [rows |-> [p \in Pairs |-> IF p \in scene.linked THEN 1 ELSE 0], reqs |-> scene.reqs]
  BY DEF Init
<1>3. db \in Databases /\ db.reqs = scene.reqs
  BY <1>1, <1>2 DEF Databases
<1>4. /\ net = {} /\ inbox = {} /\ doubt = {} /\ late = {}
      /\ \A u \in Users : page[u] = Opened(scene.at[u], db)
      /\ page = [u \in Users |-> Opened(scene.at[u], db)]
  BY DEF Init
<1>5. ASSUME NEW at \in Places \union {"away"}
      PROVE  LET p == Opened(at, db) IN
             /\ p \in PageStates /\ p.at = at /\ p.dialog = "none" /\ p.form = NoPair
             /\ p.view = IF at = "away" THEN NoView ELSE View(at, db)
             /\ at = "services" => p.offered = Offer(p.view)
  <2> DEFINE view == IF at = "away" THEN NoView ELSE View(at, db)
             offered == IF at = "services" THEN Offer(view) ELSE {}
             p == Opened(at, db)
  <2>1. view \in Views
    BY <1>3, ViewType
  <2>2. offered \in SUBSET Pairs
    BY DEF Offer, Scope
  <2>3. p = [at |-> at, view |-> view, offered |-> offered, loading |-> FALSE, dialog |-> "none",
             pair |-> NoPair, request |-> 0, policy |-> FALSE, form |-> NoPair, message |-> FALSE,
             selected |-> IF at = "mail" THEN 1 ELSE 0, checked |-> {}, n |-> 0]
    BY DEF Opened
  <2>4. p \in PageStates /\ p.at = at /\ p.dialog = "none" /\ p.form = NoPair /\ p.view = view
        /\ p.offered = offered
    <3> HIDE DEF view, offered, p
    <3> QED BY <2>1, <2>2, <2>3 DEF PageStates, Ids
  <2> QED BY <2>4
<1>6. TypeInv
  BY <1>1, <1>3, <1>4, <1>5 DEF TypeInv, AllCalls
<1>7. \A u \in Users : scene.at[u] \in Places \union {"away"}
  BY <1>1
<1>8. RefersInv
  <2>1. ASSUME NEW u \in Users PROVE Seen(page[u].view) /\ Fits(page[u])
    BY <1>4, <1>5, <1>6, <1>7, ViewSeen DEF Fits, Deciding
  <2>2. ASSUME NEW u \in Users, page[u].at = "mail" PROVE Known(1, scene.reqs[1].pair)
    <3>1. scene.at[u] = "mail"
      BY <1>4, <1>5, <1>7, <2>2
    <3>2. scene.reqs[1].status # "none"
      BY <1>1, <3>1, MailAssumption
    <3>3. 1 \in Ids /\ scene.reqs[1].pair \in Pairs
      BY <1>1 DEF Ids, Requests
    <3> QED BY <1>3, <3>2, <3>3 DEF Known
  <2> QED BY <1>4, <2>1, <2>2 DEF RefersInv
<1>9. CatchInv
  BY <1>4, <1>5, <1>7 DEF CatchInv, Places
<1>10. WithinInv
  BY <1>3, <1>4, <1>5, <1>7, ViewWithin DEF WithinInv
<1>11. OfferInv
  BY <1>4, <1>5, <1>7 DEF OfferInv
<1> QED BY <1>6, <1>8, <1>9, <1>10, <1>11 DEF PageInv

LEMMA PageStep == PageInv /\ [Next]_vars => PageInv'
<1> SUFFICES ASSUME PageInv, [Next]_vars PROVE PageInv'
  OBVIOUS
<1>1. TypeInv /\ RefersInv
  BY DEF PageInv
<1>2. CASE Person
  <2>1. \E u \in Users : Acted(u)
    BY <1>1, <1>2, PersonActs DEF Person
  <2> QED BY <2>1, PersonKeeps
<1>3. CASE Server
  <2>1. PICK c \in net :
          \/ ServeRead(c) \/ BeginLink(c) \/ CommitLink(c) \/ ServeUnlink(c) \/ ServeDrop(c)
          \/ BeginAsk(c) \/ CommitAsk(c) \/ BeginApprove(c) \/ ConnectApproved(c) \/ MailApproved(c)
          \/ BeginDeny(c) \/ BeginRemove(c) \/ CommitGone(c) \/ ServeResend(c)
    BY <1>3 DEF Server
  <2>2. CASE ServeRead(c)
    BY <2>2, ReadKeeps
  <2>3. CASE ~ServeRead(c)
    BY <1>1, <2>1, <2>3, ServerSteps, MovesKeeps, CommitKeeps
  <2> QED BY <2>2, <2>3
<1>4. CASE Browser
  BY <1>4, ReceiveKeeps, HearReadKeeps, AskKeeps, HearKeeps DEF Browser
<1>5. CASE UNCHANGED vars
  BY <1>5 DEF vars, PageInv, TypeInv, AllCalls, RefersInv, CatchInv, WithinInv, OfferInv, Known, Seen, Fits,
              FitsCall, IsRead, Reads, View, Comes, Latest, Offer, Requested
<1> QED BY <1>2, <1>3, <1>4, <1>5 DEF Next

(* Types, what pages and calls refer to, that pages show or are about to   *)
(* read what the database holds, and what their offers were made of.       *)
THEOREM PagesRefer == Spec => []PageInv
BY PageInit, PageStep, PTL DEF Spec

(* Messages bring every page up to date, however commits, readings and     *)
(* answers come between each other.                                        *)
THEOREM CaughtUp == Spec => []PagesCatchUp
<1>1. PageInv => PagesCatchUp
  BY DEF PageInv, CatchInv, PagesCatchUp, Reads
<1> QED BY <1>1, PagesRefer, PTL

(* A service is on the page once, save where a reading overtook the list   *)
(* of services that was asked for before it.                               *)
THEOREM ListedForAll == Spec => []ListedOnce
<1>1. PageInv => ListedOnce
  <2> SUFFICES ASSUME PageInv, NEW u \in Users \ late, page[u].at = "services", Rests(u)
               PROVE  /\ page[u].offered \intersect (page[u].view.linked \union Requested(page[u].view)) = {}
                      /\ page[u].offered \union page[u].view.linked \union Requested(page[u].view)
                           = Scope("services")
    BY DEF ListedOnce
  <2>1. page[u].offered = Offer(page[u].view)
    BY DEF PageInv, OfferInv, Rests, Comes
  <2>2. page[u].view.linked \subseteq Scope("services") /\ Requested(page[u].view) \subseteq Scope("services")
    BY DEF PageInv, WithinInv, Within, Requested
  <2> QED BY <2>1, <2>2 DEF Offer
<1> QED BY <1>1, PagesRefer, PTL
-------------------------------------------------------------------------------
(* Connected or asked for.                                                 *)

(* Handlers that work on a pair, and what they rely on when nobody else    *)
(* does: what they found before the commit is still so.                    *)
Busy == {c \in net : Working(c)}
Holds(c) ==
  /\ c.op \in {"link", "approve"} /\ c.phase = "begun" /\ ~c.seen => db.rows[c.pair] = 0
  /\ c.op = "ask" /\ c.phase = "begun" => Asks(c.pair) = {}
  /\ c.op \in {"approve", "deny", "remove"} => Open(db.reqs[c.request])
WorkInv ==
  /\ \A p \in Pairs \ overlaps : \A c, d \in Busy : c.pair = p /\ d.pair = p => c = d
  /\ \A c \in Busy : c.pair \in Pairs \ overlaps => Holds(c)
  /\ \A p \in Pairs \ overlaps : db.rows[p] <= 1 /\ \A i, j \in Asks(p) : i = j
  /\ \A i \in Ids : Open(db.reqs[i]) => db.reqs[i].pair[2] \notin scene.automatic
  /\ \A p \in Pairs \ (stray \union overlaps) :
       db.rows[p] > 0 /\ Asks(p) # {} => \E c \in Busy : c.pair = p

LEMMA WorkIdle ==
  ASSUME WorkInv, Busy' = Busy, UNCHANGED <<scene, db, overlaps>>, stray \subseteq stray'
  PROVE  WorkInv'
BY DEF WorkInv, Holds, Asks

LEMMA WorkBegins ==
  ASSUME WorkInv, NEW d, Busy' = Busy \union {d}, Holds(d), UNCHANGED <<scene, db, stray>>,
         overlaps' = IF \E x \in Busy : x.pair = d.pair THEN overlaps \union {d.pair} ELSE overlaps
  PROVE  WorkInv'
BY DEF WorkInv, Holds, Asks

(* A handler commits, alone or not, and goes on or is done.                *)
LEMMA WorkCommits ==
  ASSUME WorkInv, TypeInv, RefersInv, NEW c \in Busy, c.pair \in Pairs, NEW ds, Busy' = (Busy \ {c}) \union ds,
         \A d, e \in ds : d = e, UNCHANGED <<scene, overlaps>>, stray \subseteq stray',
         \A d \in ds : d.pair = c.pair /\ (c.pair \notin overlaps => Holds(d)'),
         \A p \in Pairs \ {c.pair} : db'.rows[p] = db.rows[p] /\ Asks(p)' = Asks(p),
         \A i \in Ids : Open(db.reqs[i]) /\ db.reqs[i].pair # c.pair => Open(db'.reqs[i]),
         \A i \in Ids : Open(db'.reqs[i]) => db'.reqs[i].pair[2] \notin scene.automatic,
         c.pair \notin overlaps => db'.rows[c.pair] <= 1 /\ \A i, j \in Asks(c.pair)' : i = j,
         c.pair \notin stray' \union overlaps /\ db'.rows[c.pair] > 0 /\ Asks(c.pair)' # {} => ds # {}
  PROVE  WorkInv'
<1>1. \A p \in Pairs \ overlaps' : \A x, y \in Busy' : x.pair = p /\ y.pair = p => x = y
  BY DEF WorkInv
<1>2. ASSUME NEW x \in Busy', x.pair \in Pairs \ overlaps' PROVE Holds(x)'
  <2>1. CASE x \in ds
    BY <1>2, <2>1
  <2>2. CASE x \notin ds
    <3>1. x \in Busy \ {c} /\ x \in net /\ Holds(x)
      BY <1>2, <2>2 DEF WorkInv, Busy
    <3>2. x.pair # c.pair
      BY <1>2, <3>1 DEF WorkInv
    <3>3. x.op \in {"approve", "deny", "remove"} => Known(x.request, x.pair)
      BY <3>1 DEF RefersInv, FitsCall, Deciding
    <3>4. db'.rows[x.pair] = db.rows[x.pair] /\ Asks(x.pair)' = Asks(x.pair)
      BY <1>2, <3>2
    <3>5. x.op \in {"approve", "deny", "remove"} => Open(db'.reqs[x.request])
      BY <3>1, <3>2, <3>3 DEF Holds, Known
    <3> QED BY <3>1, <3>4, <3>5 DEF Holds, Asks
  <2> QED BY <2>1, <2>2
<1>3. \A p \in Pairs \ overlaps' : db'.rows[p] <= 1 /\ \A i, j \in Asks(p)' : i = j
  BY DEF WorkInv
<1>4. ASSUME NEW p \in Pairs \ (stray' \union overlaps'), db'.rows[p] > 0, Asks(p)' # {}
      PROVE  \E x \in Busy' : x.pair = p
  <2>1. CASE p = c.pair
    BY <1>4, <2>1
  <2>2. CASE p # c.pair
    BY <1>4, <2>2 DEF WorkInv
  <2> QED BY <2>1, <2>2
<1> QED BY <1>1, <1>2, <1>3, <1>4 DEF WorkInv, Asks

(* A pair is disconnected, whoever works on it.                            *)
LEMMA WorkRemoves ==
  ASSUME WorkInv, TypeInv, NEW pair \in Pairs, db' = [db EXCEPT !.rows[pair] = 0], Busy' = Busy,
         UNCHANGED <<scene, overlaps, stray>>
  PROVE  WorkInv'
<1>1. db.rows \in [Pairs -> Nat] /\ db \in Databases
  BY DEF TypeInv, Databases
<1>2. db'.reqs = db.reqs /\ db'.rows[pair] = 0 /\ \A p \in Pairs \ {pair} : db'.rows[p] = db.rows[p]
  BY <1>1 DEF Databases
<1>3. \A p : Asks(p)' = Asks(p)
  BY <1>2 DEF Asks
<1> QED BY <1>2, <1>3 DEF WorkInv, Holds

LEMMA WorkInit == Init => WorkInv
<1> SUFFICES ASSUME Init PROVE WorkInv
  OBVIOUS
<1>1. /\ scene \in Scenes /\ scene.reqs \in [Ids -> Requests] /\ scene.linked \in SUBSET Pairs
  BY SceneAssumption DEF Init
<1>2. db.rows = [p \in Pairs |-> IF p \in scene.linked THEN 1 ELSE 0] /\ db.reqs = scene.reqs
  BY DEF Init
<1>3. Busy = {}
  BY DEF Init, Busy
<1>4. \A i \in Ids : Open(db.reqs[i]) =>
        /\ db.reqs[i].pair \notin scene.linked /\ db.reqs[i].pair[2] \notin scene.automatic
        /\ \A j \in Ids : Open(db.reqs[j]) /\ db.reqs[j].pair = db.reqs[i].pair => j = i
  BY <1>1, <1>2, RequestAssumption DEF Open
<1> QED BY <1>2, <1>3, <1>4 DEF WorkInv, Asks

-------------------------------------------------------------------------------
(* Who works after a step.                                                 *)
LEMMA BusyBecomes ==
  ASSUME NEW c \in net, NEW d, Becomes(c, d)
  PROVE  /\ Working(d) => Busy' = (Busy \ {c}) \union {d}
         /\ ~Working(d) => Busy' = Busy \ {c}
BY DEF Becomes, Busy, Working

LEMMA AgedSame ==
  ASSUME NEW x, IsCall(x), Working(x)
  PROVE  [x EXCEPT !.old = @ \/ IsRead(x, "ok")] = x
<1>1. ~IsRead(x, "ok") /\ x.old \in BOOLEAN
  BY CallFields DEF Working, IsRead
<1>2. (x.old \/ IsRead(x, "ok")) = x.old
  BY <1>1
<1>3. [x EXCEPT !.old = x.old] = x
  BY DEF IsCall, CallOf
<1> QED BY <1>2, <1>3

LEMMA AgedWorks ==
  ASSUME NEW x, IsCall(x), NEW old \in BOOLEAN, Working([x EXCEPT !.old = old])
  PROVE  Working(x)
BY AgedType DEF Working, Alike

LEMMA BusyCommits ==
  ASSUME TypeInv, NEW c \in net, NEW d, NEW answer, NEW pair, NEW announced,
         Commits(c, d, answer, pair, announced)
  PROVE  /\ Working(answer) => Busy' = (Busy \ {c}) \union {answer}
         /\ ~Working(answer) => Busy' = Busy \ {c}
<1> DEFINE Aged(x) == [x EXCEPT !.old = @ \/ IsRead(x, "ok")]
<1>1. net' = {Aged(x) : x \in net \ {c}} \union {answer}
  BY DEF Commits
<1>2. \A x \in net : Working(x) => Aged(x) = x
  BY AgedSame DEF TypeInv, AllCalls
<1>3. \A x \in net : Working(Aged(x)) => Working(x)
  <2> TAKE x \in net
  <2> DEFINE old == x.old \/ IsRead(x, "ok")
  <2>1. old \in BOOLEAN /\ IsCall(x)
    BY CallFields DEF TypeInv, AllCalls
  <2>2. Working([x EXCEPT !.old = old]) => Working(x)
    <3> HIDE DEF old
    <3> QED BY <2>1, AgedWorks
  <2> QED BY <2>2
<1> HIDE DEF Aged
<1> QED BY <1>1, <1>2, <1>3 DEF Busy
(* The call of a handler that went on to phase.                            *)
Turned(c, d, phase, seen) ==
  d.pair = c.pair /\ d.op = c.op /\ d.request = c.request /\ d.phase = phase /\ d.seen = seen
LEMMA TurnedTypes ==
  ASSUME NEW c, IsCall(c), NEW phase, NEW seen
  PROVE  /\ Turned(c, [c EXCEPT !.phase = phase], phase, c.seen)
         /\ Turned(c, [c EXCEPT !.phase = phase, !.seen = seen], phase, seen)
BY DEF Turned, IsCall, CallOf

LEMMA PersonWorks ==
  ASSUME WorkInv, NEW u \in Users, Acted(u) PROVE WorkInv'
<1>1. PICK cs : net' = net \union cs /\ \A c \in cs : Fresh(u, c)
  BY DEF Acted
<1>2. Busy' = Busy
  BY <1>1 DEF Busy, Working, Fresh
<1>3. UNCHANGED <<scene, db, stray, overlaps>>
  BY DEF Acted, Same, History
<1> QED BY <1>2, <1>3, WorkIdle

LEMMA BrowserWorks ==
  ASSUME WorkInv, TypeInv, Browser PROVE WorkInv'
<1>1. UNCHANGED <<scene, db, stray, overlaps>>
  BY DEF Browser, Receive, HearRead, AskServices, HearServices, HearDone, HearByMail, HearUnhandled, Same, History
<1>2. \A c \in net : c.by \in Users
  BY CallFields DEF TypeInv, AllCalls
<1>3. \A u \in Users, op \in {"read", "offer"} : Call(u, op).phase = "sent"
  BY ReadCallType
<1>4. Busy' = Busy
  <2>1. CASE \E u \in Users : Receive(u)
    <3>1. PICK u \in Users : net' = net \union {Call(u, "read")}
                              \union (IF page[u].at = "services" THEN {Call(u, "offer")} ELSE {})
      BY <2>1 DEF Receive
    <3>2. \A op \in {"read", "offer"} : ~Working(Call(u, op))
      BY <1>3 DEF Working
    <3> QED BY <3>1, <3>2 DEF Busy
  <2>2. CASE \E c \in net : HearRead(c)
    <3>1. PICK c \in net : HearRead(c)
      BY <2>2
    <3>2. ~Working(c)
      BY <3>1 DEF HearRead, Hears, Working
    <3> DEFINE cs == Lists(c.by, c.view, c.seen)
               Aged(x) == [x EXCEPT !.old = @ \/ (x.by = c.by /\ Hears(x, {"offer"}, "ok"))]
    <3>3. \A d \in cs : ~Working(d)
      <4>1. c.view \in Views /\ c.seen \in BOOLEAN /\ c.by \in Users
        BY CallFields DEF TypeInv, AllCalls
      <4>2. \A d \in cs : d.phase = "ok"
        BY <4>1, ListType
      <4> QED BY <4>2 DEF Working
    <3>4. \E ds \in SUBSET cs : net' = {Aged(x) : x \in net \ {c}} \union ds
      BY <3>1 DEF HearRead, Lists
    <3>5. \A x \in net : (Working(x) => Aged(x) = x) /\ (Working(Aged(x)) => Working(x))
      <4> TAKE x \in net
      <4>1. IsCall(x) /\ x.old \in BOOLEAN
        BY CallFields DEF TypeInv, AllCalls
      <4>2. Working(x) => (x.old \/ (x.by = c.by /\ Hears(x, {"offer"}, "ok"))) = x.old
        BY <4>1 DEF Working, Hears
      <4>3. [x EXCEPT !.old = x.old] = x
        BY <4>1 DEF IsCall, CallOf
      <4>4. Aged(x).phase = x.phase
        BY <4>1 DEF IsCall, CallOf
      <4> QED BY <4>2, <4>3, <4>4 DEF Working
    <3> HIDE DEF cs, Aged
    <3>7. PICK ds \in SUBSET cs : net' = {Aged(x) : x \in net \ {c}} \union ds
      BY <3>4
    <3>8. ASSUME NEW y \in Busy' PROVE y \in Busy
      <4>1. y \in net' /\ Working(y)
        BY <3>8 DEF Busy, Working
      <4>2. PICK x \in net \ {c} : y = Aged(x)
        BY <3>3, <3>7, <4>1
      <4>3. Working(x)
        BY <3>5, <4>1, <4>2
      <4>4. y = x
        BY <3>5, <4>2, <4>3
      <4> QED BY <4>3, <4>4 DEF Busy
    <3>9. ASSUME NEW y \in Busy PROVE y \in Busy'
      <4>1. y \in net \ {c} /\ Working(y)
        BY <3>2, <3>9 DEF Busy
      <4>2. Aged(y) = y
        BY <3>5, <4>1
      <4>3. y \in net'
        BY <3>7, <4>1, <4>2
      <4> QED BY <4>1, <4>3 DEF Busy, Working
    <3> QED BY <3>8, <3>9
  <2>3. CASE \E c \in net : HearDone(c)
    <3>1. PICK c \in net : HearDone(c)
      BY <2>3
    <3>2. ~Working(c)
      BY <3>1 DEF HearDone, Hears, Working
    <3> DEFINE d == BackRead(c.by, c.op \in {"approve", "deny"})
    <3>3. ~Working(d)
      <4>1. (c.op \in {"approve", "deny"}) \in BOOLEAN
        OBVIOUS
      <4> QED BY <1>2, <4>1, BackType DEF Working
    <3>4. Becomes(c, d)
      BY <3>1 DEF HearDone, BackRead
    <3> HIDE DEF d
    <3> QED BY <3>2, <3>3, <3>4 DEF Busy, Becomes
  <2>5. CASE \E c \in net : AskServices(c)
    <3>1. PICK c \in net : AskServices(c)
      BY <2>5
    <3> DEFINE view == page[c.by].view
               d == [c EXCEPT !.phase = "ok", !.view = view]
    <3>2. Becomes(c, d) /\ ~Working(c)
      BY <3>1 DEF AskServices, Hears, Working
    <3>3. d.phase = "ok"
      <4>1. IsCall(c)
        BY DEF TypeInv, AllCalls
      <4> HIDE DEF view
      <4> QED BY <4>1 DEF IsCall, CallOf
    <3> HIDE DEF d
    <3> QED BY <3>2, <3>3 DEF Busy, Becomes, Working
  <2>4. CASE \E c \in net : HearServices(c) \/ HearByMail(c) \/ HearUnhandled(c)
    BY <2>4 DEF HearServices, HearByMail, HearUnhandled, Hears, Working, Busy
  <2> QED BY <2>1, <2>2, <2>3, <2>4, <2>5 DEF Browser
<1> QED BY <1>1, <1>4, WorkIdle

LEMMA AnsweredRests ==
  ASSUME NEW d, IsCall(d), d.phase = "sent" PROVE ~Working(Answered(d))
<1>1. \A phase : Turned(d, [d EXCEPT !.phase = phase], phase, d.seen)
  BY TurnedTypes
<1>2. \E phase \in {"sent", "ok", "failed"} : Answered(d) = d \/ Answered(d) = [d EXCEPT !.phase = phase]
  BY DEF Answered
<1> QED BY <1>1, <1>2 DEF Working, Turned

(* The pair of a call loses its rows, or the call fails.                   *)
LEMMA RemovesWorks ==
  ASSUME WorkInv, TypeInv, NEW c \in net, c.phase = "sent", NEW pair \in Pairs, NEW d, Alike(c, d), d.phase = "sent",
         NEW failed, Alike(c, failed), failed.phase = "sent", failed = [d EXCEPT !.failed = TRUE], Removes(c, pair, d)
  PROVE  WorkInv'
<1>1. ~Working(Answered(d)) /\ ~Working(Answered(failed)) /\ ~Working(c)
  BY AnsweredRests DEF Alike, Working
<1>2. CASE Commits(c, [db EXCEPT !.rows[pair] = 0], Answered(d), pair, TRUE) /\ UNCHANGED <<stray, overlaps>>
  <2>1. Busy' = Busy
    BY <1>1, <1>2, BusyCommits DEF Busy
  <2>2. db' = [db EXCEPT !.rows[pair] = 0] /\ UNCHANGED scene
    BY <1>2 DEF Commits, Quiet
  <2> QED BY <1>2, <2>1, <2>2, WorkRemoves
<1>3. CASE Becomes(c, Answered(failed)) /\ Same
  <2>1. Busy' = Busy
    BY <1>1, <1>3, BusyBecomes DEF Busy
  <2> QED BY <1>3, <2>1, WorkIdle DEF Same, History
<1> QED BY <1>2, <1>3 DEF Removes

LEMMA ServerWorks ==
  ASSUME WorkInv, TypeInv, RefersInv, NEW c \in net,
         \/ ServeRead(c) \/ BeginLink(c) \/ CommitLink(c) \/ ServeUnlink(c) \/ ServeDrop(c)
         \/ BeginAsk(c) \/ CommitAsk(c) \/ BeginApprove(c) \/ ConnectApproved(c) \/ MailApproved(c)
         \/ BeginDeny(c) \/ BeginRemove(c) \/ CommitGone(c) \/ ServeResend(c)
  PROVE  WorkInv'
<1>1. /\ IsCall(c) /\ c.pairs \in SUBSET Pairs /\ c.seen \in BOOLEAN /\ FitsCall(c)
  BY CallFields DEF TypeInv, AllCalls, RefersInv
<1>2. /\ db \in Databases /\ db.rows \in [Pairs -> Nat] /\ db.reqs \in [Ids -> Requests]
  BY DEF TypeInv, Databases
<1>3. \A phase, seen : /\ Turned(c, [c EXCEPT !.phase = phase], phase, c.seen)
                      /\ Turned(c, [c EXCEPT !.phase = phase, !.seen = seen], phase, seen)
  BY <1>1, TurnedTypes
<1>4. ASSUME NEW d, ~Working(c), ~Working(d), Becomes(c, d), Same PROVE WorkInv'
  <2>1. Busy' = Busy
    BY <1>4, BusyBecomes DEF Busy
  <2> QED BY <1>4, <2>1, WorkIdle DEF Same, History
<1>5. ASSUME c.phase = "sent", Fails(c) PROVE WorkInv'
  BY <1>3, <1>4, <1>5 DEF Fails, Working, Turned
(* A handler begins.                                                       *)
<1>6. ASSUME NEW d, NEW phase \in {"begun", "mailed"}, NEW seen, Turned(c, d, phase, seen),
             c.phase = "sent", Begins(c, c.pair, d), Holds(d)
      PROVE  WorkInv'
  <2>1. Working(d) /\ ~Working(c) /\ d.pair = c.pair
    BY <1>6 DEF Working, Turned
  <2>2. Busy' = Busy \union {d}
    BY <1>6, <2>1, BusyBecomes DEF Begins, Busy
  <2>3. (\E x \in net \ {c} : Working(x) /\ x.pair = c.pair) <=> \E x \in Busy : x.pair = d.pair
    BY <2>1 DEF Busy
  <2> QED BY <1>6, <2>1, <2>2, <2>3, WorkBegins DEF Begins, Quiet
(* It connects the pair: a row more when there was none.                   *)
<1>7. /\ Connected(c).reqs = db.reqs
      /\ \A p \in Pairs \ {c.pair} : Connected(c).rows[p] = db.rows[p]
      /\ c.pair \in Pairs => Connected(c).rows[c.pair] = IF c.seen THEN db.rows[c.pair] ELSE db.rows[c.pair] + 1
  BY <1>2 DEF Connected, Databases
<1>8. ASSUME c.op \in {"link", "approve"}, c.phase = "begun", c.pair \in Pairs \ overlaps
      PROVE  Connected(c).rows[c.pair] <= 1
  <2>1. c \in Busy /\ Holds(c) /\ db.rows[c.pair] <= 1 /\ db.rows[c.pair] \in Nat
    BY <1>2, <1>8 DEF WorkInv, Busy, Working
  <2> QED BY <1>1, <1>7, <1>8, <2>1 DEF Holds
<1>9. CASE ServeRead(c)
  <2> DEFINE Aged(x) == [x EXCEPT !.old = @ \/ (IsRead(x, "ok") /\ x.by = c.by)]
             answer == [c EXCEPT !.phase = "ok", !.view = View(page[c.by].at, db)]
  <2>1. net' = {Aged(x) : x \in net \ {c}} \union {answer} /\ c.phase = "sent" /\ Same
    BY <1>9 DEF ServeRead, Serves
  <2>2. ~Working(answer) /\ ~Working(c)
    <3>1. answer.phase = "ok"
      <4> DEFINE view == View(page[c.by].at, db)
      <4>1. [c EXCEPT !.phase = "ok", !.view = view].phase = "ok"
        <5> HIDE DEF view
        <5> QED BY <1>1 DEF IsCall, CallOf
      <4> QED BY <4>1
    <3> HIDE DEF answer
    <3> QED BY <2>1, <3>1 DEF Working
  <2>3. \A x \in net : IsCall(x) /\ x.old \in BOOLEAN
    BY CallFields DEF TypeInv, AllCalls
  <2>4. \A x \in net : Working(x) => Aged(x) = x
    <3> TAKE x \in net
    <3> HAVE Working(x)
    <3>1. (x.old \/ (IsRead(x, "ok") /\ x.by = c.by)) = x.old
      BY <2>3 DEF Working, IsRead
    <3>2. [x EXCEPT !.old = x.old] = x
      BY <2>3 DEF IsCall, CallOf
    <3> QED BY <3>1, <3>2
  <2>5. \A x \in net : Working(Aged(x)) => Working(x)
    <3> TAKE x \in net
    <3> DEFINE old == x.old \/ (IsRead(x, "ok") /\ x.by = c.by)
    <3>1. old \in BOOLEAN
      BY <2>3
    <3>2. Working([x EXCEPT !.old = old]) => Working(x)
      <4> HIDE DEF old
      <4> QED BY <2>3, <3>1, AgedWorks
    <3> QED BY <3>2
  <2> HIDE DEF Aged, answer
  <2>6. Busy' = Busy
    BY <2>1, <2>2, <2>4, <2>5 DEF Busy
  <2> QED BY <2>1, <2>6, WorkIdle DEF Same, History
<1>10. CASE BeginLink(c)
  <2> DEFINE seen == db.rows[c.pair] > 0
             d == [c EXCEPT !.phase = "begun", !.seen = seen]
  <2>1. Begins(c, c.pair, d) /\ c.op = "link" /\ c.phase = "sent"
    BY <1>10 DEF BeginLink, Serves
  <2>2. Turned(c, d, "begun", seen)
    BY <1>3
  <2> HIDE DEF d
  <2>3. db.rows[c.pair] \in Nat
    BY <1>1, <1>2, <2>1 DEF FitsCall
  <2>4. ~d.seen => ~seen
    <3> HIDE DEF seen
    <3> QED BY <2>2, Zenon DEF Turned
  <2>5. Holds(d)
    BY <2>1, <2>2, <2>3, <2>4 DEF Holds, Turned
  <2> QED BY <1>6, <2>1, <2>2, <2>5
<1>11. CASE BeginAsk(c)
  <2> DEFINE d == [c EXCEPT !.phase = "begun"]
  <2>1. CASE Fails(c)
    BY <1>5, <1>11, <2>1 DEF BeginAsk, Serves
  <2>2. CASE Begins(c, c.pair, d) /\ ~\E i \in Ids : Open(db.reqs[i]) /\ db.reqs[i].pair = c.pair
    <3>1. Turned(c, d, "begun", c.seen) /\ c.op = "ask" /\ c.phase = "sent"
      BY <1>3, <1>11 DEF BeginAsk, Serves
    <3> HIDE DEF d
    <3>2. Holds(d)
      BY <2>2, <3>1 DEF Holds, Turned, Asks
    <3> QED BY <1>6, <2>2, <3>1, <3>2
  <2> QED BY <1>11, <2>1, <2>2 DEF BeginAsk
<1>12. CASE BeginApprove(c)
  <2> DEFINE seen == db.rows[c.pair] > 0
             d == [c EXCEPT !.phase = "begun", !.seen = seen]
  <2>1. CASE Fails(c)
    BY <1>5, <1>12, <2>1 DEF BeginApprove, Serves
  <2>2. CASE Begins(c, c.pair, d) /\ Found(c)
    <3>1. Turned(c, d, "begun", seen) /\ c.op = "approve" /\ c.phase = "sent"
      BY <1>3, <1>12 DEF BeginApprove, Serves
    <3> HIDE DEF d
    <3>2. db.rows[c.pair] \in Nat
      BY <1>1, <1>2, <3>1 DEF FitsCall, Known, Deciding
    <3>3. ~d.seen => ~seen
      <4> HIDE DEF seen
      <4> QED BY <3>1, Zenon DEF Turned
    <3>4. Holds(d)
      BY <2>2, <3>1, <3>2, <3>3 DEF Holds, Turned, Found
    <3> QED BY <1>6, <2>2, <3>1, <3>4
  <2> QED BY <1>12, <2>1, <2>2 DEF BeginApprove
<1>13. CASE BeginDeny(c) \/ BeginRemove(c)
  <2> DEFINE d == [c EXCEPT !.phase = "mailed"]
  <2>1. c.phase = "sent" /\ c.op \in {"deny", "remove"} /\ (Fails(c) \/ (Begins(c, c.pair, d) /\ Found(c)))
    BY <1>13 DEF BeginDeny, BeginRemove, Serves
  <2>2. CASE Fails(c)
    BY <1>5, <2>1, <2>2
  <2>3. CASE Begins(c, c.pair, d) /\ Found(c)
    <3>1. Turned(c, d, "mailed", c.seen)
      BY <1>3
    <3> HIDE DEF d
    <3>2. Holds(d)
      BY <2>1, <2>3, <3>1 DEF Holds, Turned, Found
    <3> QED BY <1>6, <2>1, <2>3, <3>1, <3>2
  <2> QED BY <2>1, <2>2, <2>3
<1>14. CASE ServeResend(c)
  <2>1. c.phase = "sent" /\ (Fails(c) \/ (Becomes(c, [c EXCEPT !.phase = "ok"]) /\ Same))
    BY <1>14 DEF ServeResend, Serves
  <2> QED BY <1>3, <1>4, <1>5, <2>1 DEF Working, Turned<1>15. CASE ServeUnlink(c)
  <2> DEFINE failed == [c EXCEPT !.failed = TRUE]
  <2>1. c.phase = "sent" /\ c.pair \in Pairs /\ Removes(c, c.pair, c)
    BY <1>1, <1>15 DEF ServeUnlink, Serves, FitsCall
  <2>2. IsCall(c)
    BY <1>1
  <2>3. Alike(c, c) /\ Alike(c, failed) /\ failed.phase = "sent"
    BY <2>1, <2>2, FailedType
  <2> HIDE DEF failed
  <2> QED BY <2>1, <2>3, RemovesWorks DEF failed
<1>16. CASE ServeDrop(c)
  <2>1. PICK p \in c.pairs : Removes(c, p, [c EXCEPT !.pairs = @ \ {p}])
    BY <1>16 DEF ServeDrop
  <2> DEFINE pairs == c.pairs \ {p}
             d == [c EXCEPT !.pairs = pairs]
             failed == [d EXCEPT !.failed = TRUE]
  <2>2. pairs \in SUBSET Pairs /\ p \in Pairs /\ c.phase = "sent"
    BY <1>1, <1>16, <2>1 DEF ServeDrop, Serves
  <2>3. Alike(c, d) /\ d.phase = "sent"
    <3> HIDE DEF pairs
    <3> QED BY <1>1, <2>2, FailedType
  <2>4. Alike(c, failed) /\ failed.phase = "sent"
    <3>1. IsCall(d)
      BY <2>3 DEF Alike
    <3> HIDE DEF d
    <3>2. Alike(d, failed) /\ failed.phase = d.phase
      BY <3>1, FailedType
    <3> QED BY <2>3, <3>2 DEF Alike
  <2>5. Removes(c, p, d) /\ failed = [d EXCEPT !.failed = TRUE]
    BY <2>1
  <2> HIDE DEF d, failed
  <2> QED BY <2>2, <2>3, <2>4, <2>5, RemovesWorks
<1> DEFINE none == {}
<1>17. (\A x, y \in none : x = y) /\ (\A x \in none : x.pair = c.pair /\ (c.pair \notin overlaps => Holds(x)'))
       /\ \A bs : bs \union none = bs
  OBVIOUS
<1>18. none = {}
  OBVIOUS
<1> HIDE DEF none
<1>19. Working(c) => c \in Busy
  BY DEF Busy
<1>20. CASE CommitLink(c)
  <2> DEFINE answer == [c EXCEPT !.phase = "ok"]
  <2>1. /\ c.op = "link" /\ c.phase = "begun" /\ Commits(c, Connected(c), answer, c.pair, TRUE)
        /\ UNCHANGED <<stray, overlaps>>
    BY <1>20 DEF CommitLink, Goes
  <2>2. c.pair \in Pairs /\ c.pair[2] \in scene.automatic /\ Working(c)
    BY <1>1, <2>1 DEF FitsCall, Working
  <2>3. ~Working(answer)
    BY <1>3 DEF Turned, Working
  <2> HIDE DEF answer
  <2>4. db' = Connected(c) /\ UNCHANGED scene /\ Busy' = (Busy \ {c}) \union none
    BY <1>17, <2>1, <2>3, BusyCommits DEF Commits, Quiet
  <2>5. \A p : Asks(p)' = Asks(p)
    BY <1>7, <2>4 DEF Asks
  <2>6. Asks(c.pair) = {}
    BY <2>2 DEF WorkInv, Asks
  <2>7. /\ \A p \in Pairs \ {c.pair} : db'.rows[p] = db.rows[p] /\ Asks(p)' = Asks(p)
        /\ \A i \in Ids : Open(db.reqs[i]) /\ db.reqs[i].pair # c.pair => Open(db'.reqs[i])
        /\ \A i \in Ids : Open(db'.reqs[i]) => db'.reqs[i].pair[2] \notin scene.automatic
    BY <1>7, <2>4, <2>5 DEF WorkInv
  <2>8. c.pair \notin overlaps => db'.rows[c.pair] <= 1 /\ \A i, j \in Asks(c.pair)' : i = j
    BY <1>8, <2>1, <2>2, <2>4, <2>5, <2>6
  <2>9. c \in Busy /\ Asks(c.pair)' = {} /\ UNCHANGED <<scene, overlaps>> /\ stray \subseteq stray'
    BY <1>19, <2>1, <2>2, <2>4, <2>5, <2>6
  <2> QED BY <1>17, <2>2, <2>4, <2>7, <2>8, <2>9, WorkCommits
<1>21. CASE ConnectApproved(c)
  <2> DEFINE answer == [c EXCEPT !.phase = "linked"]
             ds == {answer}
  <2>1. /\ c.op = "approve" /\ c.phase = "begun" /\ Commits(c, Connected(c), answer, c.pair, TRUE)
        /\ UNCHANGED <<stray, overlaps>>
    BY <1>21 DEF ConnectApproved, Goes
  <2>2. c.pair \in Pairs /\ Working(c)
    BY <1>1, <2>1 DEF FitsCall, Known, Deciding, Working
  <2>3. Turned(c, answer, "linked", c.seen) /\ Working(answer)
    BY <1>3 DEF Turned, Working
  <2>4. \A x \in ds : x = answer
    OBVIOUS
  <2>5. ds # {}
    OBVIOUS
  <2>6. \A bs : bs \union ds = bs \union {answer}
    OBVIOUS
  <2> HIDE DEF answer, ds
  <2>7. db' = Connected(c) /\ UNCHANGED scene /\ Busy' = (Busy \ {c}) \union ds
    BY <2>1, <2>3, <2>6, BusyCommits DEF Commits, Quiet
  <2>8. \A p : Asks(p)' = Asks(p)
    BY <1>7, <2>7 DEF Asks
  <2>9. /\ \A p \in Pairs \ {c.pair} : db'.rows[p] = db.rows[p] /\ Asks(p)' = Asks(p)
        /\ \A i \in Ids : Open(db.reqs[i]) /\ db.reqs[i].pair # c.pair => Open(db'.reqs[i])
        /\ \A i \in Ids : Open(db'.reqs[i]) => db'.reqs[i].pair[2] \notin scene.automatic
    BY <1>7, <2>7, <2>8 DEF WorkInv
  <2>10. c.pair \notin overlaps => db'.rows[c.pair] <= 1 /\ \A i, j \in Asks(c.pair)' : i = j
    BY <1>8, <2>1, <2>2, <2>7, <2>8 DEF WorkInv
  <2>11. c.pair \notin overlaps => Holds(answer)'
    BY <1>7, <1>19, <2>1, <2>2, <2>3, <2>7 DEF WorkInv, Holds, Turned
  <2>12. \A x \in ds : x.pair = c.pair /\ (c.pair \notin overlaps => Holds(x)')
    BY <2>3, <2>4, <2>11 DEF Turned
  <2>13. c \in Busy /\ UNCHANGED <<scene, overlaps>> /\ stray \subseteq stray' /\ \A x, y \in ds : x = y
    BY <1>19, <2>1, <2>2, <2>4, <2>7
  <2> QED BY <2>2, <2>5, <2>7, <2>9, <2>10, <2>12, <2>13, WorkCommits
<1>22. CASE MailApproved(c)
  <2>1. c.op = "approve" /\ c.phase = "linked" /\ UNCHANGED <<scene, db, overlaps>>
    BY <1>22 DEF MailApproved, Goes, Quiet, History
  <2>2. c.pair \in Pairs /\ Working(c)
    BY <1>1, <2>1 DEF FitsCall, Known, Deciding, Working
  <2>3. \A p : Asks(p)' = Asks(p)
    BY <2>1 DEF Asks
  <2>4. /\ \A p \in Pairs \ {c.pair} : db'.rows[p] = db.rows[p] /\ Asks(p)' = Asks(p)
        /\ \A i \in Ids : Open(db.reqs[i]) /\ db.reqs[i].pair # c.pair => Open(db'.reqs[i])
        /\ \A i \in Ids : Open(db'.reqs[i]) => db'.reqs[i].pair[2] \notin scene.automatic
        /\ c.pair \notin overlaps => db'.rows[c.pair] <= 1 /\ \A i, j \in Asks(c.pair)' : i = j
        /\ UNCHANGED <<scene, overlaps>>
    BY <2>1, <2>2, <2>3 DEF WorkInv
  <2>5. c \in Busy
    BY <1>19, <2>2
  <2> DEFINE d == [c EXCEPT !.phase = "mailed"]
             failed == [c EXCEPT !.phase = "failed"]
             ds == {d}
  <2>6. CASE Becomes(c, d) /\ UNCHANGED stray
    <3>1. Turned(c, d, "mailed", c.seen) /\ Working(d)
      BY <1>3 DEF Turned, Working
    <3>2. ds # {} /\ (\A x \in ds : x = d) /\ \A bs : bs \union ds = bs \union {d}
      OBVIOUS
    <3> HIDE DEF d, ds
    <3>3. Busy' = (Busy \ {c}) \union ds
      BY <2>6, <3>1, <3>2, BusyBecomes
    <3>4. c.pair \notin overlaps => Holds(d)'
      BY <2>1, <2>2, <2>3, <2>5, <3>1 DEF WorkInv, Holds, Turned
    <3>5. \A x \in ds : x.pair = c.pair /\ (c.pair \notin overlaps => Holds(x)')
      BY <3>1, <3>2, <3>4 DEF Turned
    <3>6. stray \subseteq stray' /\ \A x, y \in ds : x = y
      BY <2>6, <3>2
    <3> QED BY <2>2, <2>4, <2>5, <3>2, <3>3, <3>5, <3>6, WorkCommits
  <2>7. CASE Becomes(c, failed) /\ stray' = stray \union {c.pair}
    <3>1. ~Working(failed)
      BY <1>3 DEF Turned, Working
    <3> HIDE DEF failed
    <3>2. Busy' = (Busy \ {c}) \union none
      BY <1>17, <2>7, <3>1, BusyBecomes
    <3>3. stray \subseteq stray' /\ c.pair \in stray'
      BY <2>7
    <3> QED BY <1>17, <2>2, <2>4, <2>5, <3>2, <3>3, WorkCommits
  <2> QED BY <1>22, <2>6, <2>7 DEF MailApproved, History
<1>23. CASE CommitAsk(c)
  <2> DEFINE r == [pair |-> c.pair, member |-> FALSE, status |-> "open"]
  <2>1. PICK i \in Free, mailed \in scene.mails :
          Commits(c, [db EXCEPT !.reqs[i] = r], [c EXCEPT !.phase = IF mailed THEN "ok" ELSE "failed"],
                  c.pair, TRUE)
    BY <1>23 DEF CommitAsk
  <2>2. /\ c.op = "ask" /\ c.phase = "begun" /\ UNCHANGED overlaps
        /\ stray' = IF db.rows[c.pair] > 0 THEN stray \union {c.pair} ELSE stray
    BY <1>23 DEF CommitAsk, Goes
  <2>3. /\ c.pair \in Pairs /\ c.pair[2] \notin scene.automatic /\ Working(c)
        /\ i \in Ids /\ db.reqs[i].status = "none"
    BY <1>1, <2>1, <2>2 DEF FitsCall, Working, Free, Ids
  <2> DEFINE phase == IF mailed THEN "ok" ELSE "failed"
             answer == [c EXCEPT !.phase = phase]
  <2>4. ~Working(answer)
    <3>1. phase \in {"ok", "failed"}
      OBVIOUS
    <3> HIDE DEF phase
    <3> QED BY <1>3, <3>1 DEF Turned, Working
  <2>5. Commits(c, [db EXCEPT !.reqs[i] = r], answer, c.pair, TRUE)
    BY <2>1
  <2> HIDE DEF answer
  <2>6. db' = [db EXCEPT !.reqs[i] = r] /\ UNCHANGED scene /\ Busy' = (Busy \ {c}) \union none
    BY <1>17, <2>4, <2>5, BusyCommits DEF Commits, Quiet
  <2>7. r.pair = c.pair /\ r.status = "open"
    OBVIOUS
  <2> HIDE DEF r
  <2>8. db'.rows = db.rows /\ db'.reqs[i] = r /\ \A j \in Ids \ {i} : db'.reqs[j] = db.reqs[j]
    BY <1>2, <2>3, <2>6 DEF Databases
  <2>9. /\ \A p \in Pairs \ {c.pair} : db'.rows[p] = db.rows[p] /\ Asks(p)' = Asks(p)
        /\ Asks(c.pair)' = Asks(c.pair) \union {i}
    BY <2>3, <2>7, <2>8 DEF Asks, Open
  <2>10. \A j \in Ids : Open(db.reqs[j]) => Open(db'.reqs[j])
    BY <2>3, <2>8 DEF Open
  <2>11. \A j \in Ids : Open(db'.reqs[j]) => db'.reqs[j].pair[2] \notin scene.automatic
    BY <2>3, <2>7, <2>8 DEF WorkInv
  <2>12. c \in Busy /\ (c.pair \notin overlaps => Asks(c.pair) = {} /\ db.rows[c.pair] <= 1)
    BY <1>19, <2>2, <2>3 DEF WorkInv, Holds
  <2>13. c.pair \notin overlaps => db'.rows[c.pair] <= 1 /\ \A j, k \in Asks(c.pair)' : j = k
    BY <2>8, <2>9, <2>12
  <2>14. stray \subseteq stray' /\ (db'.rows[c.pair] > 0 => c.pair \in stray') /\ UNCHANGED <<scene, overlaps>>
    BY <2>2, <2>6, <2>8
  <2> QED BY <1>17, <2>3, <2>6, <2>9, <2>10, <2>11, <2>12, <2>13, <2>14, WorkCommits
<1>24. CASE CommitGone(c)
  <2> DEFINE answer == [c EXCEPT !.phase = "ok"]
             r == [db.reqs[c.request] EXCEPT !.status = "gone"]
  <2>1. /\ c.op \in {"approve", "deny", "remove"} /\ c.phase = "mailed" /\ UNCHANGED <<stray, overlaps>>
        /\ Commits(c, [db EXCEPT !.reqs[c.request].status = "gone"], answer, c.pair, FALSE)
    BY <1>24 DEF CommitGone, Goes
  <2>2. Known(c.request, c.pair) /\ Working(c)
    BY <1>1, <2>1 DEF FitsCall, Deciding, Working
  <2>3. c.pair \in Pairs /\ c.request \in Ids /\ db.reqs[c.request].pair = c.pair
    BY <2>2 DEF Known
  <2>4. ~Working(answer)
    BY <1>3 DEF Turned, Working
  <2> HIDE DEF answer
  <2>5. db' = [db EXCEPT !.reqs[c.request] = r] /\ UNCHANGED scene /\ Busy' = (Busy \ {c}) \union none
    <3>1. Commits(c, [db EXCEPT !.reqs[c.request] = r], answer, c.pair, FALSE)
      BY <2>1
    <3> HIDE DEF r
    <3> QED BY <1>17, <2>4, <3>1, BusyCommits DEF Commits, Quiet
  <2>6. r.status = "gone"
    BY <1>2, <2>3 DEF Requests
  <2> HIDE DEF r
  <2>7. db'.rows = db.rows /\ db'.reqs[c.request] = r /\ \A j \in Ids \ {c.request} : db'.reqs[j] = db.reqs[j]
    BY <1>2, <2>3, <2>5 DEF Databases
  <2>8. /\ \A p \in Pairs \ {c.pair} : db'.rows[p] = db.rows[p] /\ Asks(p)' = Asks(p)
        /\ Asks(c.pair)' = Asks(c.pair) \ {c.request}
    BY <2>3, <2>6, <2>7 DEF Asks, Open
  <2>9. \A j \in Ids : Open(db.reqs[j]) /\ db.reqs[j].pair # c.pair => Open(db'.reqs[j])
    BY <2>3, <2>7 DEF Open
  <2>10. \A j \in Ids : Open(db'.reqs[j]) => db'.reqs[j].pair[2] \notin scene.automatic
    BY <2>6, <2>7 DEF WorkInv, Open
  <2>11. c \in Busy
    BY <1>19, <2>2
  <2>12. c.pair \notin overlaps =>
           /\ c.request \in Asks(c.pair) /\ db.rows[c.pair] <= 1 /\ \A j, k \in Asks(c.pair) : j = k
    BY <2>1, <2>3, <2>11 DEF WorkInv, Holds, Asks
  <2>13. c.pair \notin overlaps => Asks(c.pair)' = {} /\ db'.rows[c.pair] <= 1
    BY <2>7, <2>8, <2>12
  <2>14. c.pair \notin overlaps => db'.rows[c.pair] <= 1 /\ \A j, k \in Asks(c.pair)' : j = k
    BY <2>13
  <2>15. UNCHANGED <<scene, overlaps>> /\ stray \subseteq stray' /\ (c.pair \notin overlaps => Asks(c.pair)' = {})
    BY <2>1, <2>5, <2>13
  <2> QED BY <1>17, <2>3, <2>5, <2>8, <2>9, <2>10, <2>11, <2>14, <2>15, WorkCommits
<1> QED BY <1>9, <1>10, <1>11, <1>12, <1>13, <1>14, <1>15, <1>16, <1>20, <1>21, <1>22, <1>23, <1>24

LEMMA WorkStep == PageInv /\ WorkInv /\ [Next]_vars => WorkInv'
<1> SUFFICES ASSUME PageInv, WorkInv, [Next]_vars PROVE WorkInv'
  OBVIOUS
<1>1. TypeInv /\ RefersInv
  BY DEF PageInv
<1>2. CASE Person
  <2>1. \E u \in Users : Acted(u)
    BY <1>1, <1>2, PersonActs DEF Person
  <2> QED BY <2>1, PersonWorks
<1>3. CASE Server
  BY <1>1, <1>3, ServerWorks DEF Server
<1>4. CASE Browser
  BY <1>1, <1>4, BrowserWorks
<1>5. CASE UNCHANGED vars
  <2>1. Busy' = Busy /\ UNCHANGED <<scene, db, overlaps, stray>>
    BY <1>5 DEF vars, Busy, Working
  <2> QED BY <2>1, WorkIdle
<1> QED BY <1>2, <1>3, <1>4, <1>5 DEF Next

(* A service is asked for or connected, once, unless handlers overlapped,  *)
(* a mail failed half way or it was asked for from an old page.            *)
THEOREM AskedOrConnectedOnce == Spec => []AskedOrConnected
<1>1. WorkInv => AskedOrConnected
  <2> SUFFICES ASSUME WorkInv PROVE AskedOrConnected
    OBVIOUS
  <2>1. ASSUME NEW p \in Pairs \ overlaps PROVE db.rows[p] <= 1 /\ Cardinality(Asks(p)) <= 1
    <3>1. db.rows[p] <= 1 /\ \A i, j \in Asks(p) : i = j
      BY <2>1 DEF WorkInv
    <3>2. CASE Asks(p) = {}
      BY <3>1, <3>2, FS_EmptySet
    <3>3. CASE Asks(p) # {}
      <4>1. PICK i \in Asks(p) : TRUE
        BY <3>3
      <4>2. Asks(p) = {i}
        BY <3>1, <4>1
      <4>3. Cardinality({i}) = 1
        BY FS_Singleton
      <4> QED BY <3>1, <4>2, <4>3
    <3> QED BY <3>2, <3>3
  <2>2. ASSUME NEW p \in Pairs \ (stray \union overlaps), db.rows[p] > 0, Asks(p) # {}
        PROVE  \E c \in net : c.pair = p /\ Working(c)
    BY <2>2 DEF WorkInv, Busy
  <2> QED BY <2>1, <2>2 DEF AskedOrConnected
<1> QED BY <1>1, PageInit, PageStep, WorkInit, WorkStep, PTL DEF Spec
===============================================================================
