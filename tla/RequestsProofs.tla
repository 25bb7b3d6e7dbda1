----------------------------- MODULE RequestsProofs -----------------------------
(***************************************************************************)
(* Requests for any scene: what the pages show, what a decision is about,  *)
(* and what becomes of a request.                                          *)
(***************************************************************************)
EXTENDS Requests, FiniteSetTheorems, TLAPS

Made == [plan : Plans, name : Names]
Views == [joins : [Ids -> Asks], plans : [Plans -> Bids], member : BOOLEAN, runs : SUBSET Made]
Ats == Lists \union {"register", "away", "plan", "collaboration", "welcome"}
Tabs == {"none", "collaborations", "joinrequests", "collaboration_requests"}
Forms == [plan : Plans, name : Names, status : Statuses, exists : BOOLEAN, initial : BOOLEAN]
PageStates ==
  [at : Ats, view : Views, loading : BOOLEAN, selected : Ids \union {0},
   dialog : {"none", "decline", "delete", "deny", "drop", "join"}, asked : Ids \union {0}, lost : BOOLEAN,
   reason : BOOLEAN, options : SUBSET ({"all"} \union Statuses), filter : {"all"} \union Statuses,
   tab : Tabs, form : Forms, submitted : BOOLEAN, n : Nat]
Databases ==
  [joins : [Ids -> Asks], plans : [Plans -> Bids], members : SUBSET Requesters, made : SUBSET Made]
OnJoin == {"accept", "decline", "delete"}
OnPlan == {"approve", "deny", "drop"}
CallOps == OnJoin \union OnPlan \union {"read", "readPlan", "exists", "join"}
Phases == {"sent", "begun", "told", "ok", "failed"}
(* Whatever number a call has: only that it is apart from others matters.  *)
CallOf(ids) ==
  [by : Users, op : CallOps, phase : Phases, at : Ats, view : Views, old : BOOLEAN, back : BOOLEAN,
   request : Ids \union {0}, asked : Ids \union {0}, lost : BOOLEAN, plan : Plans, name : Names,
   status : Statuses, before : SUBSET Ids, exists : BOOLEAN, id : ids]
IsCall(c) == c \in CallOf({c.id})
AllCalls(cs) == \A c \in cs : IsCall(c)
TypeInv ==
  /\ scene \in Scenes /\ db \in Databases /\ page \in [Users -> PageStates] /\ AllCalls(net)
  /\ inbox \in SUBSET Users /\ doubt \in SUBSET Users

-------------------------------------------------------------------------------
(* Where people are, and what their calls say.                             *)
Near(to, at) ==
  /\ to \in Lists /\ (to = "joins" => at = "joins") /\ (to = "plans" => at \in {"plans", "plan", "away"})
  /\ to = "home" => at \in {"register", "home", "collaboration", "welcome"}
Place(u, at) ==
  IF u = "guest" THEN at \in {"home", "register", "collaboration", "welcome", "away"}
  ELSE at \in {"joins", "plans", "plan", "away"}
FitsAt(c, at) ==
  /\ c.op \in OnJoin => c.request \in Ids /\ (~c.lost => c.request = c.asked)
  /\ (c.op \in OnPlan => c.request = 0) /\ (c.op = "join" => c.by = "guest")
  /\ (c.op = "read" => Near(c.at, at)) /\ (c.back => c.op = "read" /\ c.at = "joins")
FitsCall(c) == FitsAt(c, page[c.by].at)
(* A dialog about a join request: it is selected, unless it went.          *)
Talks(p) ==
  /\ (p.at = "joins" => p.dialog \in {"none", "decline", "delete"})
  /\ (p.at = "plan" => p.dialog \in {"none", "deny", "drop"})
  /\ p.at = "joins" /\ p.dialog # "none" /\ ~p.lost => Selected(p) /\ p.asked = p.selected
  /\ (p.at = "home" => p.tab = HomeTab(p.view)) /\ (p.dialog = "join" => p.at = "register")
(* A page that was told of a change may yet be told.                       *)
Rings(p) == p.at \in {"joins", "home", "collaboration", "welcome"} \/ (p.at = "plans" /\ ~p.loading)
(* A page waits for one thing at a time.                                   *)
Blocks(c) == c.op \in OnJoin \union OnPlan \union {"readPlan"} \/ c.back
Blocked(c, p) ==
  /\ p.loading /\ p.dialog = "none"
  /\ p.at = IF c.op \in OnPlan \union {"readPlan"} THEN "plan" ELSE "joins"
BlockInv ==
  /\ \A c \in net : Blocks(c) => Blocked(c, page[c.by])
  /\ \A c, d \in net : Blocks(c) /\ Blocks(d) /\ c.by = d.by => c = d
TalkInv ==
  /\ \A u \in Users : Place(u, page[u].at) /\ Talks(page[u])
  /\ \A c \in net : FitsCall(c)
  /\ \A u \in inbox : Rings(page[u])
-------------------------------------------------------------------------------
(* What pages show.                                                        *)
Reads(u) == u \in inbox \/ \E c \in net : c.by = u /\ IsRead(c, "sent")
AtHome(p) == p.at \in {"home", "register"}
(* The home page opens the collaborations of the guest, if there are any.  *)
Chosen(view) == view.member \/ view.runs # {}
Chooses(d) == "guest" \in d.members \/ d.made # {}
MemberInv ==
  /\ \A u \in Users : Chosen(page[u].view) => Chooses(db)
  /\ \A c \in net : Chosen(c.view) => Chooses(db)
  /\ \A c \in net : IsRead(c, "ok") /\ ~c.old /\ c.at = "home" =>
       /\ AtHome(page[c.by]) /\ Chosen(page[c.by].view) => Chosen(c.view)
       /\ \A x \in net : IsRead(x, "ok") /\ x.by = c.by /\ Chosen(x.view) => Chosen(c.view)
CatchInv ==
  /\ \A c \in net : IsRead(c, "ok") /\ ~c.old /\ page[c.by].at \in Lists \union {"register"} =>
       c.view = View(c.at, db) \/ Reads(c.by) \/ (c.at = "home" /\ Chosen(c.view))
  /\ \A u \in Users \ doubt :
       page[u].at \in Lists /\ ~page[u].loading /\ page[u].tab # "collaborations" =>
         page[u].view = View(page[u].at, db) \/ Reads(u) \/ \E c \in net : c.by = u /\ IsRead(c, "ok")

-------------------------------------------------------------------------------
(* What becomes of requests.                                               *)
Doing(c) == c.phase \in {"begun", "told"}
Joining == {c \in net : c.op = "join" /\ Doing(c)}
Approving == {c \in net : c.op = "approve" /\ Doing(c)}
LiveOf(r) == {i \in Ids : db.joins[i].by = r /\ db.joins[i].status \in Live}
MadeOf(p) == {m \in db.made : m.plan = p}
(* Alone with the requests of its user, a handler takes all there are.     *)
JoinInv ==
  /\ \A c, d \in Joining : c.by = d.by /\ c.by \notin overlaps => c = d
  /\ \A c \in Joining : c.by \notin overlaps => LiveOf(c.by) \subseteq c.before
  /\ \A r \in Requesters \ overlaps : \A i, j \in LiveOf(r) : i = j
DecidedInv ==
  \A i \in Ids :
    /\ db.joins[i].status = "approved" => db.joins[i].by \in db.members
    /\ <<"join", i>> \notin stray /\ db.joins[i].status \in {"open", "denied"} =>
         db.joins[i].by \notin db.members \/ db.joins[i].by \in overlaps
(* A collaboration is of a request that was approved, or is being.         *)
PlanInv ==
  /\ \A m, k \in db.made : m.name = k.name => m = k
  /\ \A p \in Plans : <<"plan", p>> \notin stray =>
       /\ db.plans[p].status = "denied" => MadeOf(p) = {}
       /\ db.plans[p].status = "open" /\ MadeOf(p) # {} => \E c \in Approving : c.plan = p
       /\ db.plans[p].status = "approved" => \E m : MadeOf(p) = {m}
  /\ \A c \in Approving : <<"plan", c.plan>> \notin stray => \E m : MadeOf(c.plan) = {m}
WorkInv == JoinInv /\ DecidedInv /\ PlanInv

-------------------------------------------------------------------------------
(* Types.                                                                  *)
LEMMA SceneTypes ==
  ASSUME TypeInv
  PROVE  /\ scene.joins \in [Ids -> Asks] /\ scene.plans \in [Plans -> Bids]
         /\ scene.at \in [Users -> Lists \union {"register", "away"}] /\ scene.does \in [Users -> SUBSET Ops]
BY SceneAssumption DEF TypeInv

LEMMA PageFields ==
  ASSUME TypeInv, NEW u \in Users
  PROVE  /\ page[u] \in PageStates /\ page[u].at \in Ats /\ page[u].view \in Views
         /\ page[u].view.joins \in [Ids -> Asks] /\ page[u].view.plans \in [Plans -> Bids]
         /\ page[u].view.member \in BOOLEAN /\ page[u].loading \in BOOLEAN /\ page[u].lost \in BOOLEAN
         /\ page[u].dialog \in {"none", "decline", "delete", "deny", "drop", "join"}
         /\ page[u].selected \in Ids \union {0} /\ page[u].asked \in Ids \union {0}
         /\ page[u].options \in SUBSET ({"all"} \union Statuses) /\ page[u].form \in Forms
         /\ page[u].form.plan \in Plans /\ page[u].form.name \in Names /\ page[u].n \in Nat
BY DEF TypeInv, PageStates, Views, Forms

LEMMA CallFields ==
  ASSUME NEW c, IsCall(c)
  PROVE  /\ c.by \in Users /\ c.op \in CallOps /\ c.phase \in Phases /\ c.at \in Ats /\ c.view \in Views
         /\ c.old \in BOOLEAN /\ c.back \in BOOLEAN /\ c.request \in Ids \union {0} /\ c.asked \in Ids \union {0}
         /\ c.lost \in BOOLEAN /\ c.plan \in Plans /\ c.name \in Names /\ c.before \in SUBSET Ids
         /\ c.status \in Statuses /\ c.exists \in BOOLEAN
BY DEF IsCall, CallOf

LEMMA ViewType ==
  ASSUME NEW at, NEW d \in Databases
  PROVE  View(at, d) \in Views /\ NoView \in Views
<1>1. NoRows \in [Ids -> Asks] /\ NoPlans \in [Plans -> Bids]
  BY DEF NoRows, NoPlans, Asks, Bids, Requesters, Statuses, Names
<1>2. d.joins \in [Ids -> Asks] /\ d.plans \in [Plans -> Bids]
  BY DEF Databases
<1>3. [i \in Ids |-> IF d.joins[i].by = "guest" THEN d.joins[i] ELSE NoRows[i]] \in [Ids -> Asks]
  BY <1>1, <1>2
<1>4. (at \in {"home", "register"} /\ "guest" \in d.members) \in BOOLEAN
  OBVIOUS
<1>5. d.made \in SUBSET Made
  BY DEF Databases
<1> QED BY <1>1, <1>2, <1>3, <1>4, <1>5 DEF View, NoView, Views

(* A call as it is sent.                                                   *)
Sent(c, u, op) ==
  /\ IsCall(c) /\ c.by = u /\ c.op = op /\ c.phase = "sent" /\ c.view = NoView
LEMMA CallType ==
  ASSUME TypeInv, NEW u \in Users, NEW op \in CallOps
  PROVE  /\ Sent(Call(u, op), u, op) /\ Call(u, op).at = page[u].at /\ Call(u, op).back = FALSE
         /\ Call(u, op).request = 0
<1> DEFINE i == CHOOSE i \in 0 .. Cardinality(net) : \A c \in net : c.by # u \/ c.op # op \/ c.id # i
<1>1. NoView \in Views
  <2>1. db \in Databases
    BY DEF TypeInv
  <2> QED BY <2>1, ViewType
<1> HIDE DEF i
<1>2. Call(u, op) =
        [by |-> u, op |-> op, phase |-> "sent", at |-> page[u].at, view |-> NoView, old |-> FALSE,
         back |-> FALSE, request |-> 0, asked |-> 0, lost |-> FALSE, plan |-> "p1", name |-> "",
         status |-> "none", before |-> {}, exists |-> FALSE, id |-> i]
  BY DEF Call, i
<1>3. page[u].at \in Ats
  BY PageFields
<1>4. "sent" \in Phases /\ "p1" \in Plans /\ "" \in Names /\ "none" \in Statuses
  BY DEF Phases, Plans, Names, Statuses
<1> DEFINE d == [by |-> u, op |-> op, phase |-> "sent", at |-> page[u].at, view |-> NoView, old |-> FALSE,
                 back |-> FALSE, request |-> 0, asked |-> 0, lost |-> FALSE, plan |-> "p1", name |-> "",
                 status |-> "none", before |-> {}, exists |-> FALSE, id |-> i]
<1>5. /\ d.by = u /\ d.op = op /\ d.phase = "sent" /\ d.at = page[u].at /\ d.view = NoView
      /\ d.back = FALSE /\ d.request = 0 /\ d.id = i
  OBVIOUS
<1>6. d \in CallOf({i})
  BY <1>1, <1>3, <1>4 DEF CallOf
<1> HIDE DEF d
<1>7. IsCall(d)
  BY <1>5, <1>6 DEF IsCall
<1>8. Call(u, op) = d
  BY <1>2 DEF d
<1> QED BY <1>5, <1>7, <1>8 DEF Sent

SentAs(d, u, op, at, back, request, asked, lost) ==
  /\ Sent(d, u, op) /\ d.at = at /\ d.back = back /\ d.request = request /\ d.asked = asked /\ d.lost = lost
LEMMA SentAbout ==
  ASSUME NEW c, NEW u, NEW op, Sent(c, u, op), NEW i \in Ids \union {0}, NEW j \in Ids \union {0}
  PROVE  SentAs([c EXCEPT !.request = i, !.asked = j], u, op, c.at, c.back, i, j, c.lost)
BY DEF SentAs, Sent, IsCall, CallOf

LEMMA SentLost ==
  ASSUME NEW c, NEW u, NEW op, Sent(c, u, op), NEW i \in Ids \union {0}, NEW j \in Ids \union {0},
         NEW lost, lost = TRUE \/ lost = FALSE
  PROVE  SentAs([c EXCEPT !.request = i, !.asked = j, !.lost = lost], u, op, c.at, c.back, i, j, lost)
BY DEF SentAs, Sent, IsCall, CallOf

LEMMA SentNamed ==
  ASSUME NEW c, NEW u, NEW op, Sent(c, u, op), NEW p \in Plans, NEW v \in Names
  PROVE  SentAs([c EXCEPT !.plan = p, !.name = v], u, op, c.at, c.back, c.request, c.asked, c.lost)
BY DEF SentAs, Sent, IsCall, CallOf

LEMMA SentPlan ==
  ASSUME NEW c, NEW u, NEW op, Sent(c, u, op), NEW p \in Plans
  PROVE  SentAs([c EXCEPT !.plan = p], u, op, c.at, c.back, c.request, c.asked, c.lost)
BY DEF SentAs, Sent, IsCall, CallOf

LEMMA SentAt ==
  ASSUME NEW c, NEW u, NEW op, Sent(c, u, op), NEW at \in Ats, NEW p \in Plans
  PROVE  /\ SentAs([c EXCEPT !.at = at, !.plan = p], u, op, at, c.back, c.request, c.asked, c.lost)
         /\ SentAs([c EXCEPT !.at = at], u, op, at, c.back, c.request, c.asked, c.lost)
         /\ SentAs([c EXCEPT !.back = TRUE], u, op, c.at, TRUE, c.request, c.asked, c.lost)
BY DEF SentAs, Sent, IsCall, CallOf

LEMMA BlankType ==
  ASSUME NEW at \in Ats
  PROVE  /\ Blank(at) \in PageStates /\ Blank(at).at = at /\ Blank(at).view = NoView /\ Blank(at).loading = TRUE
         /\ Blank(at).dialog = "none" /\ Blank(at).tab = "none" /\ Blank(at).n = 0 /\ Blank(at).lost = FALSE
<1>1. NoView \in Views
  BY DEF NoView, Views, NoRows, NoPlans, Asks, Bids, Requesters, Statuses, Names
<1>2. NoForm \in Forms
  BY DEF NoForm, Forms, Plans, Names, Statuses
<1>3. {"all"} \in SUBSET ({"all"} \union Statuses) /\ "none" \in Tabs
  BY DEF Tabs
<1> QED BY <1>1, <1>2, <1>3 DEF Blank, PageStates

LEMMA MountedType ==
  ASSUME NEW p \in PageStates, NEW view \in Views
  PROVE  LET q == Mounted(p, view) IN
         /\ q \in PageStates /\ q.at = p.at /\ q.view = view /\ q.loading = FALSE /\ q.dialog = p.dialog
         /\ q.tab = p.tab /\ q.selected = 0 /\ q.asked = p.asked /\ q.lost = p.lost /\ q.n = p.n
<1> DEFINE options == Options(view)
           q == [p EXCEPT !.view = view, !.loading = FALSE, !.options = options, !.filter = "all",
                          !.selected = 0, !.reason = FALSE]
<1>1. options \in SUBSET ({"all"} \union Statuses)
  BY DEF Options, Views, Asks, Bids
<1>2. /\ q \in PageStates /\ q.at = p.at /\ q.view = view /\ q.loading = FALSE /\ q.dialog = p.dialog
      /\ q.tab = p.tab /\ q.selected = 0 /\ q.asked = p.asked /\ q.lost = p.lost /\ q.n = p.n
  <2> HIDE DEF options
  <2> QED BY <1>1 DEF PageStates
<1> QED BY <1>2 DEF Mounted

LEMMA HomeType ==
  ASSUME NEW p \in PageStates, NEW view \in Views
  PROVE  /\ LET q == Home(p, view) IN
            /\ q \in PageStates /\ q.at = HomeAt(view) /\ q.view = view /\ q.loading = FALSE
            /\ q.dialog = p.dialog /\ q.tab = HomeTab(view) /\ q.lost = p.lost /\ q.n = p.n
         /\ HomeAt(view) \in {"home", "collaboration", "welcome"}
<1> DEFINE at == HomeAt(view)
           tab == HomeTab(view)
           m == Mounted(p, view)
           q == [m EXCEPT !.at = at, !.tab = tab]
<1>1. /\ m \in PageStates /\ m.at = p.at /\ m.view = view /\ m.loading = FALSE /\ m.dialog = p.dialog
      /\ m.lost = p.lost /\ m.n = p.n
  BY MountedType
<1>2. at \in {"home", "collaboration", "welcome"} /\ at \in Ats /\ tab \in Tabs
  BY DEF HomeAt, HomeTab, Ats, Lists, Tabs
<1>3. /\ q \in PageStates /\ q.at = at /\ q.view = view /\ q.loading = FALSE
      /\ q.dialog = p.dialog /\ q.tab = tab /\ q.lost = p.lost /\ q.n = p.n
  <2> HIDE DEF m, at, tab
  <2> QED BY <1>1, <1>2 DEF PageStates
<1> QED BY <1>2, <1>3 DEF Home

-------------------------------------------------------------------------------
(* What a person does to a page that does not wait, and the call it makes. *)
PageInv == TypeInv /\ BlockInv /\ TalkInv /\ MemberInv /\ CatchInv
Turn(u, q) ==
  /\ q \in PageStates /\ q.view = page[u].view /\ q.at = page[u].at /\ q.tab = page[u].tab /\ Talks(q)
  /\ q.at = "plans" => ~q.loading
Fresh(u, q, c) ==
  /\ IsCall(c) /\ c.by = u /\ c.phase = "sent" /\ c.view = NoView /\ FitsAt(c, q.at)
  /\ Blocks(c) => Blocked(c, q)
Acts(u, q, cs) ==
  /\ ~page[u].loading /\ Turn(u, q) /\ page' = [page EXCEPT ![u] = q]
  /\ net' = net \union cs /\ (\A c \in cs : Fresh(u, q, c)) /\ (\A c, d \in cs : c = d)
  /\ Same

LEMMA ShowsActs ==
  ASSUME TypeInv, NEW u \in Users, NEW q, Turn(u, q), Shows(u, q), Same, ~page[u].loading,
         NEW cs, net' = net \union cs, \A c \in cs : Fresh(u, q, c), \A c, d \in cs : c = d
  PROVE  \E p, ds : Acts(u, p, ds)
<1> DEFINE p == [q EXCEPT !.n = @ + 1]
<1>1. q \in PageStates /\ q.n + 1 \in Nat
  BY DEF Turn, PageStates
<1>2. /\ p \in PageStates /\ p.view = q.view /\ p.at = q.at /\ p.dialog = q.dialog /\ p.loading = q.loading
      /\ p.selected = q.selected /\ p.asked = q.asked /\ p.lost = q.lost /\ p.tab = q.tab
  BY <1>1 DEF PageStates
<1>3. page' = [page EXCEPT ![u] = p]
  BY DEF Shows
<1> HIDE DEF p
<1>4. Turn(u, p)
  BY <1>2 DEF Turn, Talks, Selected
<1>5. \A c \in cs : Fresh(u, p, c)
  BY <1>2 DEF Fresh, Blocked
<1>6. Acts(u, p, cs)
  BY <1>3, <1>4, <1>5 DEF Acts
<1> QED BY <1>6

LEMMA OnlyActs ==
  ASSUME TypeInv, NEW u \in Users, NEW q, Turn(u, q), Only(u, q), ~page[u].loading
  PROVE  \E p, ds : Acts(u, p, ds)
<1> DEFINE none == {}
<1>1. net' = net \union none /\ (\A c \in none : Fresh(u, q, c)) /\ (\A c, d \in none : c = d)
  BY DEF Only
<1>2. Shows(u, q) /\ Same
  BY DEF Only
<1> HIDE DEF none
<1> QED BY <1>1, <1>2, ShowsActs

LEMMA AsideActs ==
  ASSUME TypeInv, TalkInv, NEW u \in Users, NEW q \in PageStates, Only(u, q), ~page[u].loading,
         q.view = page[u].view, q.at = page[u].at, q.tab = page[u].tab, q.lost = page[u].lost, ~q.loading,
         q.asked = page[u].asked, q.dialog \in {page[u].dialog, "none"},
         q.selected = page[u].selected \/ q.dialog = "none"
  PROVE  \E p, ds : Acts(u, p, ds)
<1>1. Turn(u, q)
  BY DEF Turn, TalkInv, Talks, Selected
<1> QED BY <1>1, OnlyActs

(* A call the page waits for.                                              *)
LEMMA WaitsActs ==
  ASSUME TypeInv, TalkInv, NEW u \in Users, NEW q \in PageStates, ~page[u].loading,
         q.view = page[u].view, q.at = page[u].at, q.tab = page[u].tab,
         NEW op \in OnJoin \union OnPlan, NEW c, Sent(c, u, op), c.back = FALSE,
         op \in OnJoin => q.at = "joins" /\ c.request \in Ids /\ (~c.lost => c.request = c.asked),
         op \in OnPlan => q.at = "plan" /\ c.request = 0,
         Waits(u, q, c)
  PROVE  \E p, ds : Acts(u, p, ds)
<1> DEFINE p == [q EXCEPT !.loading = TRUE, !.dialog = "none"]
           cs == {c}
<1>1. /\ p \in PageStates /\ p.view = q.view /\ p.at = q.at /\ p.dialog = "none" /\ p.loading = TRUE
      /\ p.tab = q.tab
  BY DEF PageStates
<1>2. Shows(u, p) /\ net' = net \union cs /\ Same
  BY DEF Waits, Sends
<1>3. \A x, y \in cs : x = y
  OBVIOUS
<1>4. \A x \in cs : x = c
  OBVIOUS
<1> HIDE DEF p, cs
<1>5. Turn(u, p)
  BY <1>1 DEF Turn, TalkInv, Talks, OnJoin, OnPlan
<1>6. c.op # "read" /\ c.op # "join"
  BY DEF Sent, OnJoin, OnPlan
<1>7. FitsAt(c, p.at)
  BY <1>6 DEF FitsAt, Sent, OnJoin, OnPlan
<1>8. Blocked(c, p)
  BY <1>1 DEF Blocked, Sent, OnJoin, OnPlan
<1>9. \A x \in cs : Fresh(u, p, x)
  BY <1>4, <1>7, <1>8 DEF Fresh, Sent
<1> QED BY <1>2, <1>3, <1>5, <1>9, ShowsActs
(* A call for which nothing waits.                                         *)
LEMMA AsksActs ==
  ASSUME TypeInv, TalkInv, NEW u \in Users, NEW q \in PageStates, ~page[u].loading,
         q.view = page[u].view, q.at = page[u].at, q.tab = page[u].tab, q.lost = page[u].lost, ~q.loading,
         q.asked = page[u].asked, q.dialog = page[u].dialog, q.selected = page[u].selected,
         NEW op \in {"exists", "join", "read"}, NEW c, Sent(c, u, op), c.back = FALSE,
         op = "join" => u = "guest", op = "read" => Near(c.at, q.at),
         Shows(u, q), Sends(c), Same
  PROVE  \E p, ds : Acts(u, p, ds)
<1> DEFINE cs == {c}
<1>1. net' = net \union cs /\ \A x, y \in cs : x = y
  BY DEF Sends
<1>2. \A x \in cs : x = c
  OBVIOUS
<1> HIDE DEF cs
<1>3. Turn(u, q)
  BY DEF Turn, TalkInv, Talks, Selected
<1>4. c.op = op /\ ~Blocks(c)
  BY DEF Sent, Blocks, OnJoin, OnPlan
<1>5. FitsAt(c, q.at)
  BY <1>4 DEF FitsAt, Sent, OnJoin, OnPlan
<1>6. \A x \in cs : Fresh(u, q, x)
  BY <1>2, <1>4, <1>5 DEF Fresh, Sent
<1> QED BY <1>1, <1>3, <1>6, ShowsActs

Opens(u, p) ==
  /\ ~page[u].loading /\ page[u].at = "plans" /\ inbox' = inbox \ {u}
  /\ \E q \in PageStates :
       /\ q.at = "plan" /\ q.view = NoView /\ q.loading /\ q.dialog = "none" /\ page' = [page EXCEPT ![u] = q]
  /\ \E c : Sent(c, u, "readPlan") /\ c.request = 0 /\ c.back = FALSE /\ net' = net \union {c}
  /\ UNCHANGED <<scene, db>> /\ UNCHANGED History

LEMMA PersonActs ==
  ASSUME TypeInv, TalkInv, NEW u \in Users,
         \/ OpenJoinRequest(u) \/ CancelSideScreen(u) \/ Filter(u) \/ AcceptJoinRequest(u)
         \/ AskDecline(u) \/ AskDelete(u) \/ GiveReason(u) \/ CancelDialog(u) \/ ConfirmDialog(u)
         \/ UpdateName(u) \/ Approve(u) \/ AskDeny(u)
         \/ AskDeleteRequest(u) \/ ConfirmRequest(u)
         \/ JoinRequestAction(u) \/ SubmitJoin(u) \/ GotoHome(u)
  PROVE  \E q, cs : Acts(u, q, cs)
<1> DEFINE p == page[u]
<1>1. /\ p \in PageStates /\ p.view \in Views /\ p.at \in Ats /\ p.lost \in BOOLEAN
      /\ p.dialog \in {"none", "decline", "delete", "deny", "drop", "join"}
      /\ p.selected \in Ids \union {0} /\ p.asked \in Ids \union {0}
      /\ p.options \in SUBSET ({"all"} \union Statuses) /\ p.form \in Forms
      /\ p.form.plan \in Plans /\ p.form.name \in Names
  BY PageFields
<1>2. Talks(p) /\ Place(u, p.at)
  BY DEF TalkInv
<1>3. ~p.loading
  BY DEF OpenJoinRequest, CancelSideScreen, Filter, AcceptJoinRequest, AskDecline, AskDelete, GiveReason,
         CancelDialog, ConfirmDialog, UpdateName, Approve, AskDeny, AskDeleteRequest,
         ConfirmRequest, JoinRequestAction, SubmitJoin, GotoHome, May, InDialog
<1>4. \A op \in CallOps : /\ Sent(Call(u, op), u, op) /\ Call(u, op).at = p.at /\ Call(u, op).back = FALSE
                         /\ Call(u, op).request = 0
  BY CallType
<1>5. CASE OpenJoinRequest(u)
  <2>1. PICK i \in Ids : Only(u, [p EXCEPT !.selected = i]) /\ p.at = "joins" /\ ~Selected(p)
    BY <1>5 DEF OpenJoinRequest, Listed
  <2> DEFINE q == [p EXCEPT !.selected = i]
  <2>2. /\ q \in PageStates /\ q.view = p.view /\ q.at = "joins" /\ q.tab = p.tab /\ q.lost = p.lost /\ q.loading = p.loading
        /\ q.dialog = p.dialog /\ Only(u, q)
    BY <1>1, <2>1 DEF PageStates
  <2> HIDE DEF q
  <2>3. Turn(u, q)
    BY <1>2, <2>1, <2>2 DEF Turn, Talks, Selected
  <2> QED BY <1>3, <2>2, <2>3, OnlyActs
<1>6. CASE CancelSideScreen(u)
  <2> DEFINE q == [p EXCEPT !.selected = 0]
  <2>1. /\ q \in PageStates /\ q.view = p.view /\ q.at = p.at /\ q.tab = p.tab /\ q.lost = p.lost /\ q.loading = p.loading
        /\ q.dialog = "none" /\ q.asked = p.asked /\ Only(u, q)
    BY <1>1, <1>6 DEF PageStates, CancelSideScreen
  <2> HIDE DEF q
  <2> QED BY <1>3, <2>1, AsideActs
<1>7. CASE Filter(u)
  <2>1. PICK o \in p.options : Only(u, [p EXCEPT !.filter = o])
    BY <1>7 DEF Filter
  <2> DEFINE q == [p EXCEPT !.filter = o]
  <2>2. /\ q \in PageStates /\ q.view = p.view /\ q.at = p.at /\ q.tab = p.tab /\ q.lost = p.lost /\ q.loading = p.loading
        /\ q.dialog = p.dialog /\ q.asked = p.asked /\ q.selected = p.selected /\ Only(u, q)
    BY <1>1, <2>1 DEF PageStates
  <2> HIDE DEF q
  <2> QED BY <1>3, <2>2, AsideActs
<1>8. CASE AcceptJoinRequest(u)
  <2> DEFINE b == Call(u, "accept")
             i == p.selected
             c == [b EXCEPT !.request = i, !.asked = i]
  <2>1. Waits(u, p, c) /\ p.at = "joins" /\ i \in Ids
    BY <1>1, <1>8 DEF AcceptJoinRequest, SelectedIs, Selected
  <2>2. \A op \in OnJoin : op \in CallOps /\ op \in OnJoin \union OnPlan /\ op \notin OnPlan
    BY DEF CallOps, OnJoin, OnPlan
  <2>3. "accept" \in OnJoin
    BY DEF OnJoin
  <2>4. Sent(b, u, "accept") /\ b.back = FALSE
    BY <1>4, <2>2, <2>3
  <2>5. i \in Ids \union {0}
    BY <2>1
  <2>6. SentAs(c, u, "accept", b.at, b.back, i, i, b.lost)
    <3> HIDE DEF b, i
    <3> QED BY <2>4, <2>5, SentAbout, Zenon
  <2> HIDE DEF b, c, i
  <2>7. Sent(c, u, "accept") /\ c.request = i /\ c.asked = i /\ c.back = FALSE
    BY <2>4, <2>6 DEF SentAs
  <2> QED BY <1>1, <1>3, <2>1, <2>2, <2>3, <2>7, WaitsActs
<1>9. CASE AskDecline(u) \/ AskDelete(u)
  <2>1. PICK op \in {"decline", "delete"} :
          Only(u, [p EXCEPT !.dialog = op, !.asked = p.selected, !.lost = FALSE])
          /\ p.at = "joins" /\ Selected(p)
    BY <1>9 DEF AskDecline, AskDelete, SelectedIs, Confirm
  <2> DEFINE i == p.selected
             q == [p EXCEPT !.dialog = op, !.asked = i, !.lost = FALSE]
  <2>2. /\ q \in PageStates /\ q.view = p.view /\ q.at = "joins" /\ q.tab = p.tab
        /\ q.dialog = op /\ q.asked = i /\ q.selected = i
    <3> HIDE DEF i
    <3> QED BY <1>1, <2>1 DEF PageStates, i
  <2>3. Only(u, q)
    BY <2>1
  <2> HIDE DEF q
  <2>4. Turn(u, q)
    BY <2>1, <2>2 DEF Turn, Talks, Selected
  <2> QED BY <1>3, <2>3, <2>4, OnlyActs
<1>10. CASE GiveReason(u)
  <2> DEFINE q == [p EXCEPT !.reason = TRUE]
  <2>1. /\ q \in PageStates /\ q.view = p.view /\ q.at = p.at /\ q.tab = p.tab /\ q.lost = p.lost /\ q.loading = p.loading
        /\ q.dialog = p.dialog /\ q.asked = p.asked /\ q.selected = p.selected /\ Only(u, q)
    BY <1>1, <1>10 DEF PageStates, GiveReason
  <2> HIDE DEF q
  <2> QED BY <1>3, <2>1, AsideActs
<1>11. CASE CancelDialog(u)
  <2> DEFINE reason == (p.at = "register" /\ p.reason)
             q == [p EXCEPT !.dialog = "none", !.reason = reason]
  <2>1. Only(u, q)
    BY <1>11 DEF CancelDialog
  <2>2. reason \in BOOLEAN
    BY <1>1 DEF PageStates
  <2>3. /\ q \in PageStates /\ q.view = p.view /\ q.at = p.at /\ q.tab = p.tab /\ q.lost = p.lost /\ q.loading = p.loading
        /\ q.dialog = "none" /\ q.asked = p.asked /\ q.selected = p.selected
    <3> HIDE DEF reason
    <3> QED BY <1>1, <2>2 DEF PageStates
  <2> HIDE DEF q
  <2> QED BY <1>3, <2>1, <2>3, AsideActs
<1>12. CASE ConfirmDialog(u)
  <2> DEFINE op == p.dialog
             b == Call(u, op)
             i == p.selected
             j == p.asked
             lost == p.lost
             c == [b EXCEPT !.request = i, !.asked = j, !.lost = lost]
  <2>1. Waits(u, p, c) /\ p.at = "joins" /\ Selected(p) /\ i \in Ids
    BY <1>1, <1>12 DEF ConfirmDialog, InDialog, Selected
  <2>2. op \in OnJoin /\ (~lost => i = j)
    BY <1>2, <1>12, <2>1 DEF ConfirmDialog, InDialog, Talks, OnJoin
  <2>3. op \in CallOps /\ op \in OnJoin \union OnPlan /\ op \notin OnPlan
    BY <2>2 DEF CallOps, OnJoin, OnPlan
  <2>4. Sent(b, u, op) /\ b.back = FALSE
    BY <1>4, <2>3
  <2>5. i \in Ids \union {0} /\ j \in Ids \union {0} /\ lost \in BOOLEAN
    BY <1>1
  <2> HIDE DEF b, i, j, lost, op
  <2>6. SentAs(c, u, op, b.at, b.back, i, j, lost)
    <3>1. lost = TRUE \/ lost = FALSE
      BY <2>5
    <3> QED BY <2>4, <2>5, <3>1, SentLost, Zenon
  <2> HIDE DEF c
  <2>7. Sent(c, u, op) /\ c.request = i /\ c.asked = j /\ c.lost = lost /\ c.back = FALSE
    BY <2>4, <2>6 DEF SentAs
  <2> QED BY <1>1, <1>3, <2>1, <2>2, <2>3, <2>7, WaitsActs
<1>13. CASE UpdateName(u)
  <2>1. PICK v \in Names :
          /\ Shows(u, [p EXCEPT !.form.name = v, !.form.exists = FALSE])
          /\ Sends([Call(u, "exists") EXCEPT !.plan = p.form.plan, !.name = v]) /\ Same
    BY <1>13 DEF UpdateName
  <2> DEFINE form == [p.form EXCEPT !.name = v, !.exists = FALSE]
             q == [p EXCEPT !.form = form]
             b == Call(u, "exists")
             plan == p.form.plan
             c == [b EXCEPT !.plan = plan, !.name = v]
  <2>2. form \in Forms
    BY <1>1 DEF Forms
  <2>3. /\ q \in PageStates /\ q.view = p.view /\ q.at = p.at /\ q.tab = p.tab /\ q.lost = p.lost /\ q.loading = p.loading
        /\ q.dialog = p.dialog /\ q.asked = p.asked /\ q.selected = p.selected
    <3> HIDE DEF form
    <3> QED BY <1>1, <2>2 DEF PageStates
  <2>4. [p EXCEPT !.form.name = v, !.form.exists = FALSE] = q
    BY <1>1 DEF PageStates, Forms
  <2>5. Shows(u, q) /\ Sends(c) /\ Same
    BY <2>1, <2>4
  <2>6. \A op \in {"exists", "join"} : op \in CallOps
    BY DEF CallOps
  <2>7. \A op \in {"exists", "join"} : Sent(Call(u, op), u, op) /\ Call(u, op).back = FALSE
    BY <1>4, <2>6
  <2>8. Sent(b, u, "exists") /\ b.back = FALSE
    BY <2>7
  <2>9. plan \in Plans
    BY <1>1
  <2>10. SentAs(c, u, "exists", b.at, b.back, b.request, b.asked, b.lost)
    <3> HIDE DEF b, plan
    <3> QED BY <2>8, <2>9, SentNamed, Zenon
  <2> HIDE DEF q, b, c
  <2>11. Sent(c, u, "exists") /\ c.back = FALSE
    BY <2>8, <2>10 DEF SentAs
  <2> QED BY <1>3, <2>3, <2>5, <2>11, AsksActs
<1>14. CASE Approve(u)
  <2> DEFINE form == [p.form EXCEPT !.initial = FALSE]
             q == [p EXCEPT !.form = form]
             b == Call(u, "approve")
             plan == p.form.plan
             name == p.form.name
             c == [b EXCEPT !.plan = plan, !.name = name]
  <2>1. (Waits(u, q, c) \/ Only(u, q)) /\ p.at = "plan" /\ p.dialog = "none"
    <3>1. [p EXCEPT !.form.initial = FALSE] = q
      BY <1>1 DEF PageStates, Forms
    <3> HIDE DEF q
    <3> QED BY <1>14, <3>1 DEF Approve, FormIs
  <2>2. form \in Forms
    BY <1>1 DEF Forms
  <2>3. /\ q \in PageStates /\ q.view = p.view /\ q.at = p.at /\ q.tab = p.tab /\ q.lost = p.lost /\ q.loading = p.loading
        /\ q.dialog = p.dialog /\ q.asked = p.asked /\ q.selected = p.selected
    <3> HIDE DEF form
    <3> QED BY <1>1, <2>2 DEF PageStates
  <2>4. \A op \in OnPlan : op \in CallOps /\ op \in OnJoin \union OnPlan /\ op \notin OnJoin
    BY DEF CallOps, OnJoin, OnPlan
  <2>5. "approve" \in OnPlan
    BY DEF OnPlan
  <2>6. Sent(b, u, "approve") /\ b.back = FALSE /\ b.request = 0
    BY <1>4, <2>4, <2>5
  <2>7. plan \in Plans /\ name \in Names
    BY <1>1
  <2>8. SentAs(c, u, "approve", b.at, b.back, b.request, b.asked, b.lost)
    <3> HIDE DEF b, plan, name
    <3> QED BY <2>6, <2>7, SentNamed, Zenon
  <2> HIDE DEF q, b, c
  <2>9. Sent(c, u, "approve") /\ c.back = FALSE /\ c.request = 0
    BY <2>6, <2>8 DEF SentAs
  <2>10. CASE Only(u, q)
    BY <1>3, <2>3, <2>10, AsideActs
  <2>11. CASE Waits(u, q, c)
    BY <1>3, <2>1, <2>3, <2>4, <2>5, <2>9, <2>11, WaitsActs
  <2> QED BY <2>1, <2>10, <2>11
<1>15. CASE AskDeny(u)
  <2> DEFINE form == [p.form EXCEPT !.initial = FALSE]
             q == [p EXCEPT !.dialog = "deny", !.form = form]
  <2>1. form \in Forms
    BY <1>1 DEF Forms
  <2>2. [p EXCEPT !.dialog = "deny", !.form.initial = FALSE] = q
    BY <1>1 DEF PageStates, Forms
  <2>3. Only(u, q) /\ p.at = "plan"
    <3> HIDE DEF q
    <3> QED BY <1>15, <2>2 DEF AskDeny, FormIs
  <2>4. /\ q \in PageStates /\ q.view = p.view /\ q.at = "plan" /\ q.tab = p.tab /\ q.dialog = "deny"
    <3> HIDE DEF form
    <3> QED BY <1>1, <2>1, <2>3 DEF PageStates
  <2> HIDE DEF q
  <2>5. Turn(u, q)
    BY <2>3, <2>4 DEF Turn, Talks
  <2> QED BY <1>3, <2>3, <2>5, OnlyActs
<1>16. CASE AskDeleteRequest(u)
  <2> DEFINE q == [p EXCEPT !.dialog = "drop"]
  <2>1. Only(u, q) /\ p.at = "plan"
    BY <1>16 DEF AskDeleteRequest, FormIs
  <2>2. /\ q \in PageStates /\ q.view = p.view /\ q.at = "plan" /\ q.tab = p.tab /\ q.dialog = "drop"
    BY <1>1, <2>1 DEF PageStates
  <2> HIDE DEF q
  <2>3. Turn(u, q)
    BY <2>1, <2>2 DEF Turn, Talks
  <2> QED BY <1>3, <2>1, <2>3, OnlyActs
<1>17. CASE ConfirmRequest(u)
  <2> DEFINE op == p.dialog
             b == Call(u, op)
             plan == p.form.plan
             c == [b EXCEPT !.plan = plan]
  <2>1. Waits(u, p, c) /\ p.at = "plan" /\ op # "none"
    BY <1>17 DEF ConfirmRequest, InDialog
  <2>2. op \in OnPlan
    BY <1>2, <2>1 DEF Talks, OnPlan
  <2>3. op \in CallOps /\ op \in OnJoin \union OnPlan /\ op \notin OnJoin
    BY <2>2 DEF CallOps, OnJoin, OnPlan
  <2>4. Sent(b, u, op) /\ b.back = FALSE /\ b.request = 0
    BY <1>4, <2>3
  <2>5. plan \in Plans
    BY <1>1
  <2> HIDE DEF b, plan, op
  <2>6. SentAs(c, u, op, b.at, b.back, b.request, b.asked, b.lost)
    BY <2>4, <2>5, SentPlan, Zenon
  <2> HIDE DEF c
  <2>7. Sent(c, u, op) /\ c.back = FALSE /\ c.request = 0
    BY <2>4, <2>6 DEF SentAs
  <2> QED BY <1>1, <1>3, <2>1, <2>2, <2>3, <2>7, WaitsActs
<1>18. CASE JoinRequestAction(u)
  <2> DEFINE q == [p EXCEPT !.dialog = "join"]
  <2>1. Only(u, q) /\ p.at = "register"
    BY <1>18 DEF JoinRequestAction
  <2>2. /\ q \in PageStates /\ q.view = p.view /\ q.at = "register" /\ q.tab = p.tab
    BY <1>1, <2>1 DEF PageStates
  <2> HIDE DEF q
  <2>3. Turn(u, q)
    BY <2>1, <2>2 DEF Turn, Talks
  <2> QED BY <1>3, <2>1, <2>3, OnlyActs
<1>19. ASSUME p.dialog = "join" PROVE u = "guest" /\ p.at = "register"
  BY <1>2, <1>19 DEF Talks, Place
<1>20. CASE SubmitJoin(u)
  <2> DEFINE c == Call(u, "join")
  <2>1. Shows(u, p) /\ Sends(c) /\ Same /\ p.dialog = "join"
    BY <1>20 DEF SubmitJoin
  <2>2. \A op \in {"exists", "join"} : op \in CallOps
    BY DEF CallOps
  <2>3. \A op \in {"exists", "join"} : Sent(Call(u, op), u, op) /\ Call(u, op).back = FALSE
    BY <1>4, <2>2
  <2>4. Sent(c, u, "join") /\ c.back = FALSE
    BY <2>3
  <2> HIDE DEF c
  <2> QED BY <1>1, <1>3, <1>19, <2>1, <2>4, AsksActs
<1>21. CASE GotoHome(u)
  <2> DEFINE b == Call(u, "read")
             c == [b EXCEPT !.at = "home"]
  <2>1. Shows(u, p) /\ Sends(c) /\ Same /\ p.dialog = "join"
    BY <1>21 DEF GotoHome
  <2>2. \A op \in {"read", "join"} : op \in CallOps
    BY DEF CallOps
  <2>3. \A op \in {"read", "join"} : Sent(Call(u, op), u, op) /\ Call(u, op).back = FALSE
    BY <1>4, <2>2
  <2>4. Sent(b, u, "read") /\ b.back = FALSE
    BY <2>3
  <2>5. \A at \in {"home", "plans"} : at \in Ats
    BY DEF Ats, Lists
  <2>6. "p1" \in Plans
    BY DEF Plans
  <2>7. SentAs(c, u, "read", "home", b.back, b.request, b.asked, b.lost)
    <3> HIDE DEF b
    <3>1. \A at \in {"home", "plans"} :
            SentAs([b EXCEPT !.at = at], u, "read", at, b.back, b.request, b.asked, b.lost)
      BY <2>4, <2>5, <2>6, SentAt, Zenon
    <3> QED BY <3>1, Zenon
  <2> HIDE DEF b, c
  <2>8. Sent(c, u, "read") /\ c.back = FALSE /\ c.at = "home"
    BY <2>4, <2>7 DEF SentAs
  <2>9. Near("home", p.at)
    BY <1>19, <2>1 DEF Near, Lists
  <2> QED BY <1>1, <1>3, <2>1, <2>8, <2>9, AsksActs
<1> QED BY <1>5, <1>6, <1>7, <1>8, <1>9, <1>10, <1>11, <1>12, <1>13, <1>14, <1>15, <1>16, <1>17, <1>18,
           <1>20, <1>21

LEMMA OpenActs ==
  ASSUME TypeInv, NEW u \in Users, OpenCollaborationRequest(u)
  PROVE  \E p \in Plans : Opens(u, p)
<1>1. PICK p \in Plans :
        /\ Shows(u, [Blank("plan") EXCEPT !.form.plan = p, !.n = page[u].n])
        /\ Sends([Call(u, "readPlan") EXCEPT !.at = "plan", !.plan = p])
  BY DEF OpenCollaborationRequest
<1> DEFINE b == Call(u, "readPlan")
           c == [b EXCEPT !.at = "plan", !.plan = p]
           blank == Blank("plan")
           form == [blank.form EXCEPT !.plan = p]
           n == page[u].n
           m == n + 1
           r == [blank EXCEPT !.form = form, !.n = n]
           q == [blank EXCEPT !.form = form, !.n = m]
<1>2. \A at \in {"plan", "plans"} : at \in Ats
  BY DEF Ats, Lists
<1>3. \A at \in {"plan", "plans"} :
        /\ Blank(at) \in PageStates /\ Blank(at).at = at /\ Blank(at).view = NoView /\ Blank(at).loading = TRUE
        /\ Blank(at).dialog = "none"
  BY <1>2, BlankType
<1>4. /\ blank \in PageStates /\ blank.at = "plan" /\ blank.view = NoView /\ blank.loading = TRUE
      /\ blank.dialog = "none"
  BY <1>3
<1>5. n \in Nat /\ m \in Nat
  BY PageFields
<1> HIDE DEF blank
<1>6. form \in Forms
  BY <1>4 DEF PageStates, Forms
<1> HIDE DEF form, n, m
<1>7. /\ q \in PageStates /\ q.at = "plan" /\ q.view = NoView /\ q.loading = TRUE /\ q.dialog = "none"
  BY <1>4, <1>5, <1>6 DEF PageStates
<1>8. page' = [page EXCEPT ![u] = q]
  <2>1. [blank EXCEPT !.form.plan = p, !.n = n] = r
    BY <1>4 DEF PageStates, form
  <2>2. r.n = n
    BY <1>4, <1>5, <1>6 DEF PageStates
  <2>3. [r EXCEPT !.n = @ + 1] = q
    BY <1>4, <1>5, <1>6, <2>2 DEF PageStates, m
  <2>4. Shows(u, r)
    BY <1>1, <2>1 DEF blank, n
  <2> HIDE DEF r, q
  <2> QED BY <2>3, <2>4 DEF Shows
<1> HIDE DEF q
<1>9. Sent(c, u, "readPlan") /\ c.back = FALSE /\ c.request = 0
  <2>1. \A op \in {"readPlan", "exists"} : op \in CallOps
    BY DEF CallOps
  <2>2. \A op \in {"readPlan", "exists"} : Sent(Call(u, op), u, op) /\ Call(u, op).back = FALSE /\ Call(u, op).request = 0
    BY <2>1, CallType
  <2>3. Sent(b, u, "readPlan") /\ b.back = FALSE /\ b.request = 0
    BY <2>2
  <2>4. SentAs(c, u, "readPlan", "plan", b.back, b.request, b.asked, b.lost)
    <3> HIDE DEF b
    <3>1. \A at \in {"plan", "plans"} :
            SentAs([b EXCEPT !.at = at, !.plan = p], u, "readPlan", at, b.back, b.request, b.asked, b.lost)
      BY <1>2, <2>3, SentAt, Zenon
    <3> QED BY <3>1, Zenon
  <2> HIDE DEF b, c
  <2> QED BY <2>3, <2>4 DEF SentAs
<1>10. net' = net \union {c}
  BY <1>1 DEF Sends
<1> HIDE DEF c
<1> QED BY <1>7, <1>8, <1>9, <1>10 DEF Opens, OpenCollaborationRequest, May
-------------------------------------------------------------------------------
(* One page changes, with the calls of its user: what is to be shown of it.*)
Turns(u, q, gone, cs) ==
  /\ q \in PageStates /\ page' = [page EXCEPT ![u] = q] /\ Place(u, q.at) /\ Talks(q)
  /\ net' = (net \ gone) \union cs /\ (\A c \in net : c \in gone => c.by = u)
  /\ \A c \in cs : IsCall(c) /\ c.by = u /\ c.phase = "sent" /\ c.view = NoView /\ FitsAt(c, q.at)
  /\ \A to : Near(to, page[u].at) => Near(to, q.at)
  /\ \A c \in net' : c.by = u /\ Blocks(c) => Blocked(c, q)
  /\ \A c, d \in net' : c.by = u /\ d.by = u /\ Blocks(c) /\ Blocks(d) => c = d
Hushed(u, q) ==
  /\ inbox' \subseteq inbox /\ (\A v \in inbox : v # u => v \in inbox') /\ (u \in inbox' => Rings(q))
  /\ UNCHANGED <<scene, db>> /\ doubt' \in SUBSET Users /\ \A v \in doubt : v # u => v \in doubt'
StillMember(u, q, gone) ==
  /\ Chosen(q.view) => Chooses(db)
  /\ \A c \in net \ gone : c.by = u /\ IsRead(c, "ok") /\ ~c.old /\ c.at = "home" /\ AtHome(q)
                           /\ Chosen(q.view) => Chosen(c.view)
StillCaught(u, q, gone) ==
  /\ \A c \in net \ gone : c.by = u /\ IsRead(c, "ok") /\ ~c.old /\ q.at \in Lists \union {"register"} =>
       c.view = View(c.at, db) \/ Reads(u)' \/ (c.at = "home" /\ Chosen(c.view))
  /\ u \notin doubt' /\ q.at \in Lists /\ ~q.loading /\ q.tab # "collaborations" =>
       q.view = View(q.at, db) \/ Reads(u)' \/ \E c \in net' : c.by = u /\ IsRead(c, "ok")

LEMMA TurnKeeps ==
  ASSUME PageInv, NEW u \in Users, NEW q, NEW gone, NEW cs, Turns(u, q, gone, cs), Hushed(u, q),
         StillMember(u, q, gone), StillCaught(u, q, gone)
  PROVE  PageInv'
<1>0. /\ q \in PageStates /\ page' = [page EXCEPT ![u] = q] /\ Place(u, q.at) /\ Talks(q)
      /\ net' = (net \ gone) \union cs /\ (\A c \in net : c \in gone => c.by = u)
      /\ (\A c \in cs : IsCall(c) /\ c.by = u /\ c.phase = "sent" /\ c.view = NoView /\ FitsAt(c, q.at))
      /\ (\A to : Near(to, page[u].at) => Near(to, q.at))
      /\ (\A c \in net' : c.by = u /\ Blocks(c) => Blocked(c, q))
      /\ (\A c, d \in net' : c.by = u /\ d.by = u /\ Blocks(c) /\ Blocks(d) => c = d)
      /\ inbox' \subseteq inbox /\ (\A v \in inbox : v # u => v \in inbox') /\ (u \in inbox' => Rings(q))
      /\ UNCHANGED <<scene, db>> /\ doubt' \in SUBSET Users /\ \A v \in doubt : v # u => v \in doubt'
  BY DEF Turns, Hushed
<1>1. TypeInv /\ BlockInv /\ TalkInv /\ MemberInv /\ CatchInv
  BY DEF PageInv
<1>2. page'[u] = q /\ \A v \in Users \ {u} : page'[v] = page[v]
  BY <1>0, <1>1 DEF TypeInv
<1>3. \A c \in net : IsCall(c) /\ c.by \in Users
  BY <1>1, CallFields DEF TypeInv, AllCalls
<1>4. TypeInv'
  <2>1. \A c \in net' : IsCall(c)
    BY <1>0, <1>3
  <2> QED BY <1>0, <1>1, <2>1 DEF TypeInv, AllCalls
<1>5. \A c \in net' : c.by # u => c \in net /\ page'[c.by] = page[c.by]
  BY <1>0, <1>2, <1>3
<1>6. BlockInv'
  <2>1. ASSUME NEW c \in net', Blocks(c) PROVE Blocked(c, page'[c.by])
    BY <1>0, <1>1, <1>2, <1>5, <2>1 DEF BlockInv
  <2>2. ASSUME NEW c \in net', NEW d \in net', Blocks(c), Blocks(d), c.by = d.by PROVE c = d
    BY <1>0, <1>1, <1>5, <2>2 DEF BlockInv
  <2> QED BY <2>1, <2>2 DEF BlockInv, Blocked
<1>7. TalkInv'
  <2>1. \A v \in Users : Place(v, page'[v].at) /\ Talks(page'[v])
    BY <1>0, <1>1, <1>2 DEF TalkInv
  <2>2. ASSUME NEW c \in net' PROVE FitsAt(c, page'[c.by].at)
    <3>1. CASE c \in cs
      BY <1>0, <1>2, <3>1
    <3>2. CASE c \notin cs
      <4>1. c \in net /\ FitsAt(c, page[c.by].at)
        BY <1>0, <1>1, <3>2 DEF TalkInv, FitsCall
      <4>2. CASE c.by = u
        BY <1>0, <1>2, <4>1, <4>2 DEF FitsAt
      <4>3. CASE c.by # u
        BY <1>5, <4>1, <4>3
      <4> QED BY <4>2, <4>3
    <3> QED BY <3>1, <3>2
  <2>3. \A v \in inbox' : Rings(page'[v])
    <3>1. inbox \subseteq Users
      BY <1>1 DEF TypeInv
    <3> QED BY <1>0, <1>1, <1>2, <3>1 DEF TalkInv
  <2> QED BY <2>1, <2>2, <2>3 DEF TalkInv, FitsCall
<1>8. ~Chosen(NoView)
  BY DEF NoView, Chosen
<1>9. MemberInv'
  <2>1. \A v \in Users : Chosen(page'[v].view) => Chooses(db')
    BY <1>0, <1>1, <1>2 DEF MemberInv, StillMember
  <2>2. \A c \in net' : Chosen(c.view) => Chooses(db')
    BY <1>0, <1>1, <1>8 DEF MemberInv
  <2>3. ASSUME NEW c \in net', IsRead(c, "ok"), ~c.old, c.at = "home"
        PROVE  /\ AtHome(page'[c.by]) /\ Chosen(page'[c.by].view) => Chosen(c.view)
               /\ \A x \in net' : IsRead(x, "ok") /\ x.by = c.by /\ Chosen(x.view) => Chosen(c.view)
    <3>1. c \in net \ gone /\ \A x \in net' : IsRead(x, "ok") => x \in net
      BY <1>0, <2>3 DEF IsRead
    <3>2. CASE c.by = u
      BY <1>1, <1>2, <2>3, <3>1, <3>2 DEF MemberInv, StillMember
    <3>3. CASE c.by # u
      BY <1>1, <1>5, <2>3, <3>1, <3>3 DEF MemberInv
    <3> QED BY <3>2, <3>3
  <2> QED BY <2>1, <2>2, <2>3 DEF MemberInv, AtHome, IsRead, Chosen, Chooses
<1>10. \A v \in Users \ {u} : Reads(v) => Reads(v)'
  BY <1>0 DEF Reads, IsRead
<1>11. CatchInv'
  <2>1. ASSUME NEW c \in net', IsRead(c, "ok"), ~c.old, page'[c.by].at \in Lists \union {"register"}
        PROVE  c.view = View(c.at, db') \/ Reads(c.by)' \/ (c.at = "home" /\ Chosen(c.view))
    <3>1. c \in net \ gone
      BY <1>0, <2>1 DEF IsRead
    <3>2. CASE c.by = u
      BY <1>0, <1>2, <2>1, <3>1, <3>2 DEF StillCaught
    <3>3. CASE c.by # u
      <4>1. c.view = View(c.at, db) \/ Reads(c.by) \/ (c.at = "home" /\ Chosen(c.view))
        BY <1>1, <1>5, <2>1, <3>1, <3>3 DEF CatchInv
      <4> QED BY <1>0, <1>3, <1>10, <3>1, <3>3, <4>1
    <3> QED BY <3>2, <3>3
  <2>2. ASSUME NEW v \in Users \ doubt',
               page'[v].at \in Lists /\ ~page'[v].loading /\ page'[v].tab # "collaborations"
        PROVE  page'[v].view = View(page'[v].at, db') \/ Reads(v)' \/ \E c \in net' : c.by = v /\ IsRead(c, "ok")
    <3>1. CASE v = u
      BY <1>0, <1>2, <2>2, <3>1 DEF StillCaught
    <3>2. CASE v # u
      <4>1. v \notin doubt /\ page'[v] = page[v]
        BY <1>0, <1>2, <2>2, <3>2
      <4>2. page[v].view = View(page[v].at, db) \/ Reads(v) \/ \E c \in net : c.by = v /\ IsRead(c, "ok")
        BY <1>1, <2>2, <4>1 DEF CatchInv
      <4>3. \A c \in net : c.by = v => c \in net'
        BY <1>0, <3>2
      <4> QED BY <1>0, <1>10, <3>2, <4>1, <4>2, <4>3
    <3> QED BY <3>1, <3>2
  <2> QED BY <2>1, <2>2 DEF CatchInv, IsRead, Chosen
<1> QED BY <1>4, <1>6, <1>7, <1>9, <1>11 DEF PageInv

LEMMA ActsKeeps ==
  ASSUME PageInv, NEW u \in Users, NEW q, NEW cs, Acts(u, q, cs)
  PROVE  PageInv'
<1> DEFINE none == {}
<1>1. TypeInv /\ BlockInv /\ TalkInv /\ MemberInv /\ CatchInv
  BY DEF PageInv
<1>2. /\ ~page[u].loading /\ q \in PageStates /\ q.view = page[u].view /\ q.at = page[u].at
      /\ q.tab = page[u].tab /\ Talks(q) /\ page' = [page EXCEPT ![u] = q]
      /\ net' = (net \ none) \union cs /\ UNCHANGED <<scene, db, inbox, doubt>>
  BY DEF Acts, Turn, Same, History
<1>3. \A c \in cs : Fresh(u, q, c)
  BY DEF Acts
<1>4. \A c \in net : c \in none => c.by = u
  OBVIOUS
<1>5. net \ none = net
  OBVIOUS
<1> HIDE DEF none
<1>6. \A c \in net : c.by = u => ~Blocks(c)
  BY <1>1, <1>2 DEF BlockInv, Blocked
<1>7. (\A c \in net' : c.by = u /\ Blocks(c) => Blocked(c, q))
      /\ \A c, d \in net' : c.by = u /\ d.by = u /\ Blocks(c) /\ Blocks(d) => c = d
  BY <1>2, <1>3, <1>5, <1>6 DEF Fresh, Acts
<1>8. u \in inbox' => Rings(q)
  BY <1>1, <1>2 DEF Acts, Turn, TalkInv, Rings
<1>9. Reads(u) => Reads(u)'
  BY <1>2, <1>5 DEF Reads, IsRead
<1>10. StillMember(u, q, none)
  BY <1>1, <1>2 DEF MemberInv, AtHome, StillMember
<1>11. StillCaught(u, q, none)
  BY <1>1, <1>2, <1>5, <1>9 DEF CatchInv, StillCaught
<1>13. \A c \in cs : IsCall(c) /\ c.by = u /\ c.phase = "sent" /\ c.view = NoView /\ FitsAt(c, q.at)
  BY <1>3 DEF Fresh
<1>14. Turns(u, q, none, cs)
  BY <1>1, <1>2, <1>4, <1>7, <1>13 DEF TalkInv, Turns
<1>15. Hushed(u, q)
  BY <1>1, <1>2, <1>8 DEF TypeInv, Hushed
<1> QED BY <1>10, <1>11, <1>14, <1>15, TurnKeeps

LEMMA OpensKeeps ==
  ASSUME PageInv, NEW u \in Users, NEW p \in Plans, Opens(u, p)
  PROVE  PageInv'
<1> DEFINE none == {}
<1>1. TypeInv /\ BlockInv /\ TalkInv /\ MemberInv /\ CatchInv
  BY DEF PageInv
<1>2. /\ ~page[u].loading /\ page[u].at = "plans" /\ inbox' = inbox \ {u} /\ UNCHANGED <<scene, db, doubt>>
  BY DEF Opens, History
<1>3. PICK q \in PageStates :
        q.at = "plan" /\ q.view = NoView /\ q.loading /\ q.dialog = "none" /\ page' = [page EXCEPT ![u] = q]
  BY DEF Opens
<1>4. PICK c : Sent(c, u, "readPlan") /\ c.request = 0 /\ c.back = FALSE /\ net' = net \union {c}
  BY DEF Opens
<1> DEFINE cs == {c}
<1>5. net' = (net \ none) \union cs /\ (\A d \in net : d \in none => d.by = u) /\ \A d \in cs : d = c
  BY <1>4
<1>6. \A d \in net : d.by = u => ~Blocks(d)
  BY <1>1, <1>2 DEF BlockInv, Blocked
<1> HIDE DEF none, cs
<1>7. Place(u, q.at) /\ Talks(q) /\ (\A to : Near(to, page[u].at) => Near(to, q.at)) /\ ~(u \in inbox')
  BY <1>1, <1>2, <1>3 DEF TalkInv, Place, Talks, Near, Lists
<1>8. \A d \in cs : IsCall(d) /\ d.by = u /\ d.phase = "sent" /\ d.view = NoView /\ FitsAt(d, q.at)
  BY <1>4, <1>5 DEF Sent, FitsAt, OnJoin, OnPlan
<1>9. Blocked(c, q)
  BY <1>3, <1>4 DEF Blocked, Sent
<1>10. (\A d \in net' : d.by = u /\ Blocks(d) => Blocked(d, q))
       /\ \A d, e \in net' : d.by = u /\ e.by = u /\ Blocks(d) /\ Blocks(e) => d = e
  BY <1>4, <1>6, <1>9
<1>11. ~Chosen(q.view) /\ q.at \notin Lists \union {"register"}
  BY <1>3 DEF NoView, Chosen, Lists
<1>12. Turns(u, q, none, cs)
  BY <1>3, <1>5, <1>7, <1>8, <1>10 DEF Turns
<1>13. Hushed(u, q)
  BY <1>1, <1>2 DEF TypeInv, Hushed
<1>14. StillMember(u, q, none) /\ StillCaught(u, q, none)
  BY <1>11 DEF StillMember, StillCaught
<1> QED BY <1>12, <1>13, <1>14, TurnKeeps

-------------------------------------------------------------------------------
(* The server: no page changes, and every call stands for one there was.   *)
Alike(c, d) ==
  /\ IsCall(d) /\ d.by = c.by /\ d.op = c.op /\ d.at = c.at /\ d.back = c.back /\ d.request = c.request
  /\ d.asked = c.asked /\ d.lost = c.lost /\ d.plan = c.plan
LEMMA ServeBase ==
  ASSUME TypeInv, BlockInv, TalkInv, NEW f, net' = {f[x] : x \in net}, \A x \in net : Alike(x, f[x]),
         UNCHANGED <<scene, page>>, db' \in Databases, inbox' \in SUBSET Users, doubt' \in SUBSET Users,
         \A u \in inbox' \ inbox : Rings(page[u])
  PROVE  TypeInv' /\ BlockInv' /\ TalkInv'
<1>1. TypeInv'
  BY DEF TypeInv, AllCalls, Alike
<1>2. \A x \in net : /\ Blocks(f[x]) <=> Blocks(x)
                     /\ \A p : Blocked(x, p) => Blocked(f[x], p)
                     /\ \A at : FitsAt(x, at) => FitsAt(f[x], at)
  BY DEF Alike, Blocks, Blocked, FitsAt
<1>3. BlockInv'
  <2>1. \A y \in net' : Blocks(y) => Blocked(y, page[y.by])
    <3> TAKE y \in net'
    <3>1. PICK x \in net : y = f[x]
      OBVIOUS
    <3>2. y.by = x.by
      BY <3>1 DEF Alike
    <3> QED BY <1>2, <3>1, <3>2 DEF BlockInv
  <2>2. \A y, z \in net' : Blocks(y) /\ Blocks(z) /\ y.by = z.by => y = z
    <3> TAKE y, z \in net'
    <3>1. PICK x \in net : y = f[x]
      OBVIOUS
    <3>2. PICK w \in net : z = f[w]
      OBVIOUS
    <3>3. y.by = x.by /\ z.by = w.by
      BY <3>1, <3>2 DEF Alike
    <3> QED BY <1>2, <3>1, <3>2, <3>3 DEF BlockInv
  <2> QED BY <2>1, <2>2 DEF BlockInv, Blocks, Blocked
<1>4. TalkInv'
  <2>1. \A y \in net' : FitsAt(y, page[y.by].at)
    <3> TAKE y \in net'
    <3>1. PICK x \in net : y = f[x]
      OBVIOUS
    <3>2. y.by = x.by
      BY <3>1 DEF Alike
    <3> QED BY <1>2, <3>1, <3>2 DEF TalkInv, FitsCall
  <2> QED BY <2>1 DEF TalkInv, FitsCall
<1> QED BY <1>1, <1>3, <1>4

(* A handler goes on, and what pages show is as it was.                    *)
Moves(c, d) ==
  /\ net' = (net \ {c}) \union {d} /\ Alike(c, d) /\ d.view = c.view /\ c.op # "read"
  /\ UNCHANGED <<scene, page, doubt>> /\ inbox \subseteq inbox' /\ inbox' \in SUBSET Users
  /\ (\A u \in inbox' \ inbox : Rings(page[u]))
  /\ db' \in Databases /\ Chooses(db') = Chooses(db) /\ \A at : View(at, db') = View(at, db)
LEMMA MovesKeeps ==
  ASSUME PageInv, NEW c \in net, NEW d, Moves(c, d)
  PROVE  PageInv'
<1>1. TypeInv /\ BlockInv /\ TalkInv /\ MemberInv /\ CatchInv
  BY DEF PageInv
<1>2. /\ net' = (net \ {c}) \union {d} /\ Alike(c, d) /\ d.view = c.view /\ c.op # "read" /\ d.op # "read"
      /\ UNCHANGED <<scene, page, doubt>> /\ inbox \subseteq inbox' /\ inbox' \in SUBSET Users
      /\ (\A u \in inbox' \ inbox : Rings(page[u]))
      /\ db' \in Databases /\ Chooses(db') = Chooses(db) /\ \A at : View(at, db') = View(at, db)
  BY DEF Moves, Alike
<1> DEFINE f == [x \in net |-> IF x = c THEN d ELSE x]
<1>3. net' = {f[x] : x \in net}
  BY <1>2
<1>4. \A x \in net : Alike(x, f[x])
  <2>1. \A x \in net : Alike(x, x)
    BY <1>1 DEF TypeInv, AllCalls, Alike
  <2> QED BY <1>2, <2>1
<1> HIDE DEF f
<1>5. doubt' \in SUBSET Users
  BY <1>1, <1>2 DEF TypeInv
<1>6. TypeInv' /\ BlockInv' /\ TalkInv'
  BY <1>1, <1>2, <1>3, <1>4, <1>5, ServeBase
<1>7. MemberInv'
  BY <1>1, <1>2 DEF MemberInv, AtHome, IsRead, Chosen, Chooses
<1>8. \A u : Reads(u) => Reads(u)'
  BY <1>2 DEF Reads, IsRead
<1>9. CatchInv'
  <2>1. \A x \in net' : IsRead(x, "ok") => x \in net
    BY <1>2 DEF IsRead
  <2>2. \A x \in net : IsRead(x, "ok") => x \in net'
    BY <1>2 DEF IsRead
  <2> QED BY <1>1, <1>2, <1>8, <2>1, <2>2 DEF CatchInv, IsRead, Chosen
<1> QED BY <1>6, <1>7, <1>9 DEF PageInv
(* The calls after answers went old, and one that is answered.             *)
Ages(x, y, old) == Alike(x, y) /\ y.phase = x.phase /\ y.view = x.view /\ (y.old <=> old)
Older1(x, told) == [x EXCEPT !.old = @ \/ (IsRead(x, "ok") /\ x.by \notin told)]
Turned(c, d, phase) ==
  Alike(c, d) /\ d.phase = phase /\ d.view = c.view /\ d.before \subseteq c.before /\ d.name = c.name
LEMMA AgedType ==
  ASSUME NEW x, IsCall(x), NEW old \in BOOLEAN
  PROVE  LET y == [x EXCEPT !.old = old] IN Ages(x, y, old)
BY DEF Ages, Alike, IsCall, CallOf

LEMMA TurnedType ==
  ASSUME NEW c, IsCall(c), NEW phase \in Phases
  PROVE  /\ Turned(c, [c EXCEPT !.phase = phase], phase)
         /\ Turned(c, [c EXCEPT !.phase = phase, !.before = {}], phase)
BY DEF Turned, Alike, IsCall, CallOf

LEMMA OlderAges ==
  ASSUME NEW x, IsCall(x), NEW told
  PROVE  Ages(x, Older1(x, told), x.old \/ (IsRead(x, "ok") /\ x.by \notin told))
<1> DEFINE old == x.old \/ (IsRead(x, "ok") /\ x.by \notin told)
           y == [x EXCEPT !.old = old]
<1>1. old \in BOOLEAN
  BY CallFields
<1>2. Ages(x, y, old)
  <2> HIDE DEF old
  <2> QED BY <1>1, AgedType, Zenon
<1>3. y = Older1(x, told)
  BY DEF Older1
<1> QED BY <1>2, <1>3

(* A change is committed, and told to the list of join requests or to none.*)
Commit(c, d, phase, announced, told) ==
  /\ Commits(c, d, phase, announced, told) /\ phase \in Phases
  /\ c.op \in OnJoin \union OnPlan \union {"join"} /\ d \in Databases /\ (Chooses(db) => Chooses(d))
  /\ ~announced => told = {}
  /\ announced =>
       /\ told = Told(c, "joins") /\ c.op \in {"join", "accept"} /\ d.plans = db.plans
       /\ c.op = "accept" => \/ db.joins[c.request].by = "guest" /\ db.joins[c.request].status \in Live
                             \/ View("home", d) = View("home", db)

LEMMA CommitAges ==
  ASSUME TypeInv, NEW c \in net, NEW d, NEW phase, NEW announced, NEW told, Commit(c, d, phase, announced, told)
  PROVE  \E f : /\ net' = {f[x] : x \in net} /\ Turned(c, f[c], phase)
                /\ \A x \in net \ {c} : Ages(x, f[x], x.old \/ (IsRead(x, "ok") /\ x.by \notin told))
<1> DEFINE answer == [c EXCEPT !.phase = phase, !.before = {}]
           f == [x \in net |-> IF x = c THEN answer ELSE Older1(x, told)]
<1>1. net' = {Older1(x, told) : x \in net \ {c}} \union {answer}
  BY DEF Commit, Commits, Older, Older1
<1>2. \A x \in net : IsCall(x)
  BY DEF TypeInv, AllCalls
<1>3. Turned(c, answer, phase)
  BY <1>2, TurnedType DEF Commit
<1> HIDE DEF answer
<1>4. net' = {f[x] : x \in net}
  BY <1>1
<1>5. Turned(c, f[c], phase)
  BY <1>3
<1>6. \A x \in net \ {c} : Ages(x, f[x], x.old \/ (IsRead(x, "ok") /\ x.by \notin told))
  BY <1>2, OlderAges
<1> HIDE DEF f
<1> QED BY <1>4, <1>5, <1>6

LEMMA CommitKeeps ==
  ASSUME PageInv, NEW c \in net, NEW d, NEW phase, NEW announced, NEW told, Commit(c, d, phase, announced, told)
  PROVE  PageInv'
<1>1. TypeInv /\ BlockInv /\ TalkInv /\ MemberInv /\ CatchInv
  BY DEF PageInv
<1>2. /\ db' = d /\ d \in Databases /\ (Chooses(db) => Chooses(d)) /\ inbox' = inbox \union told
      /\ UNCHANGED <<scene, page>> /\ c.op \in OnJoin \union OnPlan \union {"join"}
      /\ doubt' = doubt \union
           {u \in Users \ told : /\ u \notin inbox /\ ~\E x \in net : x.by = u /\ IsRead(x, "sent")
                                 /\ IF u = c.by THEN c.op = "join" /\ page[u].at = "home" ELSE ~announced}
  BY DEF Commit, Commits, Quiet
<1>3. PICK f : /\ net' = {f[x] : x \in net} /\ Turned(c, f[c], phase)
               /\ \A x \in net \ {c} : Ages(x, f[x], x.old \/ (IsRead(x, "ok") /\ x.by \notin told))
  BY <1>1, CommitAges
<1>4. told \subseteq Users /\ \A u \in told : Rings(page[u])
  BY DEF Commit, Told, Listens, Rings
<1>5. \A x \in net : Alike(x, f[x]) /\ f[x].view = x.view
  BY <1>3 DEF Turned, Ages
<1>6. ~IsRead(c, "ok") /\ ~IsRead(c, "sent") /\ c.op # "read" /\ f[c].op # "read"
  BY <1>2, <1>3 DEF IsRead, Turned, Alike, OnJoin, OnPlan
<1>7. TypeInv' /\ BlockInv' /\ TalkInv'
  <2>1. inbox' \in SUBSET Users /\ doubt' \in SUBSET Users /\ \A u \in inbox' \ inbox : Rings(page[u])
    BY <1>1, <1>2, <1>4 DEF TypeInv
  <2> QED BY <1>1, <1>2, <1>3, <1>5, <2>1, ServeBase
<1>8. \A x \in net, ph \in {"sent", "ok"} : IsRead(x, ph) <=> IsRead(f[x], ph)
  BY <1>3, <1>6 DEF IsRead, Ages, Alike
<1>9. \A x \in net : IsRead(f[x], "ok") /\ ~f[x].old => ~x.old /\ x.by \in told
  BY <1>3, <1>6, <1>8 DEF Ages, IsRead
<1>10. MemberInv'
  <2>1. \A u \in Users : Chosen(page'[u].view) => Chooses(db')
    BY <1>1, <1>2 DEF MemberInv
  <2>2. \A y \in net' : Chosen(y.view) => Chooses(db')
    BY <1>1, <1>2, <1>3, <1>5 DEF MemberInv
  <2>3. ASSUME NEW y \in net', IsRead(y, "ok"), ~y.old, y.at = "home"
        PROVE  /\ AtHome(page'[y.by]) /\ Chosen(page'[y.by].view) => Chosen(y.view)
               /\ \A z \in net' : IsRead(z, "ok") /\ z.by = y.by /\ Chosen(z.view) => Chosen(y.view)
    <3>1. PICK x \in net : y = f[x]
      BY <1>3
    <3>2. IsRead(x, "ok") /\ ~x.old /\ x.at = "home" /\ x.by = y.by /\ x.view = y.view
      BY <1>5, <1>8, <1>9, <2>3, <3>1 DEF Alike
    <3>3. /\ AtHome(page[x.by]) /\ Chosen(page[x.by].view) => Chosen(x.view)
          /\ \A z \in net : IsRead(z, "ok") /\ z.by = x.by /\ Chosen(z.view) => Chosen(x.view)
      BY <1>1, <3>2 DEF MemberInv
    <3>4. \A z \in net' : IsRead(z, "ok") => \E w \in net : IsRead(w, "ok") /\ w.by = z.by /\ w.view = z.view
      BY <1>3, <1>5, <1>8 DEF Alike
    <3> QED BY <1>2, <3>2, <3>3, <3>4
  <2> QED BY <2>1, <2>2, <2>3 DEF MemberInv, AtHome, IsRead, Chosen, Chooses
<1>11. \A x \in net, ph \in {"sent", "ok"} : IsRead(x, ph) => \E y \in net' : y.by = x.by /\ IsRead(y, ph)
  BY <1>3, <1>5, <1>8 DEF Alike
<1>12. \A u : Reads(u) => Reads(u)'
  BY <1>2, <1>11 DEF Reads, IsRead
<1>13. CatchInv'
  <2>1. ASSUME NEW y \in net', IsRead(y, "ok"), ~y.old PROVE Reads(y.by)'
    <3>1. PICK x \in net : y = f[x]
      BY <1>3
    <3>2. y.by \in told
      BY <1>5, <1>9, <2>1, <3>1 DEF Alike
    <3> QED BY <1>2, <3>2 DEF Reads
  <2>2. ASSUME NEW u \in Users \ doubt', page[u].at \in Lists, ~page[u].loading, page[u].tab # "collaborations"
        PROVE  page[u].view = View(page[u].at, db') \/ Reads(u)' \/ \E y \in net' : y.by = u /\ IsRead(y, "ok")
    <3>1. CASE Reads(u) \/ u \in told
      BY <1>2, <1>12, <3>1 DEF Reads
    <3>2. CASE ~Reads(u) /\ u \notin told
      <4>1. u \notin doubt /\ (IF u = c.by THEN ~(c.op = "join" /\ page[u].at = "home") ELSE announced)
        BY <1>2, <2>2, <3>2 DEF Reads
      <4>2. u # c.by
        <5>1. CASE c.op = "join"
          BY <1>1, <2>2, <4>1, <5>1 DEF TalkInv, FitsCall, FitsAt, Place, Lists
        <5>2. CASE c.op # "join"
          BY <1>1, <1>2, <2>2, <5>2 DEF BlockInv, Blocks, Blocked
        <5> QED BY <5>1, <5>2
      <4>3. announced /\ told = Told(c, "joins") /\ c.op \in {"join", "accept"} /\ d.plans = db.plans
        BY <4>1, <4>2 DEF Commit
      <4>4. page[u].view = View(page[u].at, db) \/ \E x \in net : x.by = u /\ IsRead(x, "ok")
        BY <1>1, <2>2, <3>2, <4>1 DEF CatchInv
      <4>5. CASE page[u].view = View(page[u].at, db)
        <5>1. ~Listens(u, "joins")
          BY <3>2, <4>2, <4>3 DEF Told
        <5>2. CASE page[u].at = "plans"
          <6>1. View("plans", d) = View("plans", db)
            BY <4>3 DEF View
          <6> QED BY <1>2, <4>5, <5>2, <6>1
        <5>3. CASE page[u].at = "home"
          <6>1. u = "guest" /\ page[u].tab = HomeTab(page[u].view) /\ page[u].tab # "joinrequests"
            BY <1>1, <5>1, <5>3 DEF TalkInv, Place, Talks, Listens
          <6>2. ~Has(View("home", db).joins)
            BY <2>2, <4>5, <5>3, <6>1 DEF HomeTab
          <6>3. c.op = "accept" /\ c.request \in Ids
            BY <1>1, <4>2, <4>3, <6>1 DEF TalkInv, FitsCall, FitsAt, OnJoin
          <6>4. ~(db.joins[c.request].by = "guest" /\ db.joins[c.request].status \in Live)
            <7>1. View("home", db).joins = [i \in Ids |-> IF db.joins[i].by = "guest" THEN db.joins[i] ELSE NoRows[i]]
              BY DEF View
            <7> QED BY <6>2, <6>3, <7>1 DEF Has
          <6>5. View("home", d) = View("home", db)
            BY <4>3, <6>3, <6>4 DEF Commit
          <6> QED BY <1>2, <4>5, <5>3, <6>5
        <5> QED BY <2>2, <5>1, <5>2, <5>3 DEF Listens, Lists
      <4> QED BY <1>11, <4>4, <4>5
    <3> QED BY <3>1, <3>2
  <2> QED BY <1>2, <2>1, <2>2 DEF CatchInv, IsRead, Chosen
<1> QED BY <1>7, <1>10, <1>13 DEF PageInv
(* A reading is answered, which overtakes the earlier answers to its user. *)
Read(c, d) ==
  IsCall(d) /\ Alike(c, d) /\ d.phase = "ok" /\ d.view = View(c.at, db)
LEMMA ReadType ==
  ASSUME TypeInv, NEW c \in net
  PROVE  Read(c, [c EXCEPT !.phase = "ok", !.view = View(c.at, db)])
<1> DEFINE view == View(c.at, db)
<1>1. IsCall(c) /\ db \in Databases
  BY DEF TypeInv, AllCalls
<1>2. view \in Views
  BY <1>1, ViewType
<1>3. LET d == [c EXCEPT !.phase = "ok", !.view = view] IN
      IsCall(d) /\ Alike(c, d) /\ d.phase = "ok" /\ d.view = view
  <2> HIDE DEF view
  <2> QED BY <1>1, <1>2 DEF IsCall, CallOf, Alike, Phases
<1> QED BY <1>3 DEF Read

LEMMA ReadOlder ==
  ASSUME TypeInv, NEW c \in net, ServeRead(c)
  PROVE  net' = {Older1(x, Users \ {c.by}) : x \in net \ {c}} \union {[c EXCEPT !.phase = "ok", !.view = View(c.at, db)]}
<1> DEFINE answer == [c EXCEPT !.phase = "ok", !.view = View(c.at, db)]
           others == Users \ {c.by}
<1>1. \A x \in net : IsCall(x) /\ x.by \in Users
  BY CallFields DEF TypeInv, AllCalls
<1>2. \A x \in net \ {c} : [x EXCEPT !.old = @ \/ (IsRead(x, "ok") /\ x.by = c.by)] = Older1(x, others)
  <2> TAKE x \in net \ {c}
  <2>1. (x.by = c.by) <=> (x.by \notin others)
    BY <1>1
  <2>2. (x.old \/ (IsRead(x, "ok") /\ x.by = c.by)) = (x.old \/ (IsRead(x, "ok") /\ x.by \notin others))
    BY <2>1
  <2> HIDE DEF others
  <2> QED BY <2>2 DEF Older1
<1>3. net' = {[x EXCEPT !.old = @ \/ (IsRead(x, "ok") /\ x.by = c.by)] : x \in net \ {c}} \union {answer}
  BY DEF ServeRead
<1> HIDE DEF answer, others
<1>4. net' = {Older1(x, others) : x \in net \ {c}} \union {answer}
  BY <1>2, <1>3
<1> QED BY <1>4 DEF answer, others

LEMMA ReadAges ==
  ASSUME TypeInv, NEW c \in net, ServeRead(c)
  PROVE  \E f : /\ net' = {f[x] : x \in net} /\ Read(c, f[c])
                /\ \A x \in net \ {c} : Ages(x, f[x], x.old \/ (IsRead(x, "ok") /\ x.by = c.by))
<1> DEFINE answer == [c EXCEPT !.phase = "ok", !.view = View(c.at, db)]
           others == Users \ {c.by}
           f == [x \in net |-> IF x = c THEN answer ELSE Older1(x, others)]
<1>1. \A x \in net : IsCall(x) /\ x.by \in Users
  BY CallFields DEF TypeInv, AllCalls
<1>2. net' = {Older1(x, others) : x \in net \ {c}} \union {answer}
  BY ReadOlder
<1>3. Read(c, answer)
  BY ReadType
<1>4. \A x \in net \ {c} : (x.by \notin others) <=> (x.by = c.by)
  BY <1>1
<1> HIDE DEF answer, others
<1>5. net' = {f[x] : x \in net}
  BY <1>2
<1>6. Read(c, f[c])
  BY <1>3
<1>7. \A x \in net \ {c} : Ages(x, f[x], x.old \/ (IsRead(x, "ok") /\ x.by = c.by))
  BY <1>1, <1>4, OlderAges DEF Ages
<1> HIDE DEF f
<1> QED BY <1>5, <1>6, <1>7

LEMMA ReadKeeps ==
  ASSUME PageInv, NEW c \in net, ServeRead(c)
  PROVE  PageInv'
<1>1. TypeInv /\ BlockInv /\ TalkInv /\ MemberInv /\ CatchInv
  BY DEF PageInv
<1>2. c.op = "read" /\ c.phase = "sent" /\ UNCHANGED <<scene, db, inbox, page, doubt>>
  BY DEF ServeRead, Serves, Same, History, Quiet
<1>3. PICK f : /\ net' = {f[x] : x \in net} /\ Read(c, f[c])
               /\ \A x \in net \ {c} : Ages(x, f[x], x.old \/ (IsRead(x, "ok") /\ x.by = c.by))
  BY <1>1, ReadAges
<1>4. f[c].op = "read" /\ f[c].phase = "ok" /\ f[c].at = c.at /\ f[c].view = View(c.at, db) /\ f[c].by = c.by
  BY <1>2, <1>3 DEF Read, Alike
<1>5. \A x \in net : Alike(x, f[x])
  BY <1>3 DEF Read, Ages
<1>6. TypeInv' /\ BlockInv' /\ TalkInv'
  <2>1. db' \in Databases /\ inbox' \in SUBSET Users /\ doubt' \in SUBSET Users /\ \A u \in inbox' \ inbox : Rings(page[u])
    BY <1>1, <1>2 DEF TypeInv
  <2> QED BY <1>1, <1>2, <1>3, <1>5, <2>1, ServeBase
<1>7. \A ph : \A x \in net \ {c} : IsRead(x, ph) <=> IsRead(f[x], ph)
  BY <1>3 DEF IsRead, Ages, Alike
<1>8. \A x \in net \ {c} : IsRead(f[x], "ok") /\ ~f[x].old => ~x.old /\ x.by # c.by
  BY <1>3, <1>7 DEF Ages
<1>9. \A x \in net \ {c} : f[x].view = x.view /\ f[x].by = x.by /\ f[x].at = x.at
  BY <1>3 DEF Ages, Alike
<1>10. Chosen(View(c.at, db)) => Chooses(db)
  BY DEF View, Chosen, Chooses
<1>11. Chosen(View("home", db)) <=> Chooses(db)
  BY DEF View, Chosen, Chooses
<1>12. MemberInv'
  <2>1. \A u \in Users : Chosen(page'[u].view) => Chooses(db')
    BY <1>1, <1>2 DEF MemberInv
  <2>2. \A y \in net' : Chosen(y.view) => Chooses(db')
    BY <1>1, <1>2, <1>3, <1>4, <1>9, <1>10 DEF MemberInv
  <2>3. ASSUME NEW y \in net', IsRead(y, "ok"), ~y.old, y.at = "home"
        PROVE  /\ AtHome(page'[y.by]) /\ Chosen(page'[y.by].view) => Chosen(y.view)
               /\ \A z \in net' : IsRead(z, "ok") /\ z.by = y.by /\ Chosen(z.view) => Chosen(y.view)
    <3>1. PICK x \in net : y = f[x]
      BY <1>3
    <3>2. CASE x = c
      <4>1. Chosen(y.view) <=> Chooses(db)
        BY <1>4, <1>11, <2>3, <3>1, <3>2
      <4>2. y.by \in Users
        BY <1>6, <2>3, CallFields DEF TypeInv, AllCalls
      <4> QED BY <1>2, <2>1, <2>2, <4>1, <4>2
    <3>3. CASE x # c
      <4>1. IsRead(x, "ok") /\ ~x.old /\ x.at = "home" /\ x.by = y.by /\ x.view = y.view /\ x.by # c.by
        BY <1>7, <1>8, <1>9, <2>3, <3>1, <3>3
      <4>2. /\ AtHome(page[x.by]) /\ Chosen(page[x.by].view) => Chosen(x.view)
            /\ \A z \in net : IsRead(z, "ok") /\ z.by = x.by /\ Chosen(z.view) => Chosen(x.view)
        BY <1>1, <4>1 DEF MemberInv
      <4>3. \A z \in net' : IsRead(z, "ok") /\ z.by = x.by =>
              \E w \in net : IsRead(w, "ok") /\ w.by = z.by /\ w.view = z.view
        BY <1>3, <1>4, <1>7, <1>9, <4>1
      <4> QED BY <1>2, <4>1, <4>2, <4>3
    <3> QED BY <3>2, <3>3
  <2> QED BY <2>1, <2>2, <2>3 DEF MemberInv, AtHome, IsRead, Chosen, Chooses
<1>13. \A u : Reads(u) => Reads(u)' \/ u = c.by
  <2>1. \A x \in net \ {c} : IsRead(x, "sent") => \E y \in net' : y.by = x.by /\ IsRead(y, "sent")
    BY <1>3, <1>7, <1>9
  <2> QED BY <1>2, <2>1 DEF Reads, IsRead
<1>14. f[c] \in net' /\ IsRead(f[c], "ok")
  BY <1>3, <1>4 DEF IsRead
<1>15. CatchInv'
  <2>1. ASSUME NEW y \in net', IsRead(y, "ok"), ~y.old, page[y.by].at \in Lists \union {"register"}
        PROVE  y.view = View(y.at, db) \/ Reads(y.by)' \/ (y.at = "home" /\ Chosen(y.view))
    <3>1. PICK x \in net : y = f[x]
      BY <1>3
    <3>2. CASE x = c
      BY <1>4, <3>1, <3>2
    <3>3. CASE x # c
      <4>1. IsRead(x, "ok") /\ ~x.old /\ x.at = y.at /\ x.by = y.by /\ x.view = y.view /\ x.by # c.by
        BY <1>7, <1>8, <1>9, <2>1, <3>1, <3>3
      <4>2. x.view = View(x.at, db) \/ Reads(x.by) \/ (x.at = "home" /\ Chosen(x.view))
        BY <1>1, <2>1, <4>1 DEF CatchInv
      <4> QED BY <1>13, <4>1, <4>2
    <3> QED BY <3>2, <3>3
  <2>2. ASSUME NEW u \in Users \ doubt, page[u].at \in Lists, ~page[u].loading, page[u].tab # "collaborations"
        PROVE  page[u].view = View(page[u].at, db) \/ Reads(u)' \/ \E y \in net' : y.by = u /\ IsRead(y, "ok")
    <3>1. CASE u = c.by
      BY <1>4, <1>14, <3>1
    <3>2. CASE u # c.by
      <4>1. page[u].view = View(page[u].at, db) \/ Reads(u) \/ \E x \in net : x.by = u /\ IsRead(x, "ok")
        BY <1>1, <2>2 DEF CatchInv
      <4>2. \A x \in net : x.by = u /\ IsRead(x, "ok") => \E y \in net' : y.by = u /\ IsRead(y, "ok")
        BY <1>3, <1>7, <1>9, <3>2
      <4> QED BY <1>13, <3>2, <4>1, <4>2
    <3> QED BY <3>1, <3>2
  <2> QED BY <1>2, <2>1, <2>2 DEF CatchInv, IsRead, Chosen
<1> QED BY <1>6, <1>12, <1>15 DEF PageInv

-------------------------------------------------------------------------------
(* The handlers of the server.                                             *)
LEMMA HandledType ==
  ASSUME TypeInv, NEW c \in net
  PROVE  /\ IsCall(c) /\ db \in Databases /\ Status(c) \in Statuses
         /\ db.joins \in [Ids -> Asks] /\ db.plans \in [Plans -> Bids]
         /\ db.members \in SUBSET Requesters /\ db.made \in SUBSET Made
<1>1. IsCall(c) /\ db \in Databases
  BY DEF TypeInv, AllCalls
<1>2. /\ db.joins \in [Ids -> Asks] /\ db.plans \in [Plans -> Bids]
      /\ db.members \in SUBSET Requesters /\ db.made \in SUBSET Made
  BY <1>1 DEF Databases
<1>3. Status(c) \in Statuses
  <2>1. c.request \in Ids \union {0} /\ c.plan \in Plans
    BY <1>1, CallFields
  <2> QED BY <1>2, <2>1 DEF Status, Asks, Bids
<1> QED BY <1>1, <1>2, <1>3

(* A decision changes the status of the request it is about, and no other. *)
LEMMA PutsType ==
  ASSUME TypeInv, NEW c \in net, NEW status \in Statuses
  PROVE  LET d == Puts(c, status) IN
         /\ d \in Databases /\ d.members = db.members /\ d.made = db.made
         /\ c.request = 0 => /\ d.joins = db.joins
                             /\ d.plans = [db.plans EXCEPT ![c.plan] = [db.plans[c.plan] EXCEPT !.status = status]]
         /\ c.request # 0 => /\ d.plans = db.plans
                             /\ d.joins = [db.joins EXCEPT ![c.request] = [db.joins[c.request] EXCEPT !.status = status]]
<1>1. /\ db \in Databases /\ db.joins \in [Ids -> Asks] /\ db.plans \in [Plans -> Bids]
      /\ c.request \in Ids \union {0} /\ c.plan \in Plans
  BY HandledType, CallFields
<1>2. CASE c.request = 0
  <2> DEFINE plans == [db.plans EXCEPT ![c.plan] = [db.plans[c.plan] EXCEPT !.status = status]]
             d == [db EXCEPT !.plans = plans]
  <2>1. plans \in [Plans -> Bids]
    BY <1>1 DEF Bids
  <2>2. Puts(c, status) = d
    BY <1>1, <1>2 DEF Puts, Databases
  <2> HIDE DEF plans
  <2>3. d \in Databases /\ d.members = db.members /\ d.made = db.made /\ d.joins = db.joins /\ d.plans = plans
    BY <1>1, <2>1 DEF Databases
  <2> QED BY <1>2, <2>2, <2>3 DEF plans
<1>3. CASE c.request # 0
  <2> DEFINE joins == [db.joins EXCEPT ![c.request] = [db.joins[c.request] EXCEPT !.status = status]]
             d == [db EXCEPT !.joins = joins]
  <2>1. joins \in [Ids -> Asks]
    BY <1>1 DEF Asks
  <2>2. Puts(c, status) = d
    BY <1>1, <1>3 DEF Puts, Databases
  <2> HIDE DEF joins
  <2>3. d \in Databases /\ d.members = db.members /\ d.made = db.made /\ d.plans = db.plans /\ d.joins = joins
    BY <1>1, <2>1 DEF Databases
  <2> QED BY <1>3, <2>2, <2>3 DEF joins
<1> QED BY <1>2, <1>3

LEMMA Went ==
  ASSUME TypeInv, NEW c \in net, c.op # "read", NEW d, Becomes(c, d), Alike(c, d), d.view = c.view,
         UNCHANGED <<scene, db, page, doubt>>,
         inbox' = inbox \/ \E kind \in {"joins", "plans"} : inbox' = inbox \union Told(c, kind)
  PROVE  Moves(c, d)
<1>1. inbox \subseteq inbox' /\ inbox' \in SUBSET Users /\ \A u \in inbox' \ inbox : Rings(page[u])
  BY DEF TypeInv, Told, Listens, Rings
<1>2. db' \in Databases
  BY DEF TypeInv
<1> QED BY <1>1, <1>2 DEF Moves, Becomes

LEMMA FailsMoves ==
  ASSUME TypeInv, NEW c \in net, c.op # "read", Fails(c)
  PROVE  \E d : Moves(c, d)
<1> DEFINE d == [c EXCEPT !.phase = "failed", !.before = {}]
<1>1. \A phase \in {"failed", "told"} : Turned(c, [c EXCEPT !.phase = phase, !.before = {}], phase)
  <2>1. \A phase \in {"failed", "told"} : phase \in Phases
    BY DEF Phases
  <2> QED BY <2>1, HandledType, TurnedType, Zenon
<1>2. Turned(c, d, "failed")
  BY <1>1
<1>3. Becomes(c, d) /\ UNCHANGED <<scene, db, page, doubt, inbox>>
  BY DEF Fails, Answers, Same, History
<1> HIDE DEF d
<1> QED BY <1>2, <1>3, Went DEF Turned

(* What decides on a request goes on, or tells whoever listens.            *)
LEMMA AnswersMoves ==
  ASSUME TypeInv, NEW c \in net, c.op # "read", NEW phase \in Phases, Answers(c, phase),
         UNCHANGED <<scene, db, page, doubt>>,
         inbox' = inbox \/ \E kind \in {"joins", "plans"} : inbox' = inbox \union Told(c, kind)
  PROVE  \E d : Moves(c, d)
<1> DEFINE d == [c EXCEPT !.phase = phase, !.before = {}]
<1>1. Turned(c, d, phase)
  BY HandledType, TurnedType
<1>2. Becomes(c, d)
  BY DEF Answers
<1> HIDE DEF d
<1> QED BY <1>1, <1>2, Went DEF Turned

LEMMA LooksMove ==
  ASSUME TypeInv, NEW c \in net, ServePlan(c) \/ ServeExists(c) \/ BeginJoin(c)
  PROVE  \E d : Moves(c, d)
<1>1. IsCall(c) /\ db \in Databases /\ Status(c) \in Statuses /\ db.plans \in [Plans -> Bids] /\ c.plan \in Plans
  BY HandledType, CallFields
<1>2. c.op # "read"
  BY DEF ServePlan, ServeExists, BeginJoin, Serves
<1>3. CASE Fails(c)
  BY <1>2, <1>3, FailsMoves
<1>4. CASE ServePlan(c) /\ ~Fails(c)
  <2> DEFINE name == db.plans[c.plan].name
             status == Status(c)
             d == [c EXCEPT !.phase = "ok", !.name = name, !.status = status]
  <2>1. Becomes(c, d) /\ UNCHANGED <<scene, db, page, doubt, inbox>>
    BY <1>4 DEF ServePlan, Same, History, Quiet
  <2>2. name \in Names /\ status \in Statuses
    BY <1>1 DEF Bids
  <2>3. Alike(c, d) /\ d.view = c.view
    <3> HIDE DEF name, status
    <3> QED BY <1>1, <2>2 DEF IsCall, CallOf, Phases, Alike
  <2> HIDE DEF d
  <2> QED BY <1>2, <2>1, <2>3, Went
<1>5. CASE ServeExists(c) /\ ~Fails(c)
  <2> DEFINE taken == Taken(c.name)
             d == [c EXCEPT !.phase = "ok", !.exists = taken]
  <2>1. Becomes(c, d) /\ UNCHANGED <<scene, db, page, doubt, inbox>>
    BY <1>5 DEF ServeExists, Same, History, Quiet
  <2>2. taken \in BOOLEAN
    BY DEF Taken
  <2>3. Alike(c, d) /\ d.view = c.view
    <3> HIDE DEF taken
    <3> QED BY <1>1, <2>2 DEF IsCall, CallOf, Phases, Alike
  <2> HIDE DEF d
  <2> QED BY <1>2, <2>1, <2>3, Went
<1>6. CASE BeginJoin(c) /\ ~Fails(c)
  <2> DEFINE before == {i \in Ids : db.joins[i].by = c.by /\ db.joins[i].status \in Live}
             d == [c EXCEPT !.phase = "begun", !.before = before]
  <2>1. Becomes(c, d) /\ UNCHANGED <<scene, db, page, doubt, inbox>>
    BY <1>6 DEF BeginJoin, Quiet
  <2>2. before \in SUBSET Ids
    OBVIOUS
  <2>3. Alike(c, d) /\ d.view = c.view
    <3> HIDE DEF before
    <3> QED BY <1>1, <2>2 DEF IsCall, CallOf, Phases, Alike
  <2> HIDE DEF d
  <2> QED BY <1>2, <2>1, <2>3, Went
<1> QED BY <1>3, <1>4, <1>5, <1>6

LEMMA BeginMoves ==
  ASSUME TypeInv, NEW c \in net, BeginAccept(c) \/ BeginDeny(c) \/ BeginDelete(c)
  PROVE  \E d : Moves(c, d)
<1>1. c.op # "read" /\ Kind(c) \in {"joins", "plans"}
  BY DEF BeginAccept, BeginDeny, BeginDelete, Serves, Kind
<1>2. CASE Fails(c)
  BY <1>1, <1>2, FailsMoves
<1>3. CASE BeginAccept(c) /\ ~Fails(c)
  <2>1. Answers(c, "begun") /\ UNCHANGED <<scene, db, page, doubt, inbox>>
    BY <1>3 DEF BeginAccept, Same, History, Quiet
  <2>2. "begun" \in Phases
    BY DEF Phases
  <2> QED BY <1>1, <2>1, <2>2, AnswersMoves
<1>4. CASE (BeginDeny(c) \/ BeginDelete(c)) /\ ~Fails(c)
  <2>1. Answers(c, "told") /\ UNCHANGED <<scene, db, page, doubt>> /\ inbox' = inbox \union Told(c, Kind(c))
    BY <1>4 DEF BeginDeny, BeginDelete, Tells, History, Quiet
  <2>2. "told" \in Phases
    BY DEF Phases
  <2> QED BY <1>1, <2>1, <2>2, AnswersMoves
<1> QED BY <1>2, <1>3, <1>4

(* A collaboration is made, of which nobody is told.                       *)
LEMMA ApproveCommits ==
  ASSUME TypeInv, NEW c \in net, BeginApprove(c)
  PROVE  \/ \E d : Moves(c, d)
         \/ \E d, phase, announced, told : Commit(c, d, phase, announced, told)
<1>1. c.op = "approve" /\ c.op # "read" /\ c.phase = "sent"
  BY DEF BeginApprove, Serves
<1>2. CASE Fails(c)
  BY <1>1, <1>2, FailsMoves
<1>3. CASE ~Fails(c)
  <2> DEFINE m == [plan |-> c.plan, name |-> c.name]
             made == db.made \union {m}
             d == [db EXCEPT !.made = made]
             none == {}
  <2>1. db.made \union {[plan |-> c.plan, name |-> c.name]} = made
    OBVIOUS
  <2>2. IsCall(c) /\ db \in Databases /\ db.made \in SUBSET Made /\ c.plan \in Plans /\ c.name \in Names
    BY HandledType, CallFields
  <2>3. made \in SUBSET Made /\ made # {}
    <3>1. m \in Made /\ m \in made
      BY <2>2 DEF Made
    <3> QED BY <2>2, <3>1
  <2>4. Commits(c, d, "begun", FALSE, none)
    BY <1>3 DEF BeginApprove
  <2> HIDE DEF m, made
  <2>5. d \in Databases /\ d.made = made
    BY <2>2, <2>3 DEF Databases
  <2>6. Chooses(d) /\ "begun" \in Phases /\ none = {}
    BY <2>3, <2>5 DEF Chooses, Phases
  <2> HIDE DEF d, none
  <2>7. \A phase \in Phases : Commits(c, d, phase, FALSE, none) => Commit(c, d, phase, FALSE, none)
    BY <1>1, <2>5, <2>6 DEF Commit, OnPlan
  <2> QED BY <2>4, <2>6, <2>7
<1> QED BY <1>2, <1>3

LEMMA JoinCommits ==
  ASSUME TypeInv, TalkInv, NEW c \in net, CommitJoin(c)
  PROVE  \E d, phase, announced, told : Commit(c, d, phase, announced, told)
<1>1. PICK i \in Free, mailed \in scene.mails :
        Commits(c, [db EXCEPT !.joins = [j \in Ids |->
                      IF j = i THEN [by |-> c.by, status |-> "open"]
                      ELSE IF j \in c.before THEN [db.joins[j] EXCEPT !.status = "gone"]
                      ELSE db.joins[j]]],
                IF mailed THEN "ok" ELSE "failed", mailed, IF mailed THEN Told(c, "joins") ELSE {})
  BY DEF CommitJoin
<1> DEFINE joins == [j \in Ids |-> IF j = i THEN [by |-> c.by, status |-> "open"]
                                   ELSE IF j \in c.before THEN [db.joins[j] EXCEPT !.status = "gone"]
                                   ELSE db.joins[j]]
           d == [db EXCEPT !.joins = joins]
           phase == IF mailed THEN "ok" ELSE "failed"
           told == IF mailed THEN Told(c, "joins") ELSE {}
<1>2. c.op = "join" /\ Doing(c) /\ c.by = "guest"
  BY DEF CommitJoin, Goes, Doing, TalkInv, FitsCall, FitsAt
<1>3. IsCall(c) /\ db \in Databases /\ db.joins \in [Ids -> Asks]
  BY HandledType
<1>4. joins \in [Ids -> Asks]
  <2>1. \A j \in Ids : [db.joins[j] EXCEPT !.status = "gone"] \in Asks
    BY <1>3 DEF Asks, Statuses
  <2>2. [by |-> c.by, status |-> "open"] \in Asks
    BY <1>2 DEF Asks, Statuses, Live, Requesters
  <2> QED BY <1>3, <2>1, <2>2
<1>5. Commits(c, d, phase, mailed, told)
  BY <1>1
<1>6. phase \in Phases /\ (~mailed => told = {}) /\ (mailed => told = Told(c, "joins"))
  BY DEF Phases
<1> HIDE DEF joins, phase, told
<1>7. d \in Databases /\ d.members = db.members /\ d.made = db.made /\ d.plans = db.plans
  BY <1>3, <1>4 DEF Databases
<1> HIDE DEF d
<1>8. Commit(c, d, phase, mailed, told)
  BY <1>2, <1>5, <1>6, <1>7 DEF Commit, Chooses
<1> QED BY <1>8

LEMMA AcceptCommits ==
  ASSUME TypeInv, TalkInv, NEW c \in net, CommitAccept(c)
  PROVE  \/ \E d : Moves(c, d)
         \/ \E d, phase, announced, told : Commit(c, d, phase, announced, told)
<1>1. c.op = "accept" /\ Doing(c) /\ c.op # "read" /\ c.op \in OnJoin
  BY DEF CommitAccept, Goes, Doing, OnJoin
<1>2. CASE Fails(c)
  BY <1>1, <1>2, FailsMoves
<1>3. CASE ~Fails(c)
  <2> DEFINE b == Puts(c, "approved")
             members == db.members \union {db.joins[c.request].by}
             d == [b EXCEPT !.members = members]
             told == Told(c, "joins")
  <2>1. c.request \in Ids /\ c.request # 0
    BY <1>1 DEF TalkInv, FitsCall, FitsAt, Ids
  <2>2. IsCall(c) /\ db \in Databases /\ db.joins \in [Ids -> Asks] /\ db.members \in SUBSET Requesters
    BY HandledType
  <2>3. /\ b \in Databases /\ b.members = db.members /\ b.plans = db.plans /\ b.made = db.made
        /\ b.joins = [db.joins EXCEPT ![c.request] = [db.joins[c.request] EXCEPT !.status = "approved"]]
    <3>1. \A status \in {"approved", "denied"} : status \in Statuses
      BY DEF Statuses, Live
    <3>2. \A status \in {"approved", "denied"} :
            /\ Puts(c, status) \in Databases /\ Puts(c, status).members = db.members
            /\ Puts(c, status).plans = db.plans /\ Puts(c, status).made = db.made
            /\ Puts(c, status).joins
                 = [db.joins EXCEPT ![c.request] = [db.joins[c.request] EXCEPT !.status = status]]
      BY <2>1, <3>1, PutsType
    <3> QED BY <3>2
  <2>4. There(c) /\ Commits(c, d, "ok", TRUE, told)
    <3>1. b.members = db.members
      BY <2>3
    <3>2. [b EXCEPT !.members = @ \union {db.joins[c.request].by}] = d
      BY <3>1
    <3> HIDE DEF d, b
    <3> QED BY <1>3, <3>2 DEF CommitAccept, b
  <2>5. members \in SUBSET Requesters /\ db.members \subseteq members
    BY <2>1, <2>2 DEF Asks
  <2> HIDE DEF b, members, told
  <2>6. d \in Databases /\ d.members = members /\ d.plans = db.plans /\ d.joins = b.joins /\ d.made = db.made
    BY <2>3, <2>5 DEF Databases
  <2>7. \/ db.joins[c.request].by = "guest" /\ db.joins[c.request].status \in Live
        \/ View("home", d) = View("home", db)
    <3>1. CASE db.joins[c.request].by = "guest"
      BY <2>1, <2>4, <3>1 DEF There, Status
    <3>2. CASE db.joins[c.request].by # "guest"
      <4>1. "guest" \in d.members <=> "guest" \in db.members
        BY <2>6, <3>2 DEF members
      <4>2. \A i \in Ids : d.joins[i].by = db.joins[i].by /\ (i # c.request => d.joins[i] = db.joins[i])
        <5> TAKE i \in Ids
        <5>1. CASE i = c.request
          BY <2>1, <2>2, <2>3, <2>6, <5>1 DEF Asks
        <5>2. CASE i # c.request
          BY <2>1, <2>2, <2>3, <2>6, <5>2
        <5> QED BY <5>1, <5>2
      <4>3. [i \in Ids |-> IF d.joins[i].by = "guest" THEN d.joins[i] ELSE NoRows[i]]
              = [i \in Ids |-> IF db.joins[i].by = "guest" THEN db.joins[i] ELSE NoRows[i]]
        BY <3>2, <4>2
      <4> HIDE DEF d
      <4> QED BY <2>6, <4>1, <4>3 DEF View
    <3> QED BY <3>1, <3>2
  <2> HIDE DEF d
  <2>8. "ok" \in Phases
    BY DEF Phases
  <2>9. \A phase \in Phases : Commits(c, d, phase, TRUE, told) => Commit(c, d, phase, TRUE, told)
    BY <1>1, <2>5, <2>6, <2>7 DEF Commit, Chooses, told
  <2> QED BY <2>4, <2>8, <2>9
<1> QED BY <1>2, <1>3

(* The other decisions are told to nobody after their commit.              *)
LEMMA QuietCommits ==
  ASSUME TypeInv, NEW c \in net, CommitDeny(c) \/ CommitDelete(c) \/ CommitApprove(c)
  PROVE  \/ \E d : Moves(c, d)
         \/ \E d, phase, announced, told : Commit(c, d, phase, announced, told)
<1>1. c.op # "read" /\ Doing(c) /\ c.op \in OnJoin \union OnPlan
  BY DEF CommitDeny, CommitDelete, CommitApprove, Goes, Doing, OnJoin, OnPlan
<1>2. CASE Fails(c)
  BY <1>1, <1>2, FailsMoves
<1>3. CASE \E status \in Statuses : Commits(c, Puts(c, status), "ok", FALSE, {})
  <2>1. PICK status \in Statuses : Commits(c, Puts(c, status), "ok", FALSE, {})
    BY <1>3
  <2> DEFINE d == Puts(c, status)
             none == {}
  <2>2. d \in Databases /\ d.members = db.members /\ d.made = db.made
    BY PutsType
  <2>3. Commits(c, d, "ok", FALSE, none) /\ (FALSE \/ none = {})
    BY <2>1
  <2> HIDE DEF d, none
  <2>4. "ok" \in Phases
    BY DEF Phases
  <2>5. \A phase \in Phases : Commits(c, d, phase, FALSE, none) => Commit(c, d, phase, FALSE, none)
    BY <1>1, <2>2, <2>3 DEF Commit, Chooses
  <2> QED BY <2>3, <2>4, <2>5
<1>4. CASE CommitApprove(c) /\ Answers(c, "failed")
  <2>1. UNCHANGED <<scene, db, page, doubt, inbox>> \/ \E status \in Statuses : Commits(c, Puts(c, status), "ok", FALSE, {})
    BY <1>4 DEF CommitApprove, Quiet, Statuses, Live
  <2>2. \A phase \in {"failed", "ok"} : phase \in Phases
    BY DEF Phases
  <2>3. CASE UNCHANGED <<scene, db, page, doubt, inbox>>
    <3>1. \A phase \in {"failed", "ok"} : Answers(c, phase) => \E d : Moves(c, d)
      BY <1>1, <2>2, <2>3, AnswersMoves
    <3> QED BY <1>4, <3>1
  <2> QED BY <1>3, <2>1, <2>3
<1>5. CASE ~Fails(c) /\ ~(CommitApprove(c) /\ Answers(c, "failed"))
  <2>1. \E status \in {"denied", "gone", "approved"} : Commits(c, Puts(c, status), "ok", FALSE, {})
    BY <1>5 DEF CommitDeny, CommitDelete, CommitApprove
  <2>2. \A status \in {"denied", "gone", "approved"} : status \in Statuses
    BY DEF Statuses, Live
  <2> QED BY <1>3, <2>1, <2>2
<1> QED BY <1>2, <1>3, <1>4, <1>5

LEMMA ServerKeeps ==
  ASSUME PageInv, NEW c \in net,
         \/ ServeRead(c) \/ ServePlan(c) \/ ServeExists(c)
         \/ BeginJoin(c) \/ CommitJoin(c) \/ BeginAccept(c) \/ CommitAccept(c)
         \/ BeginDeny(c) \/ CommitDeny(c) \/ BeginDelete(c) \/ CommitDelete(c)
         \/ BeginApprove(c) \/ CommitApprove(c)
  PROVE  PageInv'
<1>1. TypeInv /\ TalkInv
  BY DEF PageInv
<1>2. CASE ServeRead(c)
  BY <1>2, ReadKeeps
<1>3. CASE \E d : Moves(c, d)
  BY <1>3, MovesKeeps
<1>4. CASE \E d, phase, announced, told : Commit(c, d, phase, announced, told)
  BY <1>4, CommitKeeps
<1>5. CASE ServePlan(c) \/ ServeExists(c) \/ BeginJoin(c) \/ BeginAccept(c) \/ BeginDeny(c) \/ BeginDelete(c)
  BY <1>1, <1>3, <1>5, LooksMove, BeginMoves
<1>6. CASE CommitJoin(c) \/ CommitAccept(c) \/ CommitDeny(c) \/ CommitDelete(c) \/ CommitApprove(c)
           \/ BeginApprove(c)
  BY <1>1, <1>3, <1>4, <1>6, JoinCommits, AcceptCommits, QuietCommits, ApproveCommits
<1> QED BY <1>2, <1>5, <1>6

-------------------------------------------------------------------------------
(* The browser.                                                            *)
LEMMA BlockedOne ==
  ASSUME PageInv, NEW c \in net
  PROVE  /\ IsCall(c) /\ c.by \in Users /\ page[c.by] \in PageStates /\ Talks(page[c.by])
         /\ Place(c.by, page[c.by].at) /\ FitsAt(c, page[c.by].at)
         /\ Blocks(c) => /\ Blocked(c, page[c.by])
                         /\ \A x \in net \ {c} : x.by = c.by => ~Blocks(x)
BY CallFields, PageFields DEF PageInv, TypeInv, AllCalls, BlockInv, TalkInv, FitsCall

(* An answer that is no reading changes nothing that is shown of the list. *)
LEMMA DropsKeeps ==
  ASSUME PageInv, NEW c \in net, c.op # "read", NEW q \in PageStates,
         q.view = page[c.by].view, q.at = page[c.by].at, q.tab = page[c.by].tab, q.dialog = page[c.by].dialog,
         q.selected = page[c.by].selected, q.asked = page[c.by].asked, q.lost = page[c.by].lost,
         q.loading = page[c.by].loading \/ (Blocks(c) /\ q.at = "plan"),
         page' = [page EXCEPT ![c.by] = q], Drops(c)
  PROVE  PageInv'
<1> DEFINE u == c.by
           none == {}
           gone == {c}
<1>1. TypeInv /\ BlockInv /\ TalkInv /\ MemberInv /\ CatchInv
  BY DEF PageInv
<1>2. net' = (net \ gone) \union none /\ UNCHANGED <<scene, db, inbox, doubt>>
  BY DEF Drops, Same, History
<1>3. \A x : x \in gone <=> x = c
  OBVIOUS
<1>4. /\ u \in Users /\ Talks(page[u]) /\ Place(u, page[u].at)
      /\ Blocks(c) => \A x \in net \ {c} : x.by = u => ~Blocks(x)
  BY BlockedOne
<1>5. \A x \in none : FALSE
  OBVIOUS
<1> HIDE DEF none, gone
<1>6. Talks(q)
  BY <1>4 DEF Talks, Selected
<1>7. \A x \in net' : x.by = u /\ Blocks(x) => Blocked(x, q)
  BY <1>1, <1>2, <1>3, <1>4, <1>5 DEF BlockInv, Blocked
<1>8. \A x, y \in net' : x.by = u /\ y.by = u /\ Blocks(x) /\ Blocks(y) => x = y
  BY <1>1, <1>2, <1>5 DEF BlockInv
<1>9. Turns(u, q, gone, none)
  BY <1>2, <1>3, <1>4, <1>5, <1>6, <1>7, <1>8 DEF Turns
<1>10. Hushed(u, q)
  BY <1>1, <1>2 DEF Hushed, TypeInv, TalkInv, Rings
<1>11. StillMember(u, q, gone)
  BY <1>1, <1>3, <1>4 DEF MemberInv, AtHome, StillMember
<1>12. Reads(u) => Reads(u)'
  BY <1>2, <1>3 DEF Reads, IsRead
<1>13. StillCaught(u, q, gone)
  <2>1. \A x \in net \ gone : x.by = u /\ IsRead(x, "ok") /\ ~x.old /\ q.at \in Lists \union {"register"} =>
          x.view = View(x.at, db) \/ Reads(u)' \/ (x.at = "home" /\ Chosen(x.view))
    BY <1>1, <1>12 DEF CatchInv
  <2>2. \A x \in net : IsRead(x, "ok") => x \in net'
    BY <1>2, <1>3 DEF IsRead
  <2>3. u \notin doubt' /\ q.at \in Lists /\ ~q.loading /\ q.tab # "collaborations" =>
          q.view = View(q.at, db) \/ Reads(u)' \/ \E x \in net' : x.by = u /\ IsRead(x, "ok")
    BY <1>1, <1>2, <1>4, <1>12, <2>2 DEF CatchInv, Lists
  <2> QED BY <2>1, <2>3 DEF StillCaught
<1> HIDE DEF u
<1>14. u \in Users
  BY <1>4
<1> QED BY <1>9, <1>10, <1>11, <1>13, <1>14, TurnKeeps

LEMMA ReceiveKeeps ==
  ASSUME PageInv, NEW u \in Users, Receive(u)
  PROVE  PageInv'
<1> DEFINE p == page[u]
           none == {}
           b == Call(u, "read")
           cs == IF Listens(u, "joins") \/ Listens(u, "plans") THEN {b} ELSE {}
<1>1. TypeInv /\ BlockInv /\ TalkInv /\ MemberInv /\ CatchInv
  BY DEF PageInv
<1>2. u \in inbox /\ inbox' = inbox \ {u} /\ UNCHANGED <<scene, db, page, doubt>>
  BY DEF Receive, History
<1>3. net' = (net \ none) \union cs /\ net \ none = net
  BY DEF Receive, Sends
<1>4. p \in PageStates /\ Talks(p) /\ Place(u, p.at) /\ Rings(p)
  BY <1>1, <1>2 DEF TypeInv, TalkInv
<1>5. Sent(b, u, "read") /\ b.at = p.at /\ b.back = FALSE
  <2>1. \A op \in {"read", "join"} : op \in CallOps
    BY DEF CallOps
  <2>2. \A op \in {"read", "join"} : /\ Sent(Call(u, op), u, op) /\ Call(u, op).at = p.at
                                     /\ Call(u, op).back = FALSE
    BY <1>1, <2>1, CallType
  <2> QED BY <2>2
<1>6. \A x \in cs : x = b /\ (Listens(u, "joins") \/ Listens(u, "plans"))
  OBVIOUS
<1>7. Listens(u, "joins") \/ Listens(u, "plans") => b \in cs
  OBVIOUS
<1>8. \A x \in none : FALSE
  OBVIOUS
<1> HIDE DEF b, none, cs
<1>9. Listens(u, "joins") \/ Listens(u, "plans") => p.at \in Lists /\ Near(p.at, p.at)
  BY DEF Listens, Near, Lists
<1>10. \A x \in cs : IsCall(x) /\ x.by = u /\ x.phase = "sent" /\ x.view = NoView /\ FitsAt(x, p.at) /\ ~Blocks(x)
  BY <1>5, <1>6, <1>9 DEF Sent, FitsAt, Blocks, OnJoin, OnPlan
<1>11. (\A x \in net' : x.by = u /\ Blocks(x) => Blocked(x, p))
       /\ \A x, y \in net' : x.by = u /\ y.by = u /\ Blocks(x) /\ Blocks(y) => x = y
  BY <1>1, <1>3, <1>10 DEF BlockInv
<1>12. page' = [page EXCEPT ![u] = p]
  BY <1>1, <1>2 DEF TypeInv
<1>13. Turns(u, p, none, cs)
  BY <1>3, <1>4, <1>8, <1>10, <1>11, <1>12 DEF Turns
<1>14. Hushed(u, p)
  BY <1>1, <1>2 DEF Hushed, TypeInv
<1>15. StillMember(u, p, none)
  BY <1>1 DEF MemberInv, StillMember
<1>16. CASE Listens(u, "joins") \/ Listens(u, "plans")
  <2>1. Reads(u)'
    BY <1>3, <1>5, <1>7, <1>16 DEF Reads, IsRead, Sent
  <2>2. StillCaught(u, p, none)
    BY <2>1 DEF StillCaught
  <2> QED BY <1>13, <1>14, <1>15, <2>2, TurnKeeps
<1>17. CASE ~(Listens(u, "joins") \/ Listens(u, "plans"))
  <2>1. p.at \in {"home", "collaboration", "welcome"} /\ (p.at = "home" => p.tab = "collaborations" /\ Chosen(p.view))
    BY <1>4, <1>17 DEF Rings, Listens, Talks, HomeTab, Chosen
  <2>2. ASSUME NEW x \in net, x.by = u, IsRead(x, "ok"), ~x.old, p.at \in Lists \union {"register"}
        PROVE  x.at = "home" /\ Chosen(x.view)
    <3>1. p.at = "home"
      BY <2>1, <2>2 DEF Lists
    <3>2. x.at = "home"
      BY <1>1, <2>2, <3>1 DEF TalkInv, FitsCall, FitsAt, Near, IsRead, Lists
    <3> QED BY <1>1, <2>1, <2>2, <3>1, <3>2 DEF MemberInv, AtHome
  <2>3. StillCaught(u, p, none)
    BY <1>3, <2>1, <2>2 DEF StillCaught, Lists
  <2> QED BY <1>13, <1>14, <1>15, <2>3, TurnKeeps
<1> QED BY <1>16, <1>17

(* What a page makes of an answer that it hears.                           *)
Heard(p, c, q) ==
  /\ q \in PageStates /\ q.view = c.view /\ Talks(q)
  /\ q.at = p.at \/ (p.at \in {"register", "home"} /\ q.at \in {"home", "collaboration", "welcome"})
  /\ (q.at \in Lists => q.at = c.at) /\ (q.at = "plans" /\ q.loading => p.loading)
  /\ \A x : Blocks(x) /\ Blocked(x, p) => c.back \/ Blocked(x, q)
LEMMA HeardPage ==
  ASSUME PageInv, NEW c \in net, IsRead(c, "ok"),
         page[c.by].at = c.at \/ (c.at = "home" /\ page[c.by].at = "register"),
         NEW q, q = IF c.back \/ (page[c.by].at = "plans" /\ page[c.by].loading) THEN Mounted(page[c.by], c.view)
                    ELSE Refreshed(page[c.by], c.view)
  PROVE  Heard(page[c.by], c, q)
<1> DEFINE p == page[c.by]
<1>1. /\ IsCall(c) /\ p \in PageStates /\ Talks(p) /\ FitsAt(c, p.at) /\ (Blocks(c) => Blocked(c, p))
      /\ c.view \in Views /\ c.at \in Lists /\ p.selected \in Ids \union {0} /\ p.lost \in BOOLEAN
      /\ p.options \in SUBSET ({"all"} \union Statuses) /\ p.at \in Ats
  BY BlockedOne, CallFields, PageFields DEF IsRead, FitsAt, Near, PageInv
<1>2. CASE c.back \/ (p.at = "plans" /\ p.loading)
  <2>1. q = Mounted(p, c.view)
    BY <1>2
  <2>2. /\ q \in PageStates /\ q.at = p.at /\ q.view = c.view /\ q.loading = FALSE /\ q.dialog = p.dialog
        /\ q.tab = p.tab
    <3> DEFINE r == Mounted(p, c.view)
    <3>1. /\ r \in PageStates /\ r.at = p.at /\ r.view = c.view /\ r.loading = FALSE /\ r.dialog = p.dialog
          /\ r.tab = p.tab
      BY <1>1, MountedType
    <3> HIDE DEF p, r
    <3> QED BY <2>1, <3>1 DEF r
  <2>3. p.at = c.at /\ ((p.at = "joins" /\ p.dialog = "none") \/ p.at = "plans")
    BY <1>1, <1>2 DEF FitsAt, Blocks, Blocked, Near, OnPlan, IsRead, Lists
  <2>4. Talks(q)
    BY <1>1, <2>2, <2>3 DEF Talks
  <2>5. p.at = "plans" => \A x : ~Blocked(x, p)
    BY DEF Blocked
  <2> QED BY <1>2, <2>2, <2>3, <2>4, <2>5 DEF Heard
<1>3. CASE ~c.back /\ p.at \in {"register", "home"}
  <2>1. c.at = "home"
    BY <1>1, <1>3 DEF Lists
  <2>2. /\ q \in PageStates /\ q.view = c.view /\ q.loading = FALSE /\ q.at = HomeAt(c.view)
        /\ q.tab = HomeTab(c.view) /\ q.dialog \in {"none", p.dialog} /\ (p.dialog = "join" => q.dialog = "none")
        /\ q.at \in {"home", "collaboration", "welcome"}
    <3>1. CASE p.at = "register"
      <4> DEFINE blank == Blank("home")
      <4>1. q = Home(blank, c.view)
        BY <1>3, <3>1 DEF Refreshed
      <4>2. \A at \in {"home", "plan"} : Blank(at) \in PageStates /\ Blank(at).dialog = "none"
        <5>1. \A at \in {"home", "plan"} : at \in Ats
          BY DEF Ats, Lists
        <5> QED BY <5>1, BlankType
      <4>3. blank \in PageStates /\ blank.dialog = "none"
        BY <4>2
      <4> HIDE DEF blank, p
      <4> DEFINE r == Home(blank, c.view)
      <4>4. /\ r \in PageStates /\ r.at = HomeAt(c.view) /\ r.view = c.view /\ r.loading = FALSE
            /\ r.dialog = blank.dialog /\ r.tab = HomeTab(c.view)
            /\ HomeAt(c.view) \in {"home", "collaboration", "welcome"}
        BY <1>1, <4>3, HomeType
      <4> HIDE DEF r
      <4> QED BY <4>1, <4>3, <4>4 DEF r
    <3>2. CASE p.at = "home"
      <4> DEFINE options == Options(p.view)
      <4>1. q = [Home(p, c.view) EXCEPT !.options = options]
        BY <1>3, <3>2 DEF Refreshed
      <4>2. options \in SUBSET ({"all"} \union Statuses)
        <5>1. p.view.joins \in [Ids -> Asks] /\ p.view.plans \in [Plans -> Bids]
          BY <1>1 DEF PageStates, Views
        <5> QED BY <5>1 DEF Options, Asks, Bids
      <4> HIDE DEF options
      <4>3. p.dialog # "join"
        BY <1>1, <3>2 DEF Talks
      <4> HIDE DEF p
      <4> DEFINE home == Home(p, c.view)
                 r == [home EXCEPT !.options = options]
      <4>4. /\ home \in PageStates /\ home.at = HomeAt(c.view) /\ home.view = c.view /\ home.loading = FALSE
            /\ home.dialog = p.dialog /\ home.tab = HomeTab(c.view)
            /\ HomeAt(c.view) \in {"home", "collaboration", "welcome"}
        BY <1>1, HomeType
      <4> HIDE DEF home
      <4>5. /\ r \in PageStates /\ r.at = home.at /\ r.view = home.view /\ r.loading = home.loading
            /\ r.dialog = home.dialog /\ r.tab = home.tab
        BY <4>2, <4>4 DEF PageStates
      <4> HIDE DEF r
      <4> QED BY <4>1, <4>3, <4>4, <4>5 DEF r, home
    <3> QED BY <1>3, <3>1, <3>2
  <2>3. Talks(q)
    BY <2>2 DEF Talks
  <2>4. \A x : ~Blocked(x, p)
    BY <1>3 DEF Blocked
  <2> QED BY <1>3, <2>1, <2>2, <2>3, <2>4 DEF Heard, Lists
<1>4. CASE ~c.back /\ p.at \notin {"register", "home"} /\ ~(p.at = "plans" /\ p.loading)
  <2> DEFINE view == c.view
             lost == p.lost \/ (p.dialog # "none" /\ Selected(p) /\ view.joins[p.selected].status \notin Live)
             r == [p EXCEPT !.view = view, !.lost = lost]
  <2>1. q = r
    BY <1>4 DEF Refreshed
  <2>2. lost \in BOOLEAN /\ view \in Views
    BY <1>1
  <2>3. /\ r \in PageStates /\ r.at = p.at /\ r.view = view /\ r.loading = p.loading /\ r.dialog = p.dialog
        /\ r.tab = p.tab /\ r.selected = p.selected /\ r.asked = p.asked /\ (r.lost <=> lost)
    <3> HIDE DEF lost, view
    <3> QED BY <1>1, <2>2 DEF PageStates
  <2>4. lost <=> p.lost \/ (p.dialog # "none" /\ Selected(p) /\ r.view.joins[p.selected].status \notin Live)
    BY <2>3
  <2>5. p.at = c.at
    BY <1>4
  <2>6. r.view = c.view
    BY <2>3
  <2> HIDE DEF r, lost, view
  <2>7. Talks(r)
    BY <1>1, <1>4, <2>3, <2>4 DEF Talks, Selected
  <2>8. \A x : Blocked(x, p) => Blocked(x, r)
    BY <2>3 DEF Blocked
  <2> QED BY <2>1, <2>3, <2>5, <2>6, <2>7, <2>8 DEF Heard
<1> QED BY <1>2, <1>3, <1>4

LEMMA HearReadKeeps ==
  ASSUME PageInv, NEW c \in net, HearRead(c)
  PROVE  PageInv'
<1> DEFINE u == c.by
           p == page[u]
           none == {}
           gone == {c}
<1>1. TypeInv /\ BlockInv /\ TalkInv /\ MemberInv /\ CatchInv
  BY DEF PageInv
<1>2. IsRead(c, "ok") /\ UNCHANGED <<scene, db, inbox>> /\ net' = net \ {c}
  BY DEF HearRead, Hears, IsRead
<1>3. net' = (net \ gone) \union none /\ (\A x : x \in gone <=> x = c) /\ \A x \in none : FALSE
  BY <1>2
<1>4. /\ u \in Users /\ p \in PageStates /\ Talks(p) /\ Place(u, p.at) /\ FitsAt(c, p.at) /\ IsCall(c)
      /\ Blocks(c) => Blocked(c, p) /\ \A x \in net \ {c} : x.by = u => ~Blocks(x)
  BY BlockedOne
<1> HIDE DEF none, gone
<1>5. Reads(u) => Reads(u)'
  BY <1>2 DEF Reads, IsRead
<1>6. \A x, y \in net' : x.by = u /\ y.by = u /\ Blocks(x) /\ Blocks(y) => x = y
  BY <1>1, <1>2 DEF BlockInv
<1>7. CASE p.at = c.at \/ (c.at = "home" /\ p.at = "register")
  <2> DEFINE r == IF c.back \/ (p.at = "plans" /\ p.loading) THEN Mounted(p, c.view) ELSE Refreshed(p, c.view)
             n == p.n
             q == [r EXCEPT !.n = n]
  <2>1. page' = [page EXCEPT ![u] = q] /\ doubt' = IF c.old THEN doubt \union {u} ELSE doubt \ {u}
    BY <1>7 DEF HearRead
  <2>2. Heard(p, c, r)
    BY <1>2, <1>7, HeardPage
  <2>3. n \in Nat
    BY <1>1, <1>4, PageFields
  <2> HIDE DEF r, n
  <2>4. /\ q \in PageStates /\ q.view = r.view /\ q.at = r.at /\ q.tab = r.tab /\ q.dialog = r.dialog
        /\ q.loading = r.loading /\ q.selected = r.selected /\ q.asked = r.asked /\ q.lost = r.lost
    BY <2>2, <2>3 DEF Heard, PageStates
  <2> HIDE DEF q
  <2>5. Heard(p, c, q)
    BY <2>2, <2>4 DEF Heard, Talks, Selected, Blocked
  <2> HIDE DEF p
  <2>6. Place(u, q.at) /\ \A to : Near(to, p.at) => Near(to, q.at)
    BY <1>4, <2>5 DEF Heard, Place, Near
  <2>7. \A x \in net' : x.by = u /\ Blocks(x) => Blocked(x, q)
    <3>1. c.back => Blocks(c)
      BY DEF Blocks
    <3> QED BY <1>1, <1>2, <1>4, <2>5, <3>1 DEF BlockInv, Heard, p
  <2>8. Turns(u, q, gone, none)
    <3>1. \A x \in net : x \in gone => x.by = u
      BY <1>3
    <3>2. \A to : Near(to, page[u].at) => Near(to, q.at)
      BY <2>6 DEF p
    <3>3. q \in PageStates /\ Talks(q)
      BY <2>5 DEF Heard
    <3> QED BY <1>3, <1>6, <2>1, <2>6, <2>7, <3>1, <3>2, <3>3 DEF Turns
  <2>9. Hushed(u, q)
    <3>1. u \in inbox' => Rings(q)
      BY <1>1, <1>2, <2>5 DEF TalkInv, Rings, Heard, p
    <3>2. doubt' \in SUBSET Users /\ \A v \in doubt : v # u => v \in doubt'
      BY <1>1, <1>4, <2>1 DEF TypeInv
    <3> QED BY <1>2, <3>1, <3>2 DEF Hushed
  <2>10. StillMember(u, q, gone)
    BY <1>1, <1>2, <1>3, <2>5 DEF MemberInv, Heard, StillMember
  <2>11. StillCaught(u, q, gone)
    <3>1. q.at \in Lists \union {"register"} => p.at \in Lists \union {"register"}
      BY <2>5 DEF Heard, Lists
    <3>2. \A x \in net \ gone : x.by = u /\ IsRead(x, "ok") /\ ~x.old /\ q.at \in Lists \union {"register"} =>
            x.view = View(x.at, db) \/ Reads(u)' \/ (x.at = "home" /\ Chosen(x.view))
      BY <1>1, <1>5, <3>1 DEF CatchInv, p
    <3>3. ASSUME u \notin doubt', q.at \in Lists, ~q.loading, q.tab # "collaborations"
          PROVE  q.view = View(q.at, db) \/ Reads(u)'
      <4>1. ~c.old
        BY <2>1, <3>3
      <4>2. c.view = View(c.at, db) \/ Reads(u) \/ (c.at = "home" /\ Chosen(c.view))
        BY <1>1, <1>2, <3>1, <3>3, <4>1 DEF CatchInv, p
      <4>3. q.at = c.at /\ q.view = c.view /\ ~(c.at = "home" /\ Chosen(c.view))
        BY <2>5, <3>3 DEF Heard, Talks, HomeTab, Chosen
      <4> QED BY <1>5, <4>2, <4>3
    <3> QED BY <3>2, <3>3 DEF StillCaught
  <2> HIDE DEF u
  <2>12. u \in Users
    BY <1>4
  <2> QED BY <2>8, <2>9, <2>10, <2>11, <2>12, TurnKeeps
<1>8. CASE ~(p.at = c.at \/ (c.at = "home" /\ p.at = "register"))
  <2>1. UNCHANGED <<page, doubt>>
    BY <1>8 DEF HearRead
  <2>2. p.at \notin Lists /\ ~c.back
    BY <1>2, <1>4, <1>8 DEF FitsAt, Near, IsRead, Lists, Blocks, Blocked, OnPlan
  <2>3. page' = [page EXCEPT ![u] = p]
    BY <1>1, <2>1 DEF TypeInv
  <2>4. \A x \in net' : x.by = u /\ Blocks(x) => Blocked(x, p)
    BY <1>1, <1>2 DEF BlockInv
  <2>5. Turns(u, p, gone, none)
    BY <1>3, <1>4, <1>6, <2>3, <2>4 DEF Turns
  <2>6. Hushed(u, p)
    BY <1>1, <1>2, <2>1 DEF Hushed, TypeInv, TalkInv
  <2>7. StillMember(u, p, gone)
    BY <1>1, <1>4 DEF MemberInv, StillMember
  <2>8. StillCaught(u, p, gone)
    BY <1>1, <1>5, <2>2 DEF CatchInv, StillCaught
  <2> HIDE DEF u, p
  <2>9. u \in Users
    BY <1>4
  <2> QED BY <2>5, <2>6, <2>7, <2>8, <2>9, TurnKeeps
<1> QED BY <1>7, <1>8

LEMMA HearAnswerKeeps ==
  ASSUME PageInv, NEW c \in net, HearUnhandled(c) \/ HearPlan(c) \/ HearExists(c) \/ HearJoined(c)
  PROVE  PageInv'
<1> DEFINE p == page[c.by]
<1>1. /\ IsCall(c) /\ c.by \in Users /\ p \in PageStates /\ p.form \in Forms /\ page \in [Users -> PageStates]
      /\ c.name \in Names /\ c.status \in Statuses /\ c.exists \in BOOLEAN
      /\ Blocks(c) => Blocked(c, p)
  BY BlockedOne, CallFields, PageFields DEF PageInv, TypeInv
<1>2. c.op # "read" /\ Drops(c)
  BY DEF HearUnhandled, HearPlan, HearExists, HearJoined, Hears, Shown
<1>3. CASE UNCHANGED page
  <2>1. page' = [page EXCEPT ![c.by] = p]
    BY <1>1, <1>3
  <2> QED BY <1>1, <1>2, <2>1, DropsKeeps
<1>4. CASE HearPlan(c)
  <2> DEFINE name == c.name
             status == c.status
             form == [p.form EXCEPT !.name = name, !.status = status]
             q == [p EXCEPT !.loading = FALSE, !.form = form]
  <2>1. [p EXCEPT !.loading = FALSE, !.form.name = name, !.form.status = status] = q
    BY <1>1 DEF PageStates, Forms
  <2>2. page' = [page EXCEPT ![c.by] = q]
    <3> HIDE DEF q
    <3> QED BY <1>4, <2>1 DEF HearPlan, Shown
  <2>3. form \in Forms
    <3> HIDE DEF name, status
    <3> QED BY <1>1 DEF Forms, name, status
  <2>4. /\ q \in PageStates /\ q.view = p.view /\ q.at = p.at /\ q.tab = p.tab /\ q.dialog = p.dialog
        /\ q.selected = p.selected /\ q.asked = p.asked /\ q.lost = p.lost
    <3> HIDE DEF form
    <3> QED BY <1>1, <2>3 DEF PageStates
  <2>5. Blocks(c) /\ p.at = "plan"
    BY <1>1, <1>4 DEF HearPlan, Hears, Blocks, Blocked
  <2> HIDE DEF q
  <2> QED BY <1>2, <2>2, <2>4, <2>5, DropsKeeps
<1>5. CASE HearExists(c) /\ ~UNCHANGED page
  <2> DEFINE exists == c.exists
             form == [p.form EXCEPT !.exists = exists]
             q == [p EXCEPT !.form = form]
  <2>1. [p EXCEPT !.form.exists = exists] = q
    BY <1>1 DEF PageStates, Forms
  <2>2. page' = [page EXCEPT ![c.by] = q]
    <3> HIDE DEF q
    <3> QED BY <1>5, <2>1 DEF HearExists, Shown
  <2>3. form \in Forms
    <3> HIDE DEF exists
    <3> QED BY <1>1 DEF Forms, exists
  <2>4. /\ q \in PageStates /\ q.view = p.view /\ q.at = p.at /\ q.tab = p.tab /\ q.dialog = p.dialog
        /\ q.selected = p.selected /\ q.asked = p.asked /\ q.lost = p.lost /\ q.loading = p.loading
    <3> HIDE DEF form
    <3> QED BY <1>1, <2>3 DEF PageStates
  <2> HIDE DEF q
  <2> QED BY <1>2, <2>2, <2>4, DropsKeeps
<1>6. CASE HearJoined(c)
  <2> DEFINE submitted == (p.at = "register")
             q == [p EXCEPT !.submitted = submitted]
  <2>1. page' = [page EXCEPT ![c.by] = q]
    BY <1>6 DEF HearJoined, Shown
  <2>2. submitted \in BOOLEAN
    OBVIOUS
  <2>3. /\ q \in PageStates /\ q.view = p.view /\ q.at = p.at /\ q.tab = p.tab /\ q.dialog = p.dialog
        /\ q.selected = p.selected /\ q.asked = p.asked /\ q.lost = p.lost /\ q.loading = p.loading
    <3> HIDE DEF submitted
    <3> QED BY <1>1, <2>2 DEF PageStates
  <2> HIDE DEF q
  <2> QED BY <1>2, <2>1, <2>3, DropsKeeps
<1> QED BY <1>3, <1>4, <1>5, <1>6 DEF HearUnhandled

(* The answer a page waits for leads elsewhere, or to another reading.     *)
Leads(c, q, cs) ==
  /\ Blocks(c) /\ c.op # "read" /\ q \in PageStates /\ page' = [page EXCEPT ![c.by] = q]
  /\ net' = (net \ {c}) \union cs /\ UNCHANGED <<scene, db, inbox, doubt>>
  /\ Place(c.by, q.at) /\ Talks(q) /\ (q.view = page[c.by].view \/ q.view = NoView)
  /\ (\A to : Near(to, page[c.by].at) => Near(to, q.at)) /\ (Rings(page[c.by]) => Rings(q))
  /\ (q.loading \/ q.at \notin Lists) /\ \A x, y \in cs : x = y
  /\ \A x \in cs : /\ IsCall(x) /\ x.by = c.by /\ IsRead(x, "sent") /\ x.view = NoView /\ FitsAt(x, q.at)
                   /\ Blocks(x) => Blocked(x, q)
  /\ q.at \in Lists \union {"register"} => cs # {}
LEMMA LeadsKeeps ==
  ASSUME PageInv, NEW c \in net, NEW q, NEW cs, Leads(c, q, cs)
  PROVE  PageInv'
<1> DEFINE u == c.by
           gone == {c}
<1>1. TypeInv /\ BlockInv /\ TalkInv /\ MemberInv /\ CatchInv
  BY DEF PageInv
<1>2. /\ net' = (net \ gone) \union cs /\ page' = [page EXCEPT ![u] = q] /\ q \in PageStates
      /\ UNCHANGED <<scene, db, inbox, doubt>> /\ Place(u, q.at) /\ Talks(q)
      /\ (\A to : Near(to, page[u].at) => Near(to, q.at))
  BY DEF Leads
<1>3. \A x : x \in gone <=> x = c
  OBVIOUS
<1>4. u \in Users /\ \A x \in net \ {c} : x.by = u => ~Blocks(x)
  BY BlockedOne DEF Leads
<1> HIDE DEF gone
<1>5. \A x \in cs : IsCall(x) /\ x.by = u /\ x.phase = "sent" /\ x.view = NoView /\ FitsAt(x, q.at)
  BY DEF Leads, IsRead
<1>6. \A x \in net' : x.by = u /\ Blocks(x) => x \in cs /\ Blocked(x, q)
  BY <1>2, <1>3, <1>4 DEF Leads
<1>7. \A x, y \in net' : x.by = u /\ y.by = u /\ Blocks(x) /\ Blocks(y) => x = y
  BY <1>6 DEF Leads
<1>8. Turns(u, q, gone, cs)
  BY <1>2, <1>3, <1>5, <1>6, <1>7 DEF Turns
<1>9. Hushed(u, q)
  BY <1>1, <1>2 DEF Hushed, TypeInv, TalkInv, Leads
<1>10. StillMember(u, q, gone)
  <2>1. ~Chosen(NoView)
    BY DEF NoView, Chosen
  <2>2. page[u].at \in {"joins", "plan"}
    BY BlockedOne DEF Leads, Blocked
  <2>3. \A x \in net : x.by = u /\ IsRead(x, "ok") => x.at # "home"
    BY <1>1, <2>2 DEF TalkInv, FitsCall, FitsAt, Near, IsRead
  <2> QED BY <1>1, <1>4, <2>1, <2>3 DEF MemberInv, StillMember, Leads
<1>11. q.at \in Lists \union {"register"} => Reads(u)'
  <2>1. ASSUME q.at \in Lists \union {"register"} PROVE \E x \in cs : TRUE
    BY <2>1 DEF Leads
  <2> QED BY <1>2, <1>5, <2>1 DEF Leads, Reads, IsRead
<1>12. StillCaught(u, q, gone)
  BY <1>11 DEF StillCaught
<1> HIDE DEF u
<1> QED BY <1>4, <1>8, <1>9, <1>10, <1>12, TurnKeeps

LEMMA HearLeadsKeeps ==
  ASSUME PageInv, NEW c \in net, HearDecision(c) \/ HearDecided(c) \/ HearNoPlan(c)
  PROVE  PageInv'
<1> DEFINE u == c.by
           p == page[u]
           b == Call(u, "read")
<1>1. TypeInv /\ TalkInv
  BY DEF PageInv
<1>2. /\ IsCall(c) /\ u \in Users /\ p \in PageStates /\ p.n \in Nat /\ Talks(p) /\ Place(u, p.at)
      /\ Blocks(c) => Blocked(c, p)
  BY <1>1, BlockedOne, PageFields
<1>3. Sent(b, u, "read") /\ b.at = p.at /\ b.back = FALSE
  <2>1. \A op \in {"read", "join"} : op \in CallOps
    BY DEF CallOps
  <2>2. \A op \in {"read", "join"} : /\ Sent(Call(u, op), u, op) /\ Call(u, op).at = p.at
                                     /\ Call(u, op).back = FALSE
    BY <1>1, <1>2, <2>1, CallType
  <2> QED BY <2>2
<1>4. "p1" \in Plans /\ (\A at \in {"plans", "away", "plan"} : at \in Ats) /\ p.at \in Ats
  BY <1>1, <1>2, PageFields DEF Plans, Ats, Lists
<1>5. CASE HearDecision(c)
  <2> DEFINE d == [b EXCEPT !.back = TRUE]
             cs == {d}
  <2>1. net' = (net \ {c}) \union cs /\ UNCHANGED <<scene, db, inbox, doubt, page>>
    BY <1>5 DEF HearDecision, Same, History
  <2>2. c.op \in OnJoin /\ c.op # "read" /\ Blocks(c) /\ p.at = "joins" /\ p.loading /\ p.dialog = "none"
    BY <1>2, <1>5 DEF HearDecision, Hears, OnJoin, OnPlan, Blocks, Blocked
  <2>3. SentAs(d, u, "read", b.at, TRUE, b.request, b.asked, b.lost)
    <3> HIDE DEF b
    <3>1. \A op \in {"read", "join"} :
            Sent(b, u, op) => SentAs([b EXCEPT !.back = TRUE], u, op, b.at, TRUE, b.request, b.asked, b.lost)
      BY <1>4, SentAt, Zenon
    <3> QED BY <1>3, <3>1, Zenon
  <2>4. \A x \in cs : x = d
    OBVIOUS
  <2>5. d \in cs
    OBVIOUS
  <2> HIDE DEF b, d, cs
  <2>6. IsCall(d) /\ d.by = u /\ d.op = "read" /\ d.phase = "sent" /\ d.view = NoView /\ d.at = "joins" /\ d.back = TRUE
    BY <1>3, <2>2, <2>3 DEF SentAs, Sent
  <2>7. FitsAt(d, "joins")
    BY <2>6 DEF FitsAt, Near, Lists, OnJoin, OnPlan
  <2>8. Blocked(d, p)
    BY <2>2, <2>6 DEF Blocked, OnPlan
  <2>9. page' = [page EXCEPT ![u] = p]
    BY <1>1, <2>1 DEF TypeInv
  <2>10. Leads(c, p, cs)
    BY <1>2, <2>1, <2>2, <2>4, <2>5, <2>6, <2>7, <2>8, <2>9 DEF Leads, IsRead
  <2> QED BY <2>10, LeadsKeeps
<1>6. CASE HearDecided(c)
  <2> DEFINE d == [b EXCEPT !.at = "plans"]
             cs == {d}
             blank == Blank("plans")
             n == p.n
             q == [blank EXCEPT !.n = n]
  <2>1. net' = (net \ {c}) \union cs /\ UNCHANGED <<scene, db, inbox, doubt>> /\ page' = [page EXCEPT ![u] = q]
    BY <1>6 DEF HearDecided, Same, History
  <2>2. c.op # "read" /\ Blocks(c) /\ p.at = "plan"
    BY <1>2, <1>6 DEF HearDecided, Hears, OnJoin, OnPlan, Blocks, Blocked
  <2>3. SentAs(d, u, "read", "plans", b.back, b.request, b.asked, b.lost)
    <3> HIDE DEF b
    <3>1. \A at \in {"plans", "away"}, op \in {"read", "join"} :
            Sent(b, u, op) => SentAs([b EXCEPT !.at = at], u, op, at, b.back, b.request, b.asked, b.lost)
      BY <1>4, SentAt, Zenon
    <3> QED BY <1>3, <3>1, Zenon
  <2>4. \A x \in cs : x = d
    OBVIOUS
  <2>5. d \in cs
    OBVIOUS
  <2>6. /\ blank \in PageStates /\ blank.at = "plans" /\ blank.view = NoView /\ blank.loading = TRUE
        /\ blank.dialog = "none"
    <3>1. \A at \in {"plans", "away"} : /\ Blank(at) \in PageStates /\ Blank(at).at = at /\ Blank(at).view = NoView
                                       /\ Blank(at).loading = TRUE /\ Blank(at).dialog = "none"
      BY <1>4, BlankType
    <3> QED BY <3>1
  <2> HIDE DEF b, d, cs, blank
  <2>7. IsCall(d) /\ d.by = u /\ d.op = "read" /\ d.phase = "sent" /\ d.view = NoView /\ d.at = "plans" /\ d.back = FALSE
    BY <1>3, <2>3 DEF SentAs, Sent
  <2>8. FitsAt(d, "plans") /\ ~Blocks(d)
    BY <2>7 DEF FitsAt, Near, Lists, OnJoin, OnPlan, Blocks
  <2>9. q \in PageStates /\ q.at = "plans" /\ q.view = NoView /\ q.loading = TRUE /\ q.dialog = "none"
    <3>1. n \in Nat
      BY <1>2
    <3> HIDE DEF n
    <3> QED BY <2>6, <3>1 DEF PageStates
  <2> HIDE DEF q
  <2>10. Talks(q) /\ Place(u, q.at) /\ ~Rings(p) /\ \A to : Near(to, p.at) => Near(to, q.at)
    BY <1>2, <2>2, <2>9 DEF Talks, Place, Rings, Near, Lists
  <2>11. Leads(c, q, cs)
    BY <2>1, <2>2, <2>4, <2>5, <2>7, <2>8, <2>9, <2>10 DEF Leads, IsRead
  <2> QED BY <2>11, LeadsKeeps
<1>7. CASE HearNoPlan(c)
  <2> DEFINE none == {}
             q == Blank("away")
  <2>1. net' = (net \ {c}) \union none /\ UNCHANGED <<scene, db, inbox, doubt>> /\ page' = [page EXCEPT ![u] = q]
    BY <1>7 DEF HearNoPlan, Shown, Drops, Same, History
  <2>2. c.op # "read" /\ Blocks(c) /\ p.at = "plan"
    BY <1>2, <1>7 DEF HearNoPlan, Hears, Blocks, Blocked
  <2>3. q \in PageStates /\ q.at = "away" /\ q.view = NoView /\ q.loading = TRUE /\ q.dialog = "none"
    <3>1. \A at \in {"plans", "away"} : /\ Blank(at) \in PageStates /\ Blank(at).at = at /\ Blank(at).view = NoView
                                       /\ Blank(at).loading = TRUE /\ Blank(at).dialog = "none"
      BY <1>4, BlankType
    <3> QED BY <3>1
  <2>4. \A x \in none : FALSE
    OBVIOUS
  <2> HIDE DEF none, q
  <2>5. Talks(q) /\ Place(u, q.at) /\ ~Rings(p) /\ \A to : Near(to, p.at) => Near(to, q.at)
    BY <1>2, <2>2, <2>3 DEF Talks, Place, Rings, Near, Lists
  <2>6. q.at \notin Lists \union {"register"}
    BY <2>3 DEF Lists
  <2>7. Leads(c, q, none)
    BY <2>1, <2>2, <2>3, <2>4, <2>5, <2>6 DEF Leads
  <2> QED BY <2>7, LeadsKeeps
<1> QED BY <1>5, <1>6, <1>7

-------------------------------------------------------------------------------
(* Every behaviour.                                                        *)
LEMMA OpenedType ==
  ASSUME NEW at \in Lists \union {"register", "away"}, NEW d \in Databases, NEW q, q = Opened(at, d)
  PROVE  /\ q \in PageStates /\ Talks(q) /\ (~Chosen(q.view) \/ Chooses(d))
         /\ q.at = at \/ (at = "home" /\ q.at \in {"home", "collaboration", "welcome"})
         /\ q.view = View(at, d)
<1> DEFINE view == View(at, d)
           blank == Blank(at)
<1>1. view \in Views /\ (Chosen(view) => Chooses(d))
  BY ViewType DEF View, Chosen, Chooses
<1>2. at \in Ats
  BY DEF Ats
<1>3. blank \in PageStates /\ blank.at = at /\ blank.dialog = "none" /\ blank.tab = "none"
  BY <1>2, BlankType
<1> HIDE DEF view, blank
<1>4. CASE at = "home"
  <2> DEFINE r == Home(blank, view)
  <2>1. /\ r \in PageStates /\ r.at = HomeAt(view) /\ r.view = view /\ r.dialog = blank.dialog /\ r.tab = HomeTab(view)
        /\ HomeAt(view) \in {"home", "collaboration", "welcome"}
    BY <1>1, <1>3, HomeType
  <2>2. q = r
    BY <1>4 DEF Opened, blank, view
  <2> HIDE DEF r
  <2>3. Talks(q)
    BY <1>3, <2>1, <2>2 DEF Talks
  <2> QED BY <1>1, <1>4, <2>1, <2>2, <2>3 DEF view
<1>5. CASE at # "home"
  <2> DEFINE r == Mounted(blank, view)
  <2>1. r \in PageStates /\ r.at = at /\ r.view = view /\ r.dialog = "none"
    <3>1. r \in PageStates /\ r.at = blank.at /\ r.view = view /\ r.dialog = blank.dialog
      BY <1>1, <1>3, MountedType
    <3> HIDE DEF r
    <3> QED BY <1>3, <3>1
  <2>2. q = r
    BY <1>5 DEF Opened, blank, view
  <2> HIDE DEF r
  <2>3. Talks(q)
    BY <1>5, <2>1, <2>2 DEF Talks
  <2> QED BY <1>1, <2>1, <2>2, <2>3 DEF view
<1> QED BY <1>4, <1>5

LEMMA PageInit == Init => PageInv
<1> SUFFICES ASSUME Init PROVE PageInv
  OBVIOUS
<1> DEFINE d == [joins |-> scene.joins, plans |-> scene.plans, members |-> {}, made |-> {}]
<1>1. /\ scene \in Scenes /\ db = d /\ net = {} /\ inbox = {} /\ doubt = {}
      /\ page = [u \in Users |-> Opened(scene.at[u], db)]
  BY DEF Init
<1>2. /\ scene.joins \in [Ids -> Asks] /\ scene.plans \in [Plans -> Bids]
      /\ scene.at \in [Users -> Lists \union {"register", "away"}]
  BY <1>1, SceneAssumption
<1>3. d \in Databases
  BY <1>2 DEF Databases
<1>4. ~Chooses(db)
  BY <1>1 DEF Chooses
<1> HIDE DEF d
<1>5. db \in Databases
  BY <1>1, <1>3
<1>6. \A u \in Users : LET q == page[u]
                           at == scene.at[u] IN
        /\ q \in PageStates /\ Talks(q) /\ ~Chosen(q.view) /\ q.view = View(at, db)
        /\ q.at = at \/ (at = "home" /\ q.at \in {"home", "collaboration", "welcome"})
  <2> TAKE u \in Users
  <2>1. page[u] = Opened(scene.at[u], db) /\ scene.at[u] \in Lists \union {"register", "away"}
    BY <1>1, <1>2
  <2> QED BY <1>4, <1>5, <2>1, OpenedType
<1>7. TypeInv
  <2>1. page \in [Users -> PageStates]
    BY <1>1, <1>6
  <2> QED BY <1>1, <1>5, <2>1 DEF TypeInv, AllCalls
<1>8. BlockInv
  BY <1>1 DEF BlockInv
<1>9. TalkInv
  <2>1. \A u \in Users : Place(u, page[u].at)
    <3> TAKE u \in Users
    <3>1. (u \in Reviewers => scene.at[u] \in {"joins", "plans", "away"})
          /\ (u = "guest" => scene.at[u] \in {"home", "register", "away"})
      BY <1>1, PlaceAssumption
    <3>2. page[u].at = scene.at[u] \/ (scene.at[u] = "home" /\ page[u].at \in {"home", "collaboration", "welcome"})
      BY <1>6
    <3> QED BY <3>1, <3>2 DEF Users, Reviewers, Place
  <2> QED BY <1>1, <1>6, <2>1 DEF TalkInv
<1>10. MemberInv
  BY <1>1, <1>6 DEF MemberInv
<1>11. CatchInv
  <2>1. \A u \in Users : page[u].at \in Lists => page[u].view = View(page[u].at, db)
    BY <1>6 DEF Lists
  <2> QED BY <1>1, <2>1 DEF CatchInv
<1> QED BY <1>7, <1>8, <1>9, <1>10, <1>11 DEF PageInv

LEMMA PageStep == PageInv /\ [Next]_vars => PageInv'
<1> SUFFICES ASSUME PageInv, [Next]_vars PROVE PageInv'
  OBVIOUS
<1>1. TypeInv /\ TalkInv
  BY DEF PageInv
<1>2. CASE Person
  <2>1. PICK u \in Users :
          \/ OpenJoinRequest(u) \/ CancelSideScreen(u) \/ Filter(u) \/ AcceptJoinRequest(u)
          \/ AskDecline(u) \/ AskDelete(u) \/ GiveReason(u) \/ CancelDialog(u) \/ ConfirmDialog(u)
          \/ OpenCollaborationRequest(u) \/ UpdateName(u) \/ Approve(u) \/ AskDeny(u)
          \/ AskDeleteRequest(u) \/ ConfirmRequest(u)
          \/ JoinRequestAction(u) \/ SubmitJoin(u) \/ GotoHome(u)
    BY <1>2 DEF Person
  <2>2. CASE OpenCollaborationRequest(u)
    BY <1>1, <2>2, OpenActs, OpensKeeps
  <2>3. CASE ~OpenCollaborationRequest(u)
    <3>1. \E q, cs : Acts(u, q, cs)
      BY <1>1, <2>1, <2>3, PersonActs
    <3> QED BY <3>1, ActsKeeps
  <2> QED BY <2>2, <2>3
<1>3. CASE Server
  BY <1>3, ServerKeeps DEF Server
<1>4. CASE Browser
  <2>1. CASE \E u \in Users : Receive(u)
    BY <2>1, ReceiveKeeps
  <2>2. CASE \E c \in net : HearRead(c)
    BY <2>2, HearReadKeeps
  <2>3. CASE \E c \in net : HearDecision(c) \/ HearDecided(c) \/ HearNoPlan(c)
    BY <2>3, HearLeadsKeeps
  <2>4. CASE \E c \in net : HearUnhandled(c) \/ HearPlan(c) \/ HearExists(c) \/ HearJoined(c)
    BY <2>4, HearAnswerKeeps
  <2> QED BY <1>4, <2>1, <2>2, <2>3, <2>4 DEF Browser
<1>5. CASE UNCHANGED vars
  BY <1>5 DEF vars, PageInv, TypeInv, AllCalls, BlockInv, Blocks, Blocked, TalkInv, FitsCall, FitsAt, Place,
              Talks, Rings, MemberInv, AtHome, CatchInv, Reads, IsRead, Selected
<1> QED BY <1>2, <1>3, <1>4, <1>5 DEF Next

(* A page that is told of things waits for one answer at a time; what it   *)
(* shows, and the answers on their way, are of the database, or it is to be*)
(* told, or has asked again.                                               *)
THEOREM PagesAreTold == Spec => []PageInv
<1> QED BY PageInit, PageStep, PTL DEF Spec

(* Once nothing is on its way, the lists are those of the database.        *)
THEOREM CaughtUp == Spec => []PagesCatchUp
<1>1. PageInv => PagesCatchUp
  BY DEF PageInv, CatchInv, PagesCatchUp, Resting, Reads
<1> QED BY <1>1, PagesAreTold, PTL

(* A dialog is about the request it was opened for.                        *)
THEOREM AskedIsDone == Spec => []ActsOnWhatWasAsked
<1>1. PageInv => ActsOnWhatWasAsked
  BY DEF PageInv, TalkInv, FitsCall, FitsAt, OnJoin, ActsOnWhatWasAsked
<1> QED BY <1>1, PagesAreTold, PTL

-------------------------------------------------------------------------------
(* What becomes of the requests.                                           *)
Stays == UNCHANGED <<db, stray, overlaps>> /\ Joining' = Joining /\ Approving' = Approving
LEMMA StaysWork ==
  ASSUME WorkInv, Stays
  PROVE  WorkInv'
<1>1. UNCHANGED <<db, stray, overlaps>> /\ Joining' = Joining /\ Approving' = Approving
  BY DEF Stays
<1>2. (\A r : LiveOf(r)' = LiveOf(r)) /\ \A p : MadeOf(p)' = MadeOf(p)
  BY <1>1 DEF LiveOf, MadeOf
<1>3. JoinInv'
  BY <1>1, <1>2 DEF WorkInv, JoinInv
<1>4. DecidedInv'
  BY <1>1 DEF WorkInv, DecidedInv
<1>5. PlanInv'
  BY <1>1, <1>2 DEF WorkInv, PlanInv
<1> QED BY <1>3, <1>4, <1>5 DEF WorkInv

LEMMA OlderSame ==
  ASSUME NEW x, IsCall(x), NEW told, ~IsRead(x, "ok")
  PROVE  Older1(x, told) = x
<1> DEFINE old == x.old \/ (IsRead(x, "ok") /\ x.by \notin told)
<1>1. old = x.old
  BY CallFields
<1>2. Older1(x, told) = [x EXCEPT !.old = old]
  BY DEF Older1
<1> HIDE DEF old
<1>3. [x EXCEPT !.old = x.old] = x
  BY DEF IsCall, CallOf
<1> QED BY <1>1, <1>2, <1>3

Outdates(c, d, told) == net' = {Older1(x, told) : x \in net \ {c}} \union {d}
LEMMA OlderDoing ==
  ASSUME TypeInv, NEW c \in net, NEW told, NEW d, Outdates(c, d, told), NEW op \in {"join", "approve"}
  PROVE  {x \in net' : x.op = op /\ Doing(x)}
           = ({x \in net : x.op = op /\ Doing(x)} \ {c}) \union {x \in {d} : x.op = op /\ Doing(x)}
<1>1. net' = {Older1(x, told) : x \in net \ {c}} \union {d}
  BY DEF Outdates
<1>2. \A x \in net : /\ IsRead(x, "ok") => Older1(x, told).op = "read"
                     /\ ~IsRead(x, "ok") => Older1(x, told) = x
  BY OlderSame, OlderAges DEF Ages, Alike, IsRead, TypeInv, AllCalls
<1>3. ASSUME NEW y \in net', y.op = op, Doing(y), y # d PROVE y \in net \ {c}
  <2>1. PICK x \in net \ {c} : y = Older1(x, told)
    BY <1>1, <1>3
  <2> QED BY <1>2, <1>3, <2>1
<1>4. ASSUME NEW y \in net \ {c}, y.op = op, Doing(y) PROVE y \in net'
  <2>1. ~IsRead(y, "ok")
    BY <1>4 DEF IsRead
  <2> QED BY <1>1, <1>2, <2>1
<1>5. d \in net'
  BY <1>1
<1> QED BY <1>3, <1>4, <1>5

LEMMA OlderWork ==
  ASSUME TypeInv, NEW c \in net, NEW told, NEW d, Outdates(c, d, told), d.op = "read" \/ ~Doing(d)
  PROVE  Joining' = Joining \ {c} /\ Approving' = Approving \ {c}
<1>1. \A op \in {"join", "approve"} :
        {x \in net' : x.op = op /\ Doing(x)} = {x \in net : x.op = op /\ Doing(x)} \ {c}
  BY OlderDoing
<1> QED BY <1>1 DEF Joining, Approving, Doing

(* Whatever is heard, sent, read or refused.                               *)
LEMMA AsideStays ==
  ASSUME NEW c, NEW cs, net' = (net \ {c}) \union cs, UNCHANGED <<db, stray, overlaps>>,
         c.op \notin {"join", "approve"} \/ ~Doing(c),
         \A x \in cs : x.op \notin {"join", "approve"} \/ ~Doing(x)
  PROVE  Stays
BY DEF Stays, Joining, Approving, Doing

LEMMA AnswersStay ==
  ASSUME TypeInv, NEW c \in net, NEW phase \in Phases, Answers(c, phase), UNCHANGED <<db, stray, overlaps>>,
         c.op \notin {"join", "approve"} \/ (~Doing(c) /\ phase = "failed")
  PROVE  Stays
<1> DEFINE d == [c EXCEPT !.phase = phase, !.before = {}]
           cs == {d}
<1>1. Turned(c, d, phase)
  BY HandledType, TurnedType
<1>2. net' = (net \ {c}) \union cs /\ \A x \in cs : x = d
  BY DEF Answers, Becomes
<1> HIDE DEF d, cs
<1>3. d.op = c.op /\ (phase = "failed" => ~Doing(d))
  BY <1>1 DEF Turned, Alike, Doing
<1> QED BY <1>2, <1>3, AsideStays

LEMMA FailsStay ==
  ASSUME TypeInv, NEW c \in net, Fails(c), c.op \notin {"join", "approve"} \/ ~Doing(c)
  PROVE  Stays
<1>1. \A phase \in {"failed", "ok"} : phase \in Phases
  BY DEF Phases
<1>2. UNCHANGED <<db, stray, overlaps>>
  BY DEF Fails, Same, History
<1>3. \A phase \in Phases :
        Answers(c, phase) /\ (c.op \notin {"join", "approve"} \/ (~Doing(c) /\ phase = "failed")) => Stays
  BY <1>2, AnswersStay
<1>4. Answers(c, "failed")
  BY DEF Fails
<1>5. \A phase \in {"failed", "ok"} :
        Answers(c, phase) /\ (c.op \notin {"join", "approve"} \/ (~Doing(c) /\ phase = "failed")) => Stays
  BY <1>1, <1>3
<1> QED BY <1>4, <1>5

LEMMA ServesStay ==
  ASSUME TypeInv, NEW c \in net,
         ServeRead(c) \/ ServePlan(c) \/ ServeExists(c) \/ BeginAccept(c) \/ BeginDeny(c) \/ BeginDelete(c)
  PROVE  Stays
<1>1. IsCall(c) /\ c.phase = "sent" /\ ~Doing(c) /\ c.op \notin {"join", "approve"}
  BY HandledType DEF ServeRead, ServePlan, ServeExists, BeginAccept, BeginDeny, BeginDelete, Serves, Doing
<1>2. CASE Fails(c)
  BY <1>1, <1>2, FailsStay
<1>3. CASE ServeRead(c)
  <2>1. UNCHANGED <<db, stray, overlaps>> /\ c.op = "read"
    BY <1>3 DEF ServeRead, Serves, Same, History
  <2> DEFINE d == [c EXCEPT !.phase = "ok", !.view = View(c.at, db)]
             others == Users \ {c.by}
  <2>2. Outdates(c, d, others)
    BY <1>3, ReadOlder DEF Outdates
  <2>3. Read(c, d)
    BY ReadType
  <2> HIDE DEF d, others
  <2>4. d.op = "read"
    BY <2>1, <2>3 DEF Read, Alike
  <2>5. Joining' = Joining \ {c} /\ Approving' = Approving \ {c}
    BY <2>2, <2>4, OlderWork
  <2>6. c \notin Joining /\ c \notin Approving
    BY <1>1 DEF Joining, Approving
  <2> QED BY <2>1, <2>5, <2>6 DEF Stays
<1>4. CASE (ServePlan(c) \/ ServeExists(c)) /\ ~Fails(c)
  <2>1. \E d : Becomes(c, d) /\ d.op = c.op /\ UNCHANGED <<db, stray, overlaps>>
    <3>1. CASE ServePlan(c)
      <4> DEFINE d == [c EXCEPT !.phase = "ok", !.name = db.plans[c.plan].name, !.status = Status(c)]
      <4>1. Becomes(c, d) /\ UNCHANGED <<db, stray, overlaps>>
        BY <1>4, <3>1 DEF ServePlan, Same, History
      <4>2. d.op = c.op
        BY <1>1 DEF IsCall, CallOf
      <4> QED BY <4>1, <4>2
    <3>2. CASE ServeExists(c)
      <4> DEFINE d == [c EXCEPT !.phase = "ok", !.exists = Taken(c.name)]
      <4>1. Becomes(c, d) /\ UNCHANGED <<db, stray, overlaps>>
        BY <1>4, <3>2 DEF ServeExists, Same, History
      <4>2. d.op = c.op
        BY <1>1 DEF IsCall, CallOf
      <4> QED BY <4>1, <4>2
    <3> QED BY <1>4, <3>1, <3>2
  <2>2. PICK d : Becomes(c, d) /\ d.op = c.op /\ UNCHANGED <<db, stray, overlaps>>
    BY <2>1
  <2> QED BY <1>1, <2>2, AsideStays DEF Becomes
<1>5. CASE (BeginAccept(c) \/ BeginDeny(c) \/ BeginDelete(c)) /\ ~Fails(c)
  <2>1. \E phase \in {"begun", "told"} : Answers(c, phase) /\ UNCHANGED <<db, stray, overlaps>>
    BY <1>5 DEF BeginAccept, BeginDeny, BeginDelete, Tells, Same, History
  <2>2. \A phase \in {"begun", "told"} : phase \in Phases
    BY DEF Phases
  <2> QED BY <1>1, <2>1, <2>2, AnswersStay
<1> QED BY <1>2, <1>3, <1>4, <1>5

(* A commit of a handler is its last step.                                 *)
LEMMA CommitsWork ==
  ASSUME TypeInv, NEW c \in net, NEW d, NEW phase \in {"ok", "failed"}, NEW announced, NEW told,
         Commits(c, d, phase, announced, told)
  PROVE  db' = d /\ Joining' = Joining \ {c} /\ Approving' = Approving \ {c}
<1> DEFINE answer == [c EXCEPT !.phase = phase, !.before = {}]
<1>1. net' = {Older1(x, told) : x \in net \ {c}} \union {answer} /\ db' = d
  BY DEF Commits, Older, Older1
<1>2. phase \in Phases
  BY DEF Phases
<1>3. Turned(c, answer, phase)
  BY <1>2, HandledType, TurnedType
<1> HIDE DEF answer
<1>4. ~Doing(answer)
  BY <1>3 DEF Turned, Doing
<1>5. Outdates(c, answer, told)
  BY <1>1 DEF Outdates
<1>6. Joining' = Joining \ {c} /\ Approving' = Approving \ {c}
  BY <1>4, <1>5, OlderWork
<1> QED BY <1>1, <1>6

(* A decision stands beside no other on the same request, or is a stray.   *)
LEMMA StraysFrom ==
  ASSUME TypeInv, TalkInv, NEW c \in net, Strays(c), About(c) \notin stray'
  PROVE  /\ Status(c) = "open" /\ stray' = stray
         /\ c.request = 0 => \A x \in Approving \ {c} : x.plan # c.plan
<1>1. stray' = IF Status(c) = "open" /\ ~\E x \in net \ {c} : Decides(x) /\ Goes(x, x.op) /\ About(x) = About(c)
               THEN stray ELSE stray \union {About(c)}
  BY DEF Strays
<1>2. /\ Status(c) = "open" /\ stray' = stray
      /\ ~\E x \in net \ {c} : Decides(x) /\ Goes(x, x.op) /\ About(x) = About(c)
  BY <1>1
<1>3. ASSUME c.request = 0, NEW x \in Approving \ {c}, x.plan = c.plan PROVE FALSE
  <2>1. x \in net \ {c} /\ x.op = "approve" /\ Doing(x) /\ x.request = 0
    BY DEF Approving, TalkInv, FitsCall, FitsAt, OnPlan
  <2>2. Decides(x) /\ Goes(x, x.op) /\ About(x) = About(c)
    BY <1>3, <2>1 DEF Decides, Goes, Doing, About
  <2> QED BY <1>2, <2>1, <2>2
<1> QED BY <1>2, <1>3

(* A request to join is decided: what was asked of others is as it was.    *)
LEMMA PutsJoin ==
  ASSUME TypeInv, NEW c \in net, c.request \in Ids, NEW status \in Statuses
  PROVE  LET d == Puts(c, status) IN
         /\ d.members = db.members /\ d.made = db.made /\ d.plans = db.plans
         /\ \A i \in Ids : d.joins[i].by = db.joins[i].by
         /\ \A i \in Ids : d.joins[i].status = IF i = c.request THEN status ELSE db.joins[i].status
<1> DEFINE d == Puts(c, status)
           row == [db.joins[c.request] EXCEPT !.status = status]
<1>1. c.request # 0 /\ db.joins \in [Ids -> Asks]
  BY HandledType DEF Ids
<1>2. /\ d.members = db.members /\ d.made = db.made /\ d.plans = db.plans
      /\ d.joins = [db.joins EXCEPT ![c.request] = row]
  BY <1>1, PutsType
<1> HIDE DEF d
<1>3. row.by = db.joins[c.request].by /\ row.status = status
  BY <1>1 DEF Asks
<1> HIDE DEF row
<1>4. \A i \in Ids : d.joins[i].by = db.joins[i].by
  BY <1>1, <1>2, <1>3
<1>5. \A i \in Ids : d.joins[i].status = IF i = c.request THEN status ELSE db.joins[i].status
  BY <1>1, <1>2, <1>3
<1> QED BY <1>2, <1>4, <1>5 DEF d

LEMMA PutsPlan ==
  ASSUME TypeInv, NEW c \in net, c.request = 0, NEW status \in Statuses
  PROVE  LET d == Puts(c, status) IN
         /\ d.members = db.members /\ d.made = db.made /\ d.joins = db.joins
         /\ \A p \in Plans : d.plans[p].status = IF p = c.plan THEN status ELSE db.plans[p].status
<1> DEFINE d == Puts(c, status)
           row == [db.plans[c.plan] EXCEPT !.status = status]
<1>1. c.plan \in Plans /\ db.plans \in [Plans -> Bids]
  BY HandledType, CallFields
<1>2. /\ d.members = db.members /\ d.made = db.made /\ d.joins = db.joins
      /\ d.plans = [db.plans EXCEPT ![c.plan] = row]
  BY PutsType
<1> HIDE DEF d
<1>3. row.status = status
  BY <1>1 DEF Bids
<1> HIDE DEF row
<1>4. \A p \in Plans : d.plans[p].status = IF p = c.plan THEN status ELSE db.plans[p].status
  BY <1>1, <1>2, <1>3
<1> QED BY <1>2, <1>4 DEF d

LEMMA JoinShrinks ==
  ASSUME JoinInv, Joining' \subseteq Joining, overlaps \subseteq overlaps', \A r : LiveOf(r)' \subseteq LiveOf(r)
  PROVE  JoinInv'
<1>1. \A c, d \in Joining' : c.by = d.by /\ c.by \notin overlaps' => c = d
  BY DEF JoinInv
<1>2. \A c \in Joining' : c.by \notin overlaps' => LiveOf(c.by)' \subseteq c.before
  BY DEF JoinInv
<1>3. \A r \in Requesters \ overlaps' : \A i, j \in LiveOf(r)' : i = j
  BY DEF JoinInv
<1> QED BY <1>1, <1>2, <1>3 DEF JoinInv

(* What decides on a request to join.                                      *)
LEMMA DecideJoin ==
  ASSUME TypeInv, WorkInv, NEW c \in net, c.request \in Ids, NEW status \in Statuses, There(c),
         c.op # "approve", c.op # "join", NEW d, db' = d,
         d.joins = Puts(c, status).joins, d.plans = db.plans, d.made = db.made,
         Joining' = Joining \ {c}, Approving' = Approving \ {c}, stray \subseteq stray', overlaps' = overlaps
  PROVE  JoinInv' /\ PlanInv'
<1>1. /\ \A i \in Ids : d.joins[i].by = db.joins[i].by
      /\ \A i \in Ids : d.joins[i].status = IF i = c.request THEN status ELSE db.joins[i].status
  BY PutsJoin
<1>2. db.joins[c.request].status \in Live
  BY DEF There, Status, Ids
<1>3. \A r : LiveOf(r)' \subseteq LiveOf(r)
  BY <1>1, <1>2 DEF LiveOf
<1>4. Approving' = Approving /\ \A p : MadeOf(p)' = MadeOf(p)
  BY DEF Approving, MadeOf
<1>5. JoinInv'
  BY <1>3, JoinShrinks DEF WorkInv
<1>6. PlanInv'
  <2>1. \A m, k \in db'.made : m.name = k.name => m = k
    BY DEF WorkInv, PlanInv
  <2>2. ASSUME NEW p \in Plans, <<"plan", p>> \notin stray'
        PROVE  /\ db'.plans[p].status = "denied" => MadeOf(p)' = {}
               /\ db'.plans[p].status = "open" /\ MadeOf(p)' # {} => \E x \in Approving' : x.plan = p
               /\ db'.plans[p].status = "approved" => \E m : MadeOf(p)' = {m}
    BY <1>4, <2>2 DEF WorkInv, PlanInv
  <2>3. \A x \in Approving' : <<"plan", x.plan>> \notin stray' => \E m : MadeOf(x.plan)' = {m}
    BY <1>4 DEF WorkInv, PlanInv
  <2> QED BY <2>1, <2>2, <2>3 DEF PlanInv
<1> QED BY <1>5, <1>6

LEMMA AcceptWork ==
  ASSUME TypeInv, TalkInv, WorkInv, NEW c \in net, CommitAccept(c)
  PROVE  WorkInv'
<1>1. c.op = "accept" /\ c.request \in Ids /\ c.request # 0
  BY DEF CommitAccept, Goes, TalkInv, FitsCall, FitsAt, OnJoin, Ids
<1>2. CASE Fails(c)
  BY <1>1, <1>2, FailsStay, StaysWork
<1>3. CASE ~Fails(c)
  <2> DEFINE b == Puts(c, "approved")
             r == db.joins[c.request].by
             members == db.members \union {r}
             d == [b EXCEPT !.members = members]
             told == Told(c, "joins")
  <2>1. /\ b \in Databases /\ b.members = db.members /\ b.made = db.made /\ b.plans = db.plans
        /\ \A i \in Ids : b.joins[i].by = db.joins[i].by
        /\ \A i \in Ids : b.joins[i].status = IF i = c.request THEN "approved" ELSE db.joins[i].status
    <3>1. \A status \in {"approved", "denied"} : status \in Statuses
      BY DEF Statuses, Live
    <3>2. \A status \in {"approved", "denied"} :
            LET e == Puts(c, status) IN
            /\ e \in Databases /\ e.members = db.members /\ e.made = db.made /\ e.plans = db.plans
            /\ \A i \in Ids : e.joins[i].by = db.joins[i].by
            /\ \A i \in Ids : e.joins[i].status = IF i = c.request THEN status ELSE db.joins[i].status
      <4> TAKE status \in {"approved", "denied"}
      <4>1. status \in Statuses
        BY <3>1
      <4>2. Puts(c, status) \in Databases
        BY <4>1, PutsType
      <4> QED BY <1>1, <4>1, <4>2, PutsJoin
    <3> QED BY <3>2
  <2>2. There(c) /\ Commits(c, d, "ok", TRUE, told) /\ Strays(c) /\ overlaps' = overlaps
    <3>1. [b EXCEPT !.members = @ \union {db.joins[c.request].by}] = d
      BY <2>1
    <3> HIDE DEF d, b
    <3> QED BY <1>3, <3>1 DEF CommitAccept, b
  <2> HIDE DEF members, told
  <2>3. d.members = members /\ d.joins = b.joins /\ d.plans = db.plans /\ d.made = db.made
    <3> HIDE DEF b
    <3> QED BY <2>1 DEF Databases
  <2> HIDE DEF d
  <2>4. db' = d /\ Joining' = Joining \ {c} /\ Approving' = Approving \ {c}
    <3>1. \A phase \in {"ok", "failed"} : Commits(c, d, phase, TRUE, told) =>
            db' = d /\ Joining' = Joining \ {c} /\ Approving' = Approving \ {c}
      BY CommitsWork
    <3> QED BY <2>2, <3>1
  <2>5. stray \subseteq stray'
    BY <2>2 DEF Strays
  <2>6. \A status \in {"approved", "denied"} : status \in Statuses
    BY DEF Statuses, Live
  <2>7. JoinInv' /\ PlanInv'
    <3>1. \A status \in {"approved", "denied"} : d.joins = Puts(c, status).joins => JoinInv' /\ PlanInv'
      BY <1>1, <2>2, <2>3, <2>4, <2>5, <2>6, DecideJoin
    <3> QED BY <2>3, <3>1
  <2>8. c.request \in LiveOf(r)
    BY <1>1, <2>2 DEF LiveOf, There, Status
  <2> HIDE DEF b
  <2>9. DecidedInv'
    <3> SUFFICES ASSUME NEW i \in Ids
                 PROVE  /\ d.joins[i].status = "approved" => d.joins[i].by \in d.members
                        /\ <<"join", i>> \notin stray' /\ d.joins[i].status \in {"open", "denied"} =>
                             d.joins[i].by \notin d.members \/ d.joins[i].by \in overlaps
      BY <2>2, <2>4 DEF DecidedInv
    <3>1. CASE i = c.request
      BY <2>1, <2>3, <3>1 DEF members
    <3>2. CASE i # c.request
      <4>1. d.joins[i].by = db.joins[i].by /\ d.joins[i].status = db.joins[i].status
        BY <2>1, <2>3, <3>2
      <4>2. d.joins[i].status \in {"open", "denied"} /\ db.joins[i].by = r => r \in overlaps
        <5>1. db.joins[i].status \in {"open", "denied"} /\ db.joins[i].by = r => i \in LiveOf(r)
          BY DEF LiveOf, Live
        <5>2. r \in Requesters
          BY <1>1, HandledType DEF Asks
        <5> QED BY <2>8, <3>2, <4>1, <5>1, <5>2 DEF WorkInv, JoinInv
      <4>3. d.members = db.members \union {r}
        BY <2>3 DEF members
      <4> HIDE DEF r
      <4> QED BY <2>5, <4>1, <4>2, <4>3 DEF WorkInv, DecidedInv
    <3> QED BY <3>1, <3>2
  <2> QED BY <2>7, <2>9 DEF WorkInv
<1> QED BY <1>2, <1>3

LEMMA RejectWork ==
  ASSUME TypeInv, TalkInv, WorkInv, NEW c \in net, c.op \in {"decline", "delete"}, CommitDeny(c) \/ CommitDelete(c)
  PROVE  WorkInv'
<1>1. c.request \in Ids /\ c.request # 0 /\ c.op # "approve" /\ c.op # "join"
  BY DEF TalkInv, FitsCall, FitsAt, OnJoin, Ids
<1>2. CASE Fails(c)
  BY <1>1, <1>2, FailsStay, StaysWork
<1>3. CASE ~Fails(c)
  <2>1. PICK status \in {"denied", "gone"} :
          /\ There(c) /\ Commits(c, Puts(c, status), "ok", FALSE, {}) /\ overlaps' = overlaps
          /\ (stray' = stray \/ Strays(c)) /\ (status = "denied" => Strays(c))
    BY <1>3 DEF CommitDeny, CommitDelete
  <2>2. status \in Statuses
    BY DEF Statuses, Live
  <2> DEFINE d == Puts(c, status)
             none == {}
  <2>3. /\ d.members = db.members /\ d.made = db.made /\ d.plans = db.plans
        /\ \A i \in Ids : d.joins[i].by = db.joins[i].by
        /\ \A i \in Ids : d.joins[i].status = IF i = c.request THEN status ELSE db.joins[i].status
    BY <1>1, <2>2, PutsJoin
  <2>4. Commits(c, d, "ok", FALSE, none) /\ d.joins = Puts(c, status).joins
    BY <2>1
  <2> HIDE DEF d, none
  <2>5. db' = d /\ Joining' = Joining \ {c} /\ Approving' = Approving \ {c}
    <3>1. \A phase \in {"ok", "failed"} : Commits(c, d, phase, FALSE, none) =>
            db' = d /\ Joining' = Joining \ {c} /\ Approving' = Approving \ {c}
      BY CommitsWork
    <3> QED BY <2>4, <3>1
  <2>6. stray \subseteq stray'
    BY <2>1 DEF Strays
  <2>7. JoinInv' /\ PlanInv'
    BY <1>1, <2>1, <2>2, <2>3, <2>4, <2>5, <2>6, DecideJoin
  <2>8. DecidedInv'
    <3> SUFFICES ASSUME NEW i \in Ids
                 PROVE  /\ d.joins[i].status = "approved" => d.joins[i].by \in d.members
                        /\ <<"join", i>> \notin stray' /\ d.joins[i].status \in {"open", "denied"} =>
                             d.joins[i].by \notin d.members \/ d.joins[i].by \in overlaps
      BY <2>1, <2>5 DEF DecidedInv
    <3>1. CASE i = c.request /\ status = "denied"
      <4>1. <<"join", i>> \notin stray' => db.joins[i].status = "open" /\ <<"join", i>> \notin stray
        BY <1>1, <2>1, <3>1, StraysFrom DEF About, Status
      <4> QED BY <2>3, <3>1, <4>1 DEF WorkInv, DecidedInv
    <3>2. CASE i = c.request /\ status = "gone"
      BY <2>3, <3>2
    <3>3. CASE i # c.request
      BY <2>3, <2>6, <3>3 DEF WorkInv, DecidedInv
    <3> QED BY <2>1, <3>1, <3>2, <3>3
  <2> QED BY <2>7, <2>8 DEF WorkInv
<1> QED BY <1>2, <1>3

(* What decides on a request for a collaboration.                          *)
LEMMA DecidePlan ==
  ASSUME WorkInv, NEW d, db' = d, d.joins = db.joins, d.members = db.members, Joining' = Joining,
         stray \subseteq stray', overlaps' = overlaps
  PROVE  JoinInv' /\ DecidedInv'
<1>1. \A r : LiveOf(r)' = LiveOf(r)
  BY DEF LiveOf
<1>2. JoinInv'
  BY <1>1, JoinShrinks DEF WorkInv
<1>3. DecidedInv'
  BY DEF WorkInv, DecidedInv
<1> QED BY <1>2, <1>3

LEMMA RefuseWork ==
  ASSUME TypeInv, TalkInv, WorkInv, NEW c \in net, c.op \in {"deny", "drop"}, CommitDeny(c) \/ CommitDelete(c)
  PROVE  WorkInv'
<1>1. c.request = 0 /\ c.op # "approve" /\ c.op # "join" /\ c.plan \in Plans
  BY HandledType, CallFields DEF TalkInv, FitsCall, FitsAt, OnPlan
<1>2. CASE Fails(c)
  BY <1>1, <1>2, FailsStay, StaysWork
<1>3. CASE ~Fails(c)
  <2>1. PICK status \in {"denied", "gone"} :
          /\ There(c) /\ Commits(c, Puts(c, status), "ok", FALSE, {}) /\ overlaps' = overlaps
          /\ (stray' = stray \/ Strays(c)) /\ (status = "denied" => Strays(c))
    BY <1>3 DEF CommitDeny, CommitDelete
  <2>2. status \in Statuses
    BY DEF Statuses, Live
  <2> DEFINE d == Puts(c, status)
             none == {}
  <2>3. /\ d.members = db.members /\ d.made = db.made /\ d.joins = db.joins
        /\ \A p \in Plans : d.plans[p].status = IF p = c.plan THEN status ELSE db.plans[p].status
    BY <1>1, <2>2, PutsPlan
  <2>4. Commits(c, d, "ok", FALSE, none)
    BY <2>1
  <2> HIDE DEF d, none
  <2>5. db' = d /\ Joining' = Joining /\ Approving' = Approving
    <3>1. \A phase \in {"ok", "failed"} : Commits(c, d, phase, FALSE, none) =>
            db' = d /\ Joining' = Joining \ {c} /\ Approving' = Approving \ {c}
      BY CommitsWork
    <3>2. c \notin Joining /\ c \notin Approving
      BY <1>1 DEF Joining, Approving
    <3> QED BY <2>4, <3>1, <3>2
  <2>6. stray \subseteq stray'
    BY <2>1 DEF Strays
  <2>7. JoinInv' /\ DecidedInv'
    BY <2>1, <2>3, <2>5, <2>6, DecidePlan
  <2>8. \A p : MadeOf(p)' = MadeOf(p)
    BY <2>3, <2>5 DEF MadeOf
  <2>9. PlanInv'
    <3>1. \A m, k \in db'.made : m.name = k.name => m = k
      BY <2>3, <2>5 DEF WorkInv, PlanInv
    <3>2. \A x \in Approving' : <<"plan", x.plan>> \notin stray' => \E m : MadeOf(x.plan)' = {m}
      BY <2>5, <2>6, <2>8 DEF WorkInv, PlanInv
    <3>3. ASSUME NEW p \in Plans, <<"plan", p>> \notin stray'
          PROVE  /\ d.plans[p].status = "denied" => MadeOf(p) = {}
                 /\ d.plans[p].status = "open" /\ MadeOf(p) # {} => \E x \in Approving : x.plan = p
                 /\ d.plans[p].status = "approved" => \E m : MadeOf(p) = {m}
      <4>1. CASE p # c.plan
        BY <2>3, <2>6, <3>3, <4>1 DEF WorkInv, PlanInv
      <4>2. CASE p = c.plan /\ status = "gone"
        BY <2>3, <4>2
      <4>3. CASE p = c.plan /\ status = "denied"
        <5>1. db.plans[p].status = "open" /\ <<"plan", p>> \notin stray /\ \A x \in Approving \ {c} : x.plan # p
          BY <1>1, <2>1, <3>3, <4>3, StraysFrom DEF About, Status
        <5>2. \A x \in Approving : x.plan # p
          BY <1>1, <5>1 DEF Approving
        <5> QED BY <2>3, <4>3, <5>1, <5>2 DEF WorkInv, PlanInv
      <4> QED BY <4>1, <4>2, <4>3
    <3> QED BY <2>5, <2>8, <3>1, <3>2, <3>3 DEF PlanInv
  <2> QED BY <2>7, <2>9 DEF WorkInv
<1> QED BY <1>2, <1>3

(* The collaboration is made: its request had none.                        *)
LEMMA BeginApproveWork ==
  ASSUME TypeInv, TalkInv, WorkInv, NEW c \in net, BeginApprove(c)
  PROVE  WorkInv'
<1>1. c.op = "approve" /\ c.phase = "sent" /\ c.request = 0 /\ c.plan \in Plans /\ ~Doing(c)
  BY HandledType, CallFields DEF BeginApprove, Serves, TalkInv, FitsCall, FitsAt, OnPlan, Doing
<1>2. CASE Fails(c)
  BY <1>1, <1>2, FailsStay, StaysWork
<1>3. CASE ~Fails(c)
  <2> DEFINE plan == c.plan
             name == c.name
             m == [plan |-> plan, name |-> name]
             made == db.made \union {m}
             d == [db EXCEPT !.made = made]
             a == [c EXCEPT !.phase = "begun", !.before = {}]
             none == {}
  <2>1. /\ db' = d /\ Outdates(c, a, none) /\ ~Taken(name) /\ Strays(c) /\ overlaps' = overlaps
    BY <1>3 DEF BeginApprove, Commits, Outdates, Older, Older1
  <2>2. a.op = "approve" /\ a.plan = plan /\ Doing(a)
    <3>1. \A phase \in {"begun", "told"} : phase \in Phases
      BY DEF Phases
    <3>2. \A phase \in {"begun", "told"} : Turned(c, [c EXCEPT !.phase = phase, !.before = {}], phase)
      BY <3>1, HandledType, TurnedType, Zenon
    <3>3. Turned(c, a, "begun")
      BY <3>2
    <3> HIDE DEF a
    <3> QED BY <1>1, <3>3 DEF Turned, Alike, Doing
  <2> HIDE DEF a
  <2>3. m.plan = plan /\ m.name = name
    OBVIOUS
  <2> HIDE DEF m
  <2>4. d.joins = db.joins /\ d.plans = db.plans /\ d.members = db.members /\ d.made = db.made \union {m}
    <3> HIDE DEF made
    <3> QED BY HandledType DEF Databases, made
  <2> HIDE DEF d, made, none
  <2>5. Joining' = Joining /\ Approving' = Approving \union {a}
    <3>1. \A op \in {"join", "approve"} :
            {x \in net' : x.op = op /\ Doing(x)}
              = ({x \in net : x.op = op /\ Doing(x)} \ {c}) \union {x \in {a} : x.op = op /\ Doing(x)}
      BY <2>1, OlderDoing
    <3>2. /\ {x \in {a} : x.op = "join" /\ Doing(x)} = {} /\ c \notin Joining /\ c \notin Approving
          /\ {x \in {a} : x.op = "approve" /\ Doing(x)} = {a}
      BY <1>1, <2>2 DEF Joining, Approving
    <3> QED BY <3>1, <3>2 DEF Joining, Approving, Doing
  <2>6. stray \subseteq stray'
    BY <2>1 DEF Strays
  <2>7. JoinInv' /\ DecidedInv'
    BY <2>1, <2>4, <2>5, <2>6, DecidePlan
  <2>8. \A p : p # plan => MadeOf(p)' = MadeOf(p)
    BY <2>1, <2>3, <2>4 DEF MadeOf
  <2>9. <<"plan", plan>> \notin stray' =>
          /\ db.plans[plan].status = "open" /\ MadeOf(plan)' = {m} /\ \A x \in Approving : x.plan # plan
    <3> SUFFICES ASSUME <<"plan", plan>> \notin stray'
                 PROVE  db.plans[plan].status = "open" /\ MadeOf(plan)' = {m} /\ \A x \in Approving : x.plan # plan
      OBVIOUS
    <3>1. db.plans[plan].status = "open" /\ <<"plan", plan>> \notin stray /\ \A x \in Approving \ {c} : x.plan # plan
      BY <1>1, <2>1, StraysFrom DEF About, Status
    <3>2. \A x \in Approving : x.plan # plan
      BY <1>1, <3>1 DEF Approving
    <3>3. MadeOf(plan) = {}
      BY <1>1, <3>1, <3>2 DEF WorkInv, PlanInv
    <3>4. MadeOf(plan)' = {m}
      BY <2>1, <2>3, <2>4, <3>3 DEF MadeOf
    <3> QED BY <3>1, <3>2, <3>4
  <2>10. PlanInv'
    <3>1. \A k, l \in d.made : k.name = l.name => k = l
      BY <2>1, <2>3, <2>4 DEF WorkInv, PlanInv, Taken
    <3>2. ASSUME NEW x \in Approving', <<"plan", x.plan>> \notin stray' PROVE \E k : MadeOf(x.plan)' = {k}
      <4>1. CASE x.plan = plan
        BY <2>9, <3>2, <4>1
      <4>2. CASE x.plan # plan
        BY <2>2, <2>5, <2>6, <2>8, <3>2, <4>2 DEF WorkInv, PlanInv
      <4> QED BY <4>1, <4>2
    <3>3. ASSUME NEW p \in Plans, <<"plan", p>> \notin stray'
          PROVE  /\ d.plans[p].status = "denied" => MadeOf(p)' = {}
                 /\ d.plans[p].status = "open" /\ MadeOf(p)' # {} => \E x \in Approving' : x.plan = p
                 /\ d.plans[p].status = "approved" => \E k : MadeOf(p)' = {k}
      <4>1. CASE p = plan
        BY <2>2, <2>4, <2>5, <2>9, <3>3, <4>1
      <4>2. CASE p # plan
        BY <2>4, <2>5, <2>6, <2>8, <3>3, <4>2 DEF WorkInv, PlanInv
      <4> QED BY <4>1, <4>2
    <3> QED BY <2>1, <3>1, <3>2, <3>3 DEF PlanInv
  <2> QED BY <2>7, <2>10 DEF WorkInv
<1> QED BY <1>2, <1>3

LEMMA CommitApproveWork ==
  ASSUME TypeInv, TalkInv, WorkInv, NEW c \in net, CommitApprove(c)
  PROVE  WorkInv'
<1>1. c.op = "approve" /\ c.request = 0 /\ c.plan \in Plans /\ Doing(c) /\ c \in Approving
  BY HandledType, CallFields DEF CommitApprove, Goes, TalkInv, FitsCall, FitsAt, OnPlan, Doing, Approving
<1>2. CASE There(c) /\ Commits(c, Puts(c, "approved"), "ok", FALSE, {}) /\ Strays(c) /\ UNCHANGED overlaps
  <2> DEFINE d == Puts(c, "approved")
             none == {}
  <2>1. /\ d.members = db.members /\ d.made = db.made /\ d.joins = db.joins
        /\ \A p \in Plans : d.plans[p].status = IF p = c.plan THEN "approved" ELSE db.plans[p].status
    <3>1. \A status \in {"approved", "denied"} : status \in Statuses
      BY DEF Statuses, Live
    <3>2. \A status \in {"approved", "denied"} :
            LET e == Puts(c, status) IN
            /\ e.members = db.members /\ e.made = db.made /\ e.joins = db.joins
            /\ \A p \in Plans : e.plans[p].status = IF p = c.plan THEN status ELSE db.plans[p].status
      BY <1>1, <3>1, PutsPlan
    <3> QED BY <3>2
  <2>2. Commits(c, d, "ok", FALSE, none) /\ Strays(c) /\ overlaps' = overlaps
    BY <1>2
  <2> HIDE DEF d, none
  <2>3. db' = d /\ Joining' = Joining /\ Approving' = Approving \ {c}
    <3>1. \A phase \in {"ok", "failed"} : Commits(c, d, phase, FALSE, none) =>
            db' = d /\ Joining' = Joining \ {c} /\ Approving' = Approving \ {c}
      BY CommitsWork
    <3>2. c \notin Joining
      BY <1>1 DEF Joining
    <3> QED BY <2>2, <3>1, <3>2
  <2>4. stray \subseteq stray'
    BY <2>2 DEF Strays
  <2>5. JoinInv' /\ DecidedInv'
    BY <2>1, <2>2, <2>3, <2>4, DecidePlan
  <2>6. \A p : MadeOf(p)' = MadeOf(p)
    BY <2>1, <2>3 DEF MadeOf
  <2>7. PlanInv'
    <3>1. \A m, k \in db'.made : m.name = k.name => m = k
      BY <2>1, <2>3 DEF WorkInv, PlanInv
    <3>2. \A x \in Approving' : <<"plan", x.plan>> \notin stray' => \E m : MadeOf(x.plan)' = {m}
      BY <2>3, <2>4, <2>6 DEF WorkInv, PlanInv
    <3>3. ASSUME NEW p \in Plans, <<"plan", p>> \notin stray'
          PROVE  /\ d.plans[p].status = "denied" => MadeOf(p) = {}
                 /\ d.plans[p].status = "open" /\ MadeOf(p) # {} => \E x \in Approving' : x.plan = p
                 /\ d.plans[p].status = "approved" => \E m : MadeOf(p) = {m}
      <4>1. CASE p # c.plan
        <5>1. db.plans[p].status = "open" /\ MadeOf(p) # {} => \E x \in Approving \ {c} : x.plan = p
          BY <2>4, <3>3, <4>1 DEF WorkInv, PlanInv
        <5> QED BY <2>1, <2>3, <2>4, <3>3, <4>1, <5>1 DEF WorkInv, PlanInv
      <4>2. CASE p = c.plan
        <5>1. \E m : MadeOf(p) = {m}
          BY <1>1, <2>4, <3>3, <4>2 DEF WorkInv, PlanInv
        <5> QED BY <2>1, <4>2, <5>1
      <4> QED BY <4>1, <4>2
    <3> QED BY <2>3, <2>6, <3>1, <3>2, <3>3 DEF PlanInv
  <2> QED BY <2>5, <2>7 DEF WorkInv
<1>3. CASE Answers(c, "failed") /\ stray' = stray \union {About(c)} /\ UNCHANGED <<db, overlaps>>
  <2> DEFINE a == [c EXCEPT !.phase = "failed", !.before = {}]
  <2>1. ~Doing(a)
    <3>1. \A phase \in {"failed", "ok"} : phase \in Phases
      BY DEF Phases
    <3>2. \A phase \in {"failed", "ok"} : Turned(c, [c EXCEPT !.phase = phase, !.before = {}], phase)
      BY <3>1, HandledType, TurnedType, Zenon
    <3>3. Turned(c, a, "failed")
      BY <3>2
    <3> HIDE DEF a
    <3> QED BY <3>3 DEF Turned, Doing
  <2>2. net' = (net \ {c}) \union {a}
    BY <1>3 DEF Answers, Becomes
  <2> HIDE DEF a
  <2>3. Joining' = Joining /\ Approving' = Approving \ {c}
    BY <1>1, <2>1, <2>2 DEF Joining, Approving, Doing
  <2>4. stray' = stray \union {<<"plan", c.plan>>} /\ stray \subseteq stray'
    BY <1>1, <1>3 DEF About
  <2>5. JoinInv' /\ DecidedInv'
    BY <1>3, <2>3, <2>4, DecidePlan
  <2>6. \A p : MadeOf(p)' = MadeOf(p)
    BY <1>3 DEF MadeOf
  <2>7. PlanInv'
    <3>1. \A m, k \in db'.made : m.name = k.name => m = k
      BY <1>3 DEF WorkInv, PlanInv
    <3>2. \A x \in Approving' : <<"plan", x.plan>> \notin stray' => \E m : MadeOf(x.plan)' = {m}
      BY <2>3, <2>4, <2>6 DEF WorkInv, PlanInv
    <3>3. ASSUME NEW p \in Plans, <<"plan", p>> \notin stray'
          PROVE  /\ db.plans[p].status = "denied" => MadeOf(p) = {}
                 /\ db.plans[p].status = "open" /\ MadeOf(p) # {} => \E x \in Approving' : x.plan = p
                 /\ db.plans[p].status = "approved" => \E m : MadeOf(p) = {m}
      <4>1. p # c.plan
        BY <2>4, <3>3
      <4>2. db.plans[p].status = "open" /\ MadeOf(p) # {} => \E x \in Approving \ {c} : x.plan = p
        BY <2>4, <3>3, <4>1 DEF WorkInv, PlanInv
      <4> QED BY <2>3, <2>4, <3>3, <4>2 DEF WorkInv, PlanInv
    <3> QED BY <1>3, <2>6, <3>1, <3>2, <3>3 DEF PlanInv
  <2> QED BY <2>5, <2>7 DEF WorkInv
<1> QED BY <1>2, <1>3 DEF CommitApprove

(* Earlier requests are looked for once, when the handler starts.          *)
LEMMA BeginJoinWork ==
  ASSUME TypeInv, TalkInv, WorkInv, NEW c \in net, BeginJoin(c)
  PROVE  WorkInv'
<1>1. c.op = "join" /\ c.phase = "sent" /\ ~Doing(c) /\ IsCall(c)
  BY HandledType DEF BeginJoin, Serves, Doing
<1>2. CASE Fails(c)
  BY <1>1, <1>2, FailsStay, StaysWork
<1>3. CASE ~Fails(c)
  <2> DEFINE before == {i \in Ids : db.joins[i].by = c.by /\ db.joins[i].status \in Live}
             a == [c EXCEPT !.phase = "begun", !.before = before]
  <2>1. /\ net' = (net \ {c}) \union {a} /\ UNCHANGED <<db, stray>>
        /\ overlaps' = IF \E x \in net : Goes(x, "join") /\ x.by = c.by THEN overlaps \union {c.by} ELSE overlaps
    BY <1>3 DEF BeginJoin, Becomes
  <2>2. before = LiveOf(c.by)
    BY DEF LiveOf
  <2>3. a.by = c.by /\ a.op = "join" /\ a.before = before /\ Doing(a)
    <3>1. before \in SUBSET Ids
      OBVIOUS
    <3> HIDE DEF before
    <3> QED BY <1>1, <3>1 DEF IsCall, CallOf, Doing
  <2> HIDE DEF a, before
  <2>4. Joining' = Joining \union {a} /\ Approving' = Approving
    BY <1>1, <2>1, <2>3 DEF Joining, Approving, Doing
  <2>5. overlaps \subseteq overlaps' /\ (c.by \notin overlaps' => \A x \in Joining : x.by # c.by)
    BY <2>1 DEF Joining, Doing, Goes
  <2>6. (\A r : LiveOf(r)' = LiveOf(r)) /\ \A p : MadeOf(p)' = MadeOf(p)
    BY <2>1 DEF LiveOf, MadeOf
  <2>7. JoinInv'
    <3>1. \A x, y \in Joining' : x.by = y.by /\ x.by \notin overlaps' => x = y
      BY <2>3, <2>4, <2>5 DEF WorkInv, JoinInv
    <3>2. \A x \in Joining' : x.by \notin overlaps' => LiveOf(x.by)' \subseteq x.before
      BY <2>2, <2>3, <2>4, <2>5, <2>6 DEF WorkInv, JoinInv
    <3>3. \A r \in Requesters \ overlaps' : \A i, j \in LiveOf(r)' : i = j
      BY <2>5, <2>6 DEF WorkInv, JoinInv
    <3> QED BY <3>1, <3>2, <3>3 DEF JoinInv
  <2>8. DecidedInv'
    BY <2>1, <2>5 DEF WorkInv, DecidedInv
  <2>9. PlanInv'
    BY <2>1, <2>4, <2>6 DEF WorkInv, PlanInv
  <2> QED BY <2>7, <2>8, <2>9 DEF WorkInv
<1> QED BY <1>2, <1>3

(* Alone, the new request is the only one of its user.                     *)
LEMMA CommitJoinWork ==
  ASSUME TypeInv, TalkInv, WorkInv, NEW c \in net, CommitJoin(c)
  PROVE  WorkInv'
<1>1. PICK i \in Free, mailed \in scene.mails :
        /\ Commits(c, [db EXCEPT !.joins = [j \in Ids |->
                         IF j = i THEN [by |-> c.by, status |-> "open"]
                         ELSE IF j \in c.before THEN [db.joins[j] EXCEPT !.status = "gone"]
                         ELSE db.joins[j]]],
                   IF mailed THEN "ok" ELSE "failed", mailed, IF mailed THEN Told(c, "joins") ELSE {})
        /\ stray' = (IF c.by \in db.members THEN stray \union {<<"join", i>>} ELSE stray)
        /\ overlaps' = overlaps
  BY DEF CommitJoin
<1> DEFINE r == c.by
           new == [by |-> r, status |-> "open"]
           joins == [j \in Ids |-> IF j = i THEN new
                                   ELSE IF j \in c.before THEN [db.joins[j] EXCEPT !.status = "gone"]
                                   ELSE db.joins[j]]
           d == [db EXCEPT !.joins = joins]
           phase == IF mailed THEN "ok" ELSE "failed"
           told == IF mailed THEN Told(c, "joins") ELSE {}
<1>2. c.op = "join" /\ Doing(c) /\ c \in Joining
  BY DEF CommitJoin, Goes, Doing, Joining
<1>3. db \in Databases /\ db.joins \in [Ids -> Asks]
  BY HandledType
<1>4. Commits(c, d, phase, mailed, told) /\ phase \in {"ok", "failed"}
  BY <1>1
<1>5. i \in Ids /\ db.joins[i].status = "none"
  BY DEF Free, Ids
<1>6. new.by = r /\ new.status = "open"
  OBVIOUS
<1> HIDE DEF new
<1>7. /\ joins[i] = new
      /\ \A j \in Ids : j # i => /\ joins[j].by = db.joins[j].by
                                 /\ joins[j].status = IF j \in c.before THEN "gone" ELSE db.joins[j].status
  BY <1>3, <1>5 DEF Asks
<1> HIDE DEF joins, phase, told
<1>8. d.joins = joins /\ d.plans = db.plans /\ d.members = db.members /\ d.made = db.made
  BY <1>3 DEF Databases
<1> HIDE DEF d
<1>9. db' = d /\ Joining' = Joining \ {c} /\ Approving' = Approving
  <2>1. db' = d /\ Joining' = Joining \ {c} /\ Approving' = Approving \ {c}
    BY <1>4, CommitsWork
  <2>2. c \notin Approving
    BY <1>2 DEF Approving
  <2> QED BY <2>1, <2>2
<1>10. stray \subseteq stray' /\ (<<"join", i>> \notin stray' => r \notin db.members) /\ overlaps' = overlaps
  BY <1>1
<1>11. (\A q : MadeOf(q)' = MadeOf(q)) /\ \A q : LiveOf(q)' = {j \in Ids : joins[j].by = q /\ joins[j].status \in Live}
  BY <1>8, <1>9 DEF MadeOf, LiveOf
<1>12. \A q : q # r => LiveOf(q)' \subseteq LiveOf(q)
  BY <1>6, <1>7, <1>11 DEF LiveOf, Live
<1>13. r \notin overlaps => LiveOf(r)' \subseteq {i}
  <2>1. r \notin overlaps => LiveOf(r) \subseteq c.before
    BY <1>2 DEF WorkInv, JoinInv
  <2>2. \A j \in LiveOf(r)' : j # i => j \in LiveOf(r) /\ j \notin c.before
    BY <1>7, <1>11 DEF LiveOf, Live
  <2> QED BY <2>1, <2>2
<1> HIDE DEF r
<1>14. JoinInv'
  <2>1. \A x, y \in Joining' : x.by = y.by /\ x.by \notin overlaps' => x = y
    BY <1>9, <1>10 DEF WorkInv, JoinInv
  <2>2. \A x \in Joining' : x.by \notin overlaps' => LiveOf(x.by)' \subseteq x.before
    <3> SUFFICES ASSUME NEW x \in Joining', x.by \notin overlaps PROVE LiveOf(x.by)' \subseteq x.before
      BY <1>10
    <3>1. x.by # r /\ x \in Joining
      BY <1>2, <1>9 DEF WorkInv, JoinInv, r
    <3> QED BY <1>12, <3>1 DEF WorkInv, JoinInv
  <2>3. \A q \in Requesters \ overlaps' : \A j, k \in LiveOf(q)' : j = k
    <3> SUFFICES ASSUME NEW q \in Requesters \ overlaps PROVE \A j, k \in LiveOf(q)' : j = k
      BY <1>10
    <3>1. CASE q = r
      BY <1>13, <3>1
    <3>2. CASE q # r
      BY <1>12, <3>2 DEF WorkInv, JoinInv
    <3> QED BY <3>1, <3>2
  <2> QED BY <2>1, <2>2, <2>3 DEF JoinInv
<1>15. DecidedInv'
  <2> SUFFICES ASSUME NEW j \in Ids
               PROVE  /\ joins[j].status = "approved" => joins[j].by \in db.members
                      /\ <<"join", j>> \notin stray' /\ joins[j].status \in {"open", "denied"} =>
                           joins[j].by \notin db.members \/ joins[j].by \in overlaps
    BY <1>8, <1>9, <1>10 DEF DecidedInv
  <2>1. CASE j = i
    BY <1>6, <1>7, <1>10, <2>1
  <2>2. CASE j # i
    BY <1>7, <1>10, <2>2 DEF WorkInv, DecidedInv
  <2> QED BY <2>1, <2>2
<1>16. PlanInv'
  <2>1. \A p \in Plans : <<"plan", p>> \notin stray' => <<"plan", p>> \notin stray
    BY <1>10
  <2>2. \A x \in Approving : <<"plan", x.plan>> \notin stray' => <<"plan", x.plan>> \notin stray
    BY <1>10
  <2> QED BY <1>8, <1>9, <1>11, <2>1, <2>2 DEF WorkInv, PlanInv
<1> QED BY <1>14, <1>15, <1>16 DEF WorkInv

LEMMA SendsStay ==
  ASSUME NEW cs, net' = net \union cs, UNCHANGED <<db, stray, overlaps>>, \A x \in cs : x.phase = "sent"
  PROVE  Stays
BY DEF Stays, Joining, Approving, Doing

LEMMA HearsStay ==
  ASSUME PageInv, NEW c \in net,
         \/ HearRead(c) \/ HearDecision(c) \/ HearDecided(c) \/ HearUnhandled(c)
         \/ HearPlan(c) \/ HearNoPlan(c) \/ HearExists(c) \/ HearJoined(c)
  PROVE  Stays
<1>1. ~Doing(c) /\ UNCHANGED <<db, stray, overlaps>>
  BY DEF HearRead, HearDecision, HearDecided, HearUnhandled, HearPlan, HearNoPlan, HearExists, HearJoined,
         Hears, Shown, Drops, Same, History, Doing
<1>2. CASE net' = net \ {c}
  BY <1>1, <1>2 DEF Stays, Joining, Approving, Doing
<1>3. CASE HearDecision(c) \/ HearDecided(c)
  <2> DEFINE b == Call(c.by, "read")
  <2>1. b.op = "read"
    BY DEF Call
  <2>2. \E d : net' = (net \ {c}) \union {d} /\ d.op = "read"
    <3> DEFINE e == [b EXCEPT !.back = TRUE]
               f == [b EXCEPT !.at = "plans"]
    <3>1. net' = (net \ {c}) \union {e} \/ net' = (net \ {c}) \union {f}
      BY <1>3 DEF HearDecision, HearDecided
    <3>2. e.op = "read" /\ f.op = "read"
      BY DEF Call
    <3> HIDE DEF e, f
    <3> QED BY <3>1, <3>2
  <2>3. PICK d : net' = (net \ {c}) \union {d} /\ d.op = "read"
    BY <2>2
  <2> QED BY <1>1, <2>3, AsideStays
<1>4. CASE ~(HearDecision(c) \/ HearDecided(c))
  <2>1. net' = net \ {c}
    BY <1>4 DEF HearRead, HearUnhandled, HearPlan, HearNoPlan, HearExists, HearJoined, Shown, Drops
  <2> QED BY <1>2, <2>1
<1> QED BY <1>3, <1>4

LEMMA WorkInit == Init => WorkInv
<1> SUFFICES ASSUME Init PROVE WorkInv
  OBVIOUS
<1> DEFINE d == [joins |-> scene.joins, plans |-> scene.plans, members |-> {}, made |-> {}]
<1>1. scene \in Scenes /\ db = d /\ net = {}
  BY DEF Init
<1>2. db.joins = scene.joins /\ db.plans = scene.plans /\ db.members = {} /\ db.made = {}
  BY <1>1
<1> HIDE DEF d
<1>3. /\ \A i \in Ids : db.joins[i].status # "approved"
      /\ \A p \in Plans : db.plans[p].status # "approved"
      /\ \A i, j \in Ids : db.joins[i].status \in Live /\ db.joins[j].status \in Live
                           /\ db.joins[i].by = db.joins[j].by => i = j
  BY <1>1, <1>2, AskedAssumption
<1>4. Joining = {} /\ Approving = {} /\ \A p : MadeOf(p) = {}
  BY <1>1, <1>2 DEF Joining, Approving, MadeOf
<1>5. JoinInv
  BY <1>3, <1>4 DEF JoinInv, LiveOf
<1>6. DecidedInv
  BY <1>2, <1>3 DEF DecidedInv
<1>7. PlanInv
  BY <1>2, <1>3, <1>4 DEF PlanInv
<1> QED BY <1>5, <1>6, <1>7 DEF WorkInv

LEMMA WorkStep == PageInv /\ WorkInv /\ [Next]_vars => WorkInv'
<1> SUFFICES ASSUME PageInv, WorkInv, [Next]_vars PROVE WorkInv'
  OBVIOUS
<1>1. TypeInv /\ TalkInv
  BY DEF PageInv
<1>2. CASE Person
  <2>1. PICK u \in Users :
          \/ OpenJoinRequest(u) \/ CancelSideScreen(u) \/ Filter(u) \/ AcceptJoinRequest(u)
          \/ AskDecline(u) \/ AskDelete(u) \/ GiveReason(u) \/ CancelDialog(u) \/ ConfirmDialog(u)
          \/ OpenCollaborationRequest(u) \/ UpdateName(u) \/ Approve(u) \/ AskDeny(u)
          \/ AskDeleteRequest(u) \/ ConfirmRequest(u)
          \/ JoinRequestAction(u) \/ SubmitJoin(u) \/ GotoHome(u)
    BY <1>2 DEF Person
  <2>2. CASE OpenCollaborationRequest(u)
    <3>1. PICK p \in Plans : Opens(u, p)
      BY <1>1, <2>2, OpenActs
    <3>2. PICK c : Sent(c, u, "readPlan") /\ net' = net \union {c}
      BY <3>1 DEF Opens
    <3> DEFINE cs == {c}
    <3>3. net' = net \union cs /\ UNCHANGED <<db, stray, overlaps>> /\ \A x \in cs : x.phase = "sent"
      BY <3>1, <3>2 DEF Opens, History, Sent
    <3> HIDE DEF cs
    <3> QED BY <3>3, SendsStay, StaysWork
  <2>3. CASE ~OpenCollaborationRequest(u)
    <3>1. PICK q, cs : Acts(u, q, cs)
      BY <1>1, <2>1, <2>3, PersonActs
    <3>2. net' = net \union cs /\ UNCHANGED <<db, stray, overlaps>> /\ \A x \in cs : x.phase = "sent"
      BY <3>1 DEF Acts, Fresh, Same, History
    <3> QED BY <3>2, SendsStay, StaysWork
  <2> QED BY <2>2, <2>3
<1>3. CASE Server
  <2>1. PICK c \in net :
          \/ ServeRead(c) \/ ServePlan(c) \/ ServeExists(c)
          \/ BeginJoin(c) \/ CommitJoin(c) \/ BeginAccept(c) \/ CommitAccept(c)
          \/ BeginDeny(c) \/ CommitDeny(c) \/ BeginDelete(c) \/ CommitDelete(c)
          \/ BeginApprove(c) \/ CommitApprove(c)
    BY <1>3 DEF Server
  <2>2. CASE ServeRead(c) \/ ServePlan(c) \/ ServeExists(c) \/ BeginAccept(c) \/ BeginDeny(c) \/ BeginDelete(c)
    BY <1>1, <2>2, ServesStay, StaysWork
  <2>3. CASE CommitDeny(c) \/ CommitDelete(c)
    <3>1. c.op \in {"decline", "delete"} \/ c.op \in {"deny", "drop"}
      BY <2>3 DEF CommitDeny, CommitDelete, Goes
    <3> QED BY <1>1, <2>3, <3>1, RejectWork, RefuseWork
  <2>4. CASE BeginJoin(c) \/ CommitJoin(c) \/ CommitAccept(c) \/ BeginApprove(c) \/ CommitApprove(c)
    BY <1>1, <2>4, BeginJoinWork, CommitJoinWork, AcceptWork, BeginApproveWork, CommitApproveWork
  <2> QED BY <2>1, <2>2, <2>3, <2>4
<1>4. CASE Browser
  <2>1. CASE \E u \in Users : Receive(u)
    <3>1. PICK u \in Users : Receive(u)
      BY <2>1
    <3>2. UNCHANGED <<db, stray, overlaps>> /\ (net' = net \/ net' = net \union {Call(u, "read")})
      BY <3>1 DEF Receive, History, Sends
    <3>3. Call(u, "read").phase = "sent"
      BY DEF Call
    <3>4. CASE net' = net
      BY <3>2, <3>4, StaysWork DEF Stays, Joining, Approving, Doing
    <3>5. CASE net' = net \union {Call(u, "read")}
      <4> DEFINE cs == {Call(u, "read")}
      <4>1. net' = net \union cs /\ \A x \in cs : x.phase = "sent"
        BY <3>3, <3>5
      <4> HIDE DEF cs
      <4> QED BY <3>2, <4>1, SendsStay, StaysWork
    <3> QED BY <3>2, <3>4, <3>5
  <2>2. CASE ~\E u \in Users : Receive(u)
    BY <1>4, <2>2, HearsStay, StaysWork DEF Browser
  <2> QED BY <2>1, <2>2
<1>5. CASE UNCHANGED vars
  BY <1>5, StaysWork DEF vars, Stays, Joining, Approving, Doing
<1> QED BY <1>2, <1>3, <1>4, <1>5 DEF Next

(* A handler that joins alone knows every request there is of its user; an *)
(* approval that is alone has made the one collaboration of its request.   *)
THEOREM WorkIsAlone == Spec => []WorkInv
<1>1. PageInv /\ WorkInv /\ [Next]_vars => (PageInv /\ WorkInv)'
  BY PageStep, WorkStep
<1> QED BY <1>1, PageInit, WorkInit, PTL DEF Spec

(* Who asks again replaces the request that was there.                     *)
THEOREM OneIsOpen == Spec => []OneOpenRequest
<1>1. WorkInv => OneOpenRequest
  <2> SUFFICES ASSUME WorkInv, NEW r \in Requesters \ overlaps
               PROVE  Cardinality({i \in Ids : db.joins[i].by = r /\ db.joins[i].status = "open"}) <= 1
    BY DEF OneOpenRequest
  <2> DEFINE open == {i \in Ids : db.joins[i].by = r /\ db.joins[i].status = "open"}
  <2>1. \A i, j \in open : i = j
    BY DEF WorkInv, JoinInv, LiveOf, Live
  <2> HIDE DEF open
  <2>2. (\E i : open = {i}) \/ open = {}
    BY <2>1
  <2>3. Cardinality({}) = 0 /\ \A i : Cardinality({i}) = 1
    BY FS_EmptySet, FS_Singleton
  <2>4. Cardinality(open) = 0 \/ Cardinality(open) = 1
    BY <2>2, <2>3, Zenon
  <2>5. Cardinality(open) <= 1
    BY <2>4
  <2> QED BY <2>5 DEF open
<1> QED BY <1>1, WorkIsAlone, PTL

(* A status agrees with the memberships and the collaborations.            *)
THEOREM StatusIsTrue == Spec => []DecisionsStand
<1>1. WorkInv => DecisionsStand
  <2> SUFFICES ASSUME WorkInv PROVE DecisionsStand
    OBVIOUS
  <2>1. \A m, k \in db.made : m.name = k.name => m = k
    BY DEF WorkInv, PlanInv
  <2>2. \A i \in Ids : <<"join", i>> \notin stray =>
          /\ db.joins[i].status \in {"open", "denied"} => db.joins[i].by \notin db.members \/ db.joins[i].by \in overlaps
          /\ db.joins[i].status = "approved" => db.joins[i].by \in db.members
    BY DEF WorkInv, DecidedInv
  <2>3. ASSUME NEW p \in Plans, <<"plan", p>> \notin stray
        PROVE  /\ db.plans[p].status = "denied" => MadeOf(p) = {}
               /\ db.plans[p].status = "open" /\ MadeOf(p) # {} => \E c \in net : Goes(c, "approve") /\ c.plan = p
               /\ db.plans[p].status = "approved" => Cardinality(MadeOf(p)) = 1
    <3>1. db.plans[p].status = "approved" => \E m : MadeOf(p) = {m}
      BY <2>3 DEF WorkInv, PlanInv
    <3>2. \A m : Cardinality({m}) = 1
      BY FS_Singleton
    <3>3. db.plans[p].status = "open" /\ MadeOf(p) # {} => \E c \in Approving : c.plan = p
      BY <2>3 DEF WorkInv, PlanInv
    <3>4. \A c \in Approving : c \in net /\ Goes(c, "approve")
      BY DEF Approving, Doing, Goes
    <3> QED BY <2>3, <3>1, <3>2, <3>3, <3>4 DEF WorkInv, PlanInv
  <2> QED BY <2>1, <2>2, <2>3 DEF DecisionsStand, MadeOf
<1> QED BY <1>1, WorkIsAlone, PTL
===============================================================================
