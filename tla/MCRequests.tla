------------------------------ MODULE MCRequests ------------------------------
(***************************************************************************)
(* Small instances of Requests: two reviewers, the guest, and up to four   *)
(* join requests and two requests for a collaboration.                     *)
(***************************************************************************)
EXTENDS Requests, TLC

Asked(by, status) == [by |-> by, status |-> status]
Joins(first, second) == [NoRows EXCEPT ![1] = first, ![2] = second]
None == Asked("jo", "none")
Bid(name, status) == [name |-> name, status |-> status]
(* What ann, bob and the guest do, at which page, how often.               *)
Scene(at, ann, n, bob, m, guest, k) ==
  [at |-> ("ann" :> at @@ "bob" :> at @@ "guest" :> "home"),
   does |-> ("ann" :> ann @@ "bob" :> bob @@ "guest" :> guest),
   budget |-> ("ann" :> n @@ "bob" :> m @@ "guest" :> k),
   joins |-> NoRows, plans |-> NoPlans, closed |-> FALSE, mails |-> {TRUE}]
Guest(s, at) == [s EXCEPT !.at["guest"] = at]
Alone(s) == [s EXCEPT !.at["bob"] = "away"]
Failing(s) == [s EXCEPT !.mails = {TRUE, FALSE}]
With(s, first, second) == [s EXCEPT !.joins = Joins(first, second)]
For(s, first, second) == [s EXCEPT !.plans = ("p1" :> first @@ "p2" :> second)]
NoBid == Bid("", "none")
Both == {"open", "accept", "decline"}
MCScenes ==
  { \* one request, two reviewers who decide on it
    Guest(With(Scene("joins", {"open", "accept"}, 2, Both, 4, {}, 0), Asked("guest", "open"), None), "away"),
    \* its requester, who looks on
    Failing(Alone(With(Scene("joins", Both, 4, {}, 0, {"filter"}, 1), Asked("guest", "open"), None))),
    \* two requests: dialogs that stay while requests go, selections and filters too
    Guest(With(Scene("joins", {"open", "delete"}, 3, {"open", "delete"}, 3, {}, 0),
               Asked("jo", "denied"), Asked("guest", "denied")), "away"),
    Guest(With(Scene("joins", {"open", "back", "filter", "delete"}, 4, {"open", "accept"}, 2, {}, 0),
               Asked("jo", "denied"), Asked("guest", "open")), "away"),
    \* the guest asks, once or twice, beside a decision on an earlier request
    Alone(Guest(Scene("joins", {}, 0, {}, 0, {"join", "leave"}, 5), "register")),
    Alone(Guest(With(Scene("joins", {"open", "accept"}, 2, {}, 0, {"join", "leave"}, 4),
               Asked("guest", "open"), None), "register")),
    Failing(Alone(Guest(With(Scene("joins", {"open", "decline"}, 4, {}, 0, {"join"}, 3),
               Asked("guest", "open"), Asked("jo", "open")), "register"))),
    [Guest(Scene("joins", {}, 0, {}, 0, {"join"}, 2), "register") EXCEPT !.closed = TRUE],
    \* requests for a collaboration
    Guest(For(Scene("plans", {"open", "approve", "decline"}, 4, {"open", "approve", "decline"}, 4, {}, 0),
        Bid("n1", "open"), NoBid), "away"),
    For(Scene("plans", {"open", "approve", "name"}, 3, {"open", "approve"}, 2, {}, 0),
        Bid("n1", "open"), Bid("n2", "open")),
    For(Scene("plans", {"open", "decline", "delete"}, 4, {"open", "approve", "delete"}, 3, {}, 0),
        Bid("n1", "open"), Bid("n2", "denied")),
    Failing(For(Scene("plans", {"open", "name", "approve"}, 4, {}, 0, {}, 0), Bid("n1", "open"), NoBid)) }
===============================================================================
