------------------------- MODULE MCServiceConnections -------------------------
(***************************************************************************)
(* Small instances of ServiceConnections: up to two administrators of the  *)
(* collaboration and two of the service, three pairs, three requests.      *)
(***************************************************************************)
EXTENDS ServiceConnections, TLC

C1S1 == <<"c1", "s1">>
C1S2 == <<"c1", "s2">>
C2S1 == <<"c2", "s1">>
(* Who does what, how often, with these requests.                          *)
Who(u, at, does, n) == [who |-> u, at |-> at, does |-> does, n |-> n]
Scene(people, linked, first) ==
  [at |-> [u \in Users |-> IF \E x \in people : x.who = u
                           THEN (CHOOSE x \in people : x.who = u).at ELSE "away"],
   does |-> [u \in Users |-> UNION {x.does : x \in {y \in people : y.who = u}}],
   budget |-> [u \in Users |-> IF \E x \in people : x.who = u
                               THEN (CHOOSE x \in people : x.who = u).n ELSE 0],
   linked |-> linked, reqs |-> [i \in Ids |-> IF i = 1 THEN first ELSE NoRequest],
   automatic |-> {"s2"}, policy |-> {"s2"}, mails |-> {TRUE}]
Failing(s) == [s EXCEPT !.mails = {TRUE, FALSE}]
Demanding(s) == [s EXCEPT !.policy = {"s1", "s2"}]
Ask(pair, member) == [pair |-> pair, member |-> member, status |-> "open"]
MCScenes ==
  { \* two administrators of the collaboration connect and disconnect beside each other
    Scene({Who("ann", "services", {"link"}, 2), Who("bob", "services", {"link"}, 2)}, {C1S1}, NoRequest),
    Scene({Who("ann", "services", {"unlink", "link"}, 5)}, {}, NoRequest),
    Scene({Who("ann", "services", {"unlink"}, 2), Who("bob", "services", {"unlink"}, 2)}, {C1S1, C1S2}, NoRequest),
    \* they ask for a connection, send the request again and take it back
    Failing(Scene({Who("ann", "services", {"ask", "resend", "remove", "back"}, 5)}, {}, NoRequest)),
    Failing(Scene({Who("ann", "services", {"resend", "remove", "link"}, 3)}, {}, Ask(C1S1, FALSE))),
    Demanding(Scene({Who("ann", "services", {"ask", "back"}, 4)}, {C1S2}, NoRequest)),
    Scene({Who("ann", "services", {"ask"}, 3), Who("bob", "services", {"ask"}, 3)}, {C1S2}, NoRequest),
    \* the service decides, on its page or by the link of a mail
    Scene({Who("ann", "services", {"remove"}, 2), Who("sam", "requests", {"open", "deny"}, 3)},
          {}, Ask(C1S1, FALSE)),
    Scene({Who("ann", "services", {"remove"}, 2), Who("sue", "mail", {"approve"}, 1)}, {}, Ask(C1S1, FALSE)),
    Scene({Who("ann", "services", {"ask"}, 3), Who("sam", "requests", {"open", "approve"}, 3)},
          {}, Ask(C2S1, FALSE)),
    Failing(Scene({Who("sam", "requests", {"open", "approve", "deny", "back"}, 4)}, {}, Ask(C1S1, FALSE))),
    Failing(Scene({Who("sue", "mail", {"approve", "deny", "leave"}, 3)}, {}, Ask(C1S1, FALSE))),
    Scene({Who("sue", "mail", {"approve"}, 1), Who("sam", "requests", {"open", "approve"}, 3)},
          {}, Ask(C1S1, FALSE)),
    Scene({Who("ann", "services", {"resend"}, 2), Who("sue", "mail", {"approve"}, 1)}, {}, Ask(C1S1, FALSE)),
    \* a member asked: an administrator decides
    Failing(Scene({Who("ann", "services", {"open", "approve", "deny", "back"}, 3)}, {}, Ask(C1S1, TRUE))),
    Scene({Who("ann", "services", {"open", "approve"}, 3), Who("sue", "mail", {"deny"}, 2)}, {}, Ask(C1S1, TRUE)),
    \* the service disconnects collaborations, one or more at a time
    Scene({Who("sam", "collaborations", {"check", "one", "selected"}, 6)}, {C1S1, C2S1}, NoRequest),
    Scene({Who("sam", "collaborations", {"check", "selected"}, 4), Who("ann", "services", {"unlink"}, 2)},
          {C1S1, C2S1}, NoRequest) }
===============================================================================
