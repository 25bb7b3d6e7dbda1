---------------------------- MODULE MCEntityForms -----------------------------
(***************************************************************************)
(* Small instances of EntityForms: one or two users, each with a form.     *)
(***************************************************************************)
EXTENDS EntityForms, TLC
CONSTANTS ann, ben

MCUsers == {ann, ben}
(* Ben has no form open, and does not open one, if he does nothing.        *)
Pair(f, r, ops, n, g, q, others, m) ==
  [form |-> (ann :> f @@ ben :> g), edit |-> {}, role |-> (ann :> r @@ ben :> q),
   ops |-> (ann :> ops @@ ben :> others), budget |-> (ann :> n @@ ben :> m),
   filled |-> IF m = 0 THEN {ann} ELSE {ann, ben},
   homes |-> {"h1"}, creation |-> FALSE, joins |-> TRUE]
Alone(f, r, ops, n) == Pair(f, r, ops, n, "service", "platform", {}, 0)
Opening(s) == [s EXCEPT !.filled = {}]
Editing(s) == [s EXCEPT !.edit = {ann}]
Filling ==
  { \* a collaboration: its names, logo, organisation
    Alone("collaboration", "platform", {"name", "org", "submit"}, 3),
    Alone("collaboration", "platform", {"org", "logo", "short", "submit"}, 3),
    Opening(Alone("collaboration", "manager", {"text", "uri", "message", "leave", "submit"}, 3)),
    Alone("collaboration", "manager", {"invite", "flag", "submit"}, 4),
    \* a request
    Alone("collaboration", "member", {"message", "name", "org", "submit"}, 3),
    [Alone("collaboration", "member", {"name", "org", "submit"}, 3) EXCEPT !.creation = TRUE],
    Opening(Alone("collaboration", "member", {"submit"}, 1)),
    Opening(Alone("collaboration", "stranger", {"submit"}, 1)),
    \* edits
    Editing(Alone("collaboration", "manager", {"name", "flag", "short", "submit", "delete"}, 3)),
    Editing(Opening(Alone("collaboration", "platform", {"short", "leave", "delete", "submit"}, 3))),
    Editing(Opening(Alone("organisation", "platform", {"short", "leave", "delete", "submit"}, 4))),
    Editing([Alone("organisation", "platform", {"homes", "name", "flag", "submit"}, 4)
               EXCEPT !.creation = TRUE]),
    Editing([Alone("organisation", "platform", {"homes", "submit"}, 4) EXCEPT !.homes = {"h1", "h2"}]),
    \* an organisation, a service
    Alone("organisation", "platform", {"homes", "invite", "flag", "submit"}, 4),
    Opening(Alone("organisation", "platform", {"text", "logo", "leave", "submit"}, 3)),
    Alone("service", "platform", {"name", "entity", "short", "submit"}, 3),
    Alone("service", "platform", {"net", "uri", "mail", "submit"}, 3),
    Opening(Alone("service", "platform", {"flag", "logo", "invite", "leave", "submit"}, 3)),
    Opening(Alone("service", "manager", {}, 1)),
    \* invitations
    Alone("members", "manager", {"invite", "dates", "submit"}, 5),
    Opening(Alone("managers", "manager", {"invite", "submit", "leave"}, 4)),
    Opening(Alone("admins", "manager", {"invite", "submit"}, 3)),
    \* two users
    Pair("collaboration", "manager", {"name", "submit"}, 2, "collaboration", "platform", {"org", "submit"}, 2),
    [Pair("organisation", "platform", {"homes", "submit"}, 2, "organisation", "platform", {"flag", "name", "submit"}, 2)
       EXCEPT !.edit = {ann, ben}],
    [Pair("organisation", "platform", {"delete", "homes"}, 2, "collaboration", "manager", {"name", "submit"}, 2)
       EXCEPT !.edit = {ann}],
    Opening([Pair("members", "manager", {"invite", "submit"}, 2, "collaboration", "manager", {"delete", "text", "submit"}, 2)
       EXCEPT !.edit = {ben}]) }
Joining == { Editing([Alone("collaboration", "manager", {"name", "uri", "submit"}, 2) EXCEPT !.joins = FALSE]) }
===============================================================================
