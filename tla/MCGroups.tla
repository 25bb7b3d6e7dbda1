------------------------------- MODULE MCGroups --------------------------------
(***************************************************************************)
(* Small instances of Groups: two administrators, up to three groups and   *)
(* two members, one to three operations of each.                           *)
(***************************************************************************)
EXTENDS Groups, TLC
CONSTANTS ann, ben, g1, g2, g3, x, y, m1, m2

Absent == [at |-> "none", name |-> None, short |-> None, auto |-> FALSE, rows |-> (m1 :> 0 @@ m2 :> 0), service |-> FALSE]
Has(name, auto, ms) == [at |-> "here", name |-> name, short |-> name, auto |-> auto, service |-> FALSE,
                        rows |-> [m \in {m1, m2} |-> IF m \in ms THEN 1 ELSE 0]]
Scene(gs, ms, anns, n, bens, k) ==
  [groups |-> gs @@ [i \in {g1, g2, g3} |-> Absent], members |-> ms, guests |-> {}, leavers |-> {},
   opened |-> (ann :> None @@ ben :> None),
   platform |-> {}, drafts |-> (ann :> None @@ ben :> None), does |-> (ann :> anns @@ ben :> bens), budget |-> (ann :> n @@ ben :> k)]
Joining(s) == [s EXCEPT !.guests = {m2}]
Leaving(s) == [s EXCEPT !.leavers = {m1}]
Opened(s, i, j) == [s EXCEPT !.opened = (ann :> i @@ ben :> j)]
Drafted(s, anns, bens) == [s EXCEPT !.drafts = (ann :> anns @@ ben :> bens)]
Platform(s) == [s EXCEPT !.platform = {ann}]
(* A service makes a group and names it; its short name has a dash.        *)
Served(s) == [s EXCEPT !.groups[g1].service = TRUE, !.groups[g1].short = y]
MCScenes ==
  { \* names: made beside each other, edited beside each other
    Drafted(Scene(<<>>, {}, {"name", "save"}, 2, {"name", "save"}, 2), x, x),
    Drafted(Scene(<<>>, {}, {"name", "save"}, 2, {"name", "save"}, 2), x, y),
    Opened(Scene(g1 :> Has(x, FALSE, {}) @@ g2 :> Has(y, FALSE, {}), {},
                 {"edit", "name", "save"}, 3, {"edit", "name", "save"}, 3), g1, g2),
    Drafted(Opened(Scene(g1 :> Has(x, FALSE, {}), {}, {"name", "save"}, 2, {"edit", "name", "save"}, 3), None, g1), y, None),
    Drafted(Opened(Platform(Scene(g1 :> Has(x, FALSE, {}), {}, {"edit", "short", "save"}, 3,
                                  {"name", "short", "save"}, 3)), g1, None), None, y),
    Opened(Platform(Scene(g1 :> Has(x, FALSE, {}) @@ g2 :> Has(y, FALSE, {}), {},
                          {"edit", "short", "save"}, 4, {"edit", "name", "save"}, 3)), g1, g1),
    Opened(Served(Scene(g1 :> Has(x, FALSE, {}), {m1}, {"new", "name", "short", "save"}, 4, {"edit", "auto", "save"}, 3)), None, g1),
    Opened(Served(Scene(g1 :> Has(x, FALSE, {m1}), {m1}, {"edit", "auto", "save"}, 3, {"remove"}, 2)), g1, g1),
    Opened(Joining(Served(Scene(g1 :> Has(x, FALSE, {m1}), {m1}, {"edit", "auto", "save"}, 3, {}, 0))), g1, g1),
    Opened(Leaving(Served(Scene(g1 :> Has(x, TRUE, {m1, m2}), {m1, m2}, {"edit", "auto", "save"}, 4, {}, 0))), g1, g1),
    \* members of a group that has them all
    Drafted(Joining(Scene(<<>>, {m1}, {"name", "auto", "save"}, 3, {"goto", "remove"}, 2)), x, None),
    Opened(Scene(g1 :> Has(x, FALSE, {m1}), {m1, m2}, {"edit", "auto", "save"}, 3, {"remove"}, 2), g1, g1),
    Opened(Joining(Scene(g1 :> Has(x, FALSE, {}), {m1}, {"edit", "auto", "save"}, 3, {"add"}, 1)), g1, g1),
    Opened(Leaving(Scene(g1 :> Has(x, FALSE, {m2}), {m1, m2}, {"edit", "auto", "save"}, 3, {"add"}, 1)), g1, g1),
    Opened(Joining(Scene(g1 :> Has(x, TRUE, {m1}), {m1}, {"edit", "auto", "save", "delete", "back"}, 4, {"remove"}, 2)), g1, g1),
    \* added and removed twice, deleted meanwhile
    Opened(Scene(g1 :> Has(x, FALSE, {}), {m1}, {"add", "remove"}, 3, {"add", "remove"}, 3), g1, g1),
    Opened(Scene(g1 :> Has(x, FALSE, {m1}), {m1}, {"edit", "delete"}, 3, {"edit", "delete"}, 3), g1, g1),
    Opened(Scene(g1 :> Has(x, FALSE, {m1}) @@ g2 :> Has(y, FALSE, {}), {m1},
                 {"edit", "delete"}, 3, {"remove", "edit", "save", "add"}, 3), g1, g1) }
===============================================================================
