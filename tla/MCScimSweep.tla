----------------------------- MODULE MCScimSweep ------------------------------
(* Small instances of ScimSweep.                                           *)
EXTENDS ScimSweep, TLC

CONSTANTS u1, u2, g1, g2, a, b

Blank(S, v) == [x \in S |-> v]

(* A collaboration g1 and its group g2, so g2's members are members of g1; *)
(* with the members all there, an attribute of u1 and of g1 that differs.  *)
Db(gs, m, n, x, y) ==
  [groups |-> gs, member |-> [g \in Groups |-> IF g \notin gs THEN {} ELSE IF g = g1 THEN m ELSE n],
   uattr |-> [Blank(Users, a) EXCEPT ![u1] = x], gattr |-> [Blank(Groups, a) EXCEPT ![g1] = y]]
MCDbs ==
  {Db(gs, m, n, a, a) : gs \in {{}, {g1}, Groups}, m \in {{}, {u1}, Users}, n \in SUBSET {u1}}
    \union {Db(Groups, Users, {u1}, x, y) : x \in Attrs, y \in Attrs}

Slots(f) == [i \in Ids |-> IF i \in DOMAIN f THEN f[i] ELSE Unused]
U(u, x) == [ext |-> u, attr |-> x]
G(g, x, m) == [ext |-> g, attr |-> x, members |-> m]

(* A remote server that is empty, or left behind by earlier sweeps and     *)
(* tasks: in sync or with a stale attribute, a member deleted, a dangling  *)
(* member, a group gone.                                                   *)
MCRemotes ==
  { <<Slots(<<>>), Slots(<<>>)>>,
    <<Slots(1 :> U(u1, a) @@ 2 :> U(u2, b)), Slots(1 :> G(g1, a, {1}))>>,
    <<Slots(1 :> U(u1, a) @@ 2 :> U(u2, a)), Slots(1 :> G(g1, a, {1, 2}) @@ 2 :> G(g2, a, {1}))>>,
    <<Slots(1 :> Gone @@ 2 :> U(u1, a)), Slots(1 :> G(g1, b, {1, 2}))>>,
    <<Slots(1 :> U(u1, b) @@ 2 :> U(u2, a)), Slots(1 :> Gone @@ 2 :> G(g2, a, {1, 2}))>> }
=============================================================================
