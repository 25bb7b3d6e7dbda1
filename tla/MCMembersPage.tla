---------------------------- MODULE MCMembersPage -----------------------------
(* Small instances of MembersPage.                                         *)
EXTENDS MembersPage

CONSTANTS ann, bob, cas, inv

InviteeIs == [i \in Invites |-> cas]
IntendedIs == [i \in Invites |-> "admin"]
(* The invitation inv has the number of the membership of bob.             *)
IdIs == [r \in Rows |-> CASE r = ann -> 1 [] r \in {bob, inv} -> 2 [] r = cas -> 3]
Start(b, c, i) == [r \in Rows |-> CASE r = ann -> "admin" [] r = bob -> b [] r = cas -> c
                                    [] r = inv -> i]
Scene(p, rows, accept, na, da, nb, db0) ==
  [page |-> p, rows |-> rows, accept |-> accept,
   does |-> [a \in {ann, bob} |-> IF a = ann THEN da ELSE db0],
   budget |-> [a \in {ann, bob} |-> IF a = ann THEN na ELSE nb]]
RaceScenes ==
  { Scene("collaboration", Start("admin", "gone", "open"), FALSE, 1, {"select", "search"}, 0, {}),
    Scene("collaboration", Start("admin", "gone", "lapsed"), FALSE, 1, {"select", "resend"}, 1, {"icon"}),
    Scene("collaboration", Start("member", "gone", "lapsed"), FALSE, 1, {"select", "search", "resend"}, 0, {}),
    Scene("collaboration", Start("admin", "gone", "open"), TRUE, 1, {"icon", "dates"}, 0, {}),
    Scene("collaboration", Start("member", "admin", "gone"), FALSE, 2, {"select", "icon", "role"}, 0, {}),
    Scene("organisation", Start("admin", "gone", "open"), FALSE, 1, {"select"}, 1, {"role"}),
    Scene("organisation", Start("admin", "admin", "lapsed"), FALSE, 1, {"role", "resend"}, 1, {"icon"}),
    Scene("organisation", Start("member", "gone", "lapsed"), FALSE, 1, {"select", "resend"}, 0, {}),
    Scene("service", Start("admin", "gone", "lapsed"), FALSE, 1, {"select", "resend"}, 0, {}),
    Scene("service", Start("admin", "gone", "gone"), FALSE, 1, {"select"}, 1, {"icon"}),
    Scene("service", Start("admin", "gone", "open"), TRUE, 1, {"icon"}, 0, {}),
    \* accepted too late, or by somebody who is in already
    Scene("collaboration", Start("admin", "gone", "lapsed"), TRUE, 1, {"icon", "resend"}, 0, {}),
    Scene("collaboration", Start("admin", "member", "open"), TRUE, 1, {"icon"}, 0, {}),
    Scene("organisation", Start("admin", "gone", "lapsed"), TRUE, 1, {"icon"}, 0, {}),
    Scene("organisation", Start("admin", "member", "open"), TRUE, 1, {"icon"}, 0, {}) }
Searches == {{ann, cas}}
GroupsAre == {{ann}}
=============================================================================
