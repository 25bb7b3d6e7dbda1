--------------------------- MODULE MCScimProvision ----------------------------
(* Small instances of ScimProvision.                                       *)
EXTENDS ScimProvision, TLC

CONSTANTS u1, u2, c1, c2, g1, a, b, w1, w2

Parents == [g \in Subs |-> c1]

Db(cos, members, direct, org) ==
  [users |-> Users, cos |-> cos, subs |-> {},
   member |-> [g \in Groups |-> IF g \in DOMAIN members THEN members[g] ELSE {}],
   lapsed |-> [c \in COs |-> {}], direct |-> direct, org |-> org,
   uattr |-> [u \in Users |-> a]]

(* One collaboration with a member, connected.                             *)
OneDirect == {Db({c1}, c1 :> {u1}, {c1}, "unconnected")}

(* Two collaborations that share u1.                                       *)
TwoShared == {Db({c1, c2}, c1 :> {u1, u2} @@ c2 :> {u1}, d, "unconnected") : d \in {{}, {c2}}}
TwoOrganisation == {Db({c1, c2}, c1 :> {u1, u2} @@ c2 :> {u1}, {}, "unconnected")}

DirectOps == {"AddMember", "RemoveMember", "AddGroupMember", "RemoveGroupMember",
              "CreateGroup", "UpdateGroup", "DeleteGroup", "CreateCollaboration",
              "UpdateCollaboration", "DeleteCollaboration", "DeleteUser",
              "ConnectService", "DisconnectService"}
OrganisationOps == {"AddMember", "CreateCollaboration", "DeleteCollaboration", "CreateGroup",
                    "ConnectOrganisation", "DisconnectOrganisation", "DeleteOrganisation",
                    "DeleteUser", "UpdateUser"}
AsyncOps == {"AddMember", "RemoveMember", "AddGroupMember", "RemoveGroupMember",
             "CreateGroup", "UpdateGroup", "DeleteUser", "ExpireMembership"}
RaceOps == {"AddMember", "RemoveMember", "CreateGroup", "AddGroupMember", "DeleteGroup",
            "DeleteUser", "DisconnectService", "DeleteCollaboration"}
ManyOps == {"AddMember", "CreateGroup", "DeleteUser"}

Load(dbs, kinds, n, bad, threads) ==
  [dbs |-> dbs, ops |-> kinds, max |-> n, errors |-> bad,
   threads |-> threads, blocking |-> FALSE]
InTests(dbs, kinds, n) == [Load(dbs, kinds, n, 0, {w1}) EXCEPT !.blocking = TRUE]

(* One request after the other, or one thread and no request that deletes  *)
(* in the web thread.                                                      *)
OrderlyLoads == {InTests(TwoShared, DirectOps, 4), InTests(TwoOrganisation, OrganisationOps, 5),
                 Load(OneDirect, AsyncOps, 4, 0, {w1})}
RacingLoads == {Load(OneDirect, RaceOps, 2, 1, {w1, w2}), Load(OneDirect, ManyOps, 3, 1, {w1})}
MCLoads == OrderlyLoads \union RacingLoads
=============================================================================
