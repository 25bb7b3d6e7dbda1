------------------------------ MODULE ScimSweep -------------------------------
(***************************************************************************)
(* The periodic sweep of one service (scim/sweep.py), called by the cron   *)
(* job scim_sweep_services: it reads the groups and users of the service   *)
(* from the database, lists what the remote SCIM server holds, deletes     *)
(* what should not be there, and then creates or updates every user and    *)
(* every group.  One step is one HTTP call; an answer with an error status *)
(* is logged and the sweep goes on, an exception (a timeout, a crash of    *)
(* the process) ends it.  Names that the models of the other jobs have too *)
(* are marked with Sweep.                                                  *)
(***************************************************************************)
EXTENDS ScimRemote

CONSTANTS
  DbStates,       \* the states of the database the run lets the handlers reach
  RemoteInit,     \* the states <<users, groups>> the remote server may start in
  RemoveOrphans,  \* service.sweep_remove_orphans
  MaxFailures,    \* bound: error answers and exceptions in a behaviour
  MaxChanges      \* bound: changes of the database in a behaviour

(* The part of the database the sweep reads.  member[g] holds the user of  *)
(* every membership whatever its status: "if member.is_active" tests the   *)
(* bound method, which is always true.                                     *)
Database == [groups : SUBSET Groups,
             member : [Groups -> SUBSET Users],
             uattr  : [Users -> Attrs],
             gattr  : [Groups -> Attrs]]

(* A member value that is an id was given out by a POST before.            *)
RefsUsed(users, groups) ==
  \A i \in Live(groups) : \A j \in groups[i].members \cap Ids : users[j] # Unused

ASSUME SweepAssumption ==
  /\ DbStates \subseteq Database
  /\ \A s \in RemoteInit : /\ s[1] \in RemoteUsers
                           /\ s[2] \in RemoteGroups
                           /\ RefsUsed(s[1], s[2])
  /\ RemoveOrphans \in BOOLEAN
  /\ MaxFailures \in Nat
  /\ MaxChanges \in Nat

VARIABLES
  db,        \* the database
  ru, rg,    \* the remote users and groups
  pc,        \* where the sweep is
  snap,      \* all_groups and all_users, as the sweep read them
  lg, lu,    \* remote_scim_groups and remote_scim_users, as listed
  ubx,       \* remote_users_by_external_id
  todo,      \* what the current loop has still to visit
  wrote,     \* sync_results has an entry
  base,      \* what is known of this sweep (history variable, see Base)
  sweepFailures, changes

sweepVars == <<pc, snap, lg, lu, ubx, todo, wrote, base>>
scimVars == <<db, ru, rg, sweepVars, sweepFailures, changes>>

Phases == {"idle", "listGroups", "listUsers", "delGroups", "delUsers",
           "users", "groups", "done"}

NoObjects == [i \in Ids |-> Unused]
EmptyDb == [groups |-> {},
            member |-> [g \in Groups |-> {}],
            uattr  |-> [u \in Users |-> CHOOSE a \in Attrs : TRUE],
            gattr  |-> [g \in Groups |-> CHOOSE a \in Attrs : TRUE]]

(* Members of a group are members of its collaboration, so the users the   *)
(* service reaches through memberships are the members of its groups.      *)
ScimUsers(d) == UNION {d.member[g] : g \in d.groups}

(* A dict comprehension over a listing keeps the last object of a key.     *)
LastWith(r, x) ==
  IF With(r, x) = {} THEN None
  ELSE CHOOSE i \in With(r, x) : \A j \in With(r, x) : j <= i

(***************************************************************************)
(* What the remote server should hold for the database d.                  *)
(***************************************************************************)
Wanted(d, g) == g \in d.groups /\ (RemoveOrphans => d.member[g] # {})

UsersMirror(d, users) ==
  /\ Unique(users)
  /\ \A i \in Live(users) : users[i].ext \in ScimUsers(d)
  /\ \A u \in ScimUsers(d) :
       \E i \in Live(users) : users[i] = [ext |-> u, attr |-> d.uattr[u]]

GroupMirrors(d, users, obj) ==
  /\ Wanted(d, obj.ext)
  /\ obj.attr = d.gattr[obj.ext]
  /\ Resolve(users, obj.members) = d.member[obj.ext]

GroupsMirror(d, users, groups) ==
  /\ Unique(groups)
  /\ \A i \in Live(groups) : GroupMirrors(d, users, groups[i])
  /\ \A g \in Groups : Wanted(d, g) => \E i \in Live(groups) : groups[i].ext = g

Mirrored(d, users, groups) ==
  UsersMirror(d, users) /\ GroupsMirror(d, users, groups)

(* "other" once an answer was an error or when the remote server held      *)
(* duplicates at the start; "mirrored" when it was in sync already.        *)
Base == {"mirrored", "unique", "other"}
BaseOf(d, users, groups) ==
  IF Mirrored(d, users, groups) THEN "mirrored"
  ELSE IF Unique(users) /\ Unique(groups) THEN "unique" ELSE "other"

SweepInit ==
  /\ db \in DbStates
  /\ \E s \in RemoteInit : ru = s[1] /\ rg = s[2]
  /\ pc = "idle" /\ snap = EmptyDb
  /\ lg = NoObjects /\ lu = NoObjects
  /\ ubx = [u \in Users |-> None]
  /\ todo = {} /\ wrote = FALSE /\ base = "other"
  /\ sweepFailures = 0 /\ changes = 0

(* validate_response: an error status is logged, nothing else.             *)
Answer(ok) ==
  \/ ok /\ UNCHANGED <<sweepFailures, base>>
  \/ /\ ~ok /\ sweepFailures < MaxFailures
     /\ sweepFailures' = sweepFailures + 1
     /\ base' = "other"

-----------------------------------------------------------------------------
(* The two queries of repo.py, in one transaction.                         *)
StartSweep ==
  /\ pc = "idle"
  /\ pc' = "listGroups"
  /\ snap' = db
  /\ base' = BaseOf(db, ru, rg)
  /\ UNCHANGED <<db, ru, rg, lg, lu, ubx, todo, wrote, sweepFailures, changes>>

ListGroups(ok) ==
  /\ pc = "listGroups"
  /\ pc' = "listUsers"
  /\ Answer(ok)
  /\ lg' = IF ok THEN rg ELSE NoObjects
  /\ UNCHANGED <<db, ru, rg, snap, lu, ubx, todo, wrote, changes>>

UnknownGroups == {i \in Live(lg) : lg[i].ext \notin snap.groups}

(* Mutant: users of the whole platform are kept, not those of the service. *)
UnknownToPlatform == {i \in Live(lu) : lu[i].ext \notin Users}

UnknownUsers == {i \in Live(lu) : lu[i].ext \notin ScimUsers(snap)}

ListUsers(ok) ==
  /\ pc = "listUsers"
  /\ pc' = "delGroups"
  /\ Answer(ok)
  /\ lu' = IF ok THEN ru ELSE NoObjects
  /\ ubx' = [u \in Users |-> LastWith(lu', u)]
  /\ todo' = UnknownGroups
  /\ UNCHANGED <<db, ru, rg, snap, lg, wrote, changes>>

DeleteGroup(i, ok) ==
  /\ pc = "delGroups" /\ i \in todo
  /\ Answer(ok)
  /\ rg' = IF ok THEN Delete(rg, i) ELSE rg
  /\ wrote' = (wrote \/ ok)
  /\ todo' = todo \ {i}
  /\ UNCHANGED <<db, ru, pc, snap, lg, lu, ubx, changes>>

DeleteUser(i, ok) ==
  /\ pc = "delUsers" /\ i \in todo
  /\ Answer(ok)
  /\ ru' = IF ok THEN Delete(ru, i) ELSE ru
  /\ wrote' = (wrote \/ ok)
  /\ todo' = todo \ {i}
  /\ UNCHANGED <<db, rg, pc, snap, lg, lu, ubx, changes>>

NextLoop(from, to, work) ==
  /\ pc = from /\ todo = {}
  /\ pc' = to
  /\ todo' = work
  /\ UNCHANGED <<db, ru, rg, snap, lg, lu, ubx, wrote, base, sweepFailures, changes>>

EndDelGroups == NextLoop("delGroups", "delUsers", UnknownUsers)
EndDelUsers  == NextLoop("delUsers", "users", ScimUsers(snap))
EndUsers     == NextLoop("users", "groups", snap.groups)
EndGroups    == NextLoop("groups", "done", {})

-----------------------------------------------------------------------------
(* create_user_template, update_user_template                              *)
UserTemplate(u) == [ext |-> u, attr |-> snap.uattr[u]]

UserChanged(u) == lu[ubx[u]].attr # snap.uattr[u]

(* Mutant: the answer of the POST is not kept for the membership lookup.   *)
PostUserForgetsAnswer(u, ok) ==
  /\ pc = "users" /\ u \in todo /\ ubx[u] = None
  /\ ok /\ Answer(ok)
  /\ \E i \in Ids : IsFresh(ru, i) /\ ru' = Post(ru, i, UserTemplate(u))
  /\ wrote' = TRUE /\ todo' = todo \ {u}
  /\ UNCHANGED <<db, rg, pc, snap, lg, lu, ubx, changes>>

(* The answer of the POST is the remote user for the membership lookup.    *)
PostUser(u, ok) ==
  /\ pc = "users" /\ u \in todo
  /\ ubx[u] = None
  /\ Answer(ok)
  /\ \/ /\ ok
        /\ \E i \in Ids : /\ IsFresh(ru, i)
                          /\ ru' = Post(ru, i, UserTemplate(u))
                          /\ ubx' = [ubx EXCEPT ![u] = i]
     \/ ~ok /\ UNCHANGED <<ru, ubx>>
  /\ wrote' = (wrote \/ ok)
  /\ todo' = todo \ {u}
  /\ UNCHANGED <<db, rg, pc, snap, lg, lu, changes>>

PutUser(u, ok) ==
  /\ pc = "users" /\ u \in todo
  /\ ubx[u] # None
  /\ UserChanged(u)
  /\ Answer(ok)
  /\ ru' = IF ok THEN Put(ru, ubx[u], UserTemplate(u)) ELSE ru
  /\ wrote' = (wrote \/ ok)
  /\ todo' = todo \ {u}
  /\ UNCHANGED <<db, rg, pc, snap, lg, lu, ubx, changes>>

KeepUser(u) ==
  /\ pc = "users" /\ u \in todo
  /\ ubx[u] # None
  /\ ~UserChanged(u)
  /\ todo' = todo \ {u}
  /\ UNCHANGED <<db, ru, rg, pc, snap, lg, lu, ubx, wrote, base, sweepFailures, changes>>

-----------------------------------------------------------------------------
(* _memberships: a user without a remote object stands in as externalId.   *)
Memberships(g) == {IF ubx[u] = None THEN u ELSE ubx[u] : u \in snap.member[g]}

GroupTemplate(g) ==
  [ext |-> g, attr |-> snap.gattr[g], members |-> Memberships(g)]

(* The sorted lists of external ids differ.  Remote members are looked up  *)
(* in the listing of users taken at the start; values it does not hold are *)
(* dropped.  Two members of one externalId make the lists differ.          *)
MembersChanged(g, obj) ==
  \/ Resolve(lu, obj.members) # snap.member[g]
  \/ \E i, j \in obj.members \cap Live(lu) : i # j /\ lu[i].ext = lu[j].ext

GroupChanged(g, obj) == obj.attr # snap.gattr[g] \/ MembersChanged(g, obj)

IsOrphan(g) == RemoveOrphans /\ Memberships(g) = {}

DropGroup(g, ok) ==
  /\ pc = "groups" /\ g \in todo
  /\ IsOrphan(g) /\ LastWith(lg, g) # None
  /\ Answer(ok)
  /\ rg' = IF ok THEN Delete(rg, LastWith(lg, g)) ELSE rg
  /\ wrote' = (wrote \/ ok)
  /\ todo' = todo \ {g}
  /\ UNCHANGED <<db, ru, pc, snap, lg, lu, ubx, changes>>

PostGroup(g, ok) ==
  /\ pc = "groups" /\ g \in todo
  /\ ~IsOrphan(g) /\ LastWith(lg, g) = None
  /\ Answer(ok)
  /\ \/ /\ ok
        /\ \E i \in Ids : /\ IsFresh(rg, i)
                          /\ rg' = Post(rg, i, GroupTemplate(g))
     \/ ~ok /\ UNCHANGED rg
  /\ wrote' = (wrote \/ ok)
  /\ todo' = todo \ {g}
  /\ UNCHANGED <<db, ru, pc, snap, lg, lu, ubx, changes>>

PutGroup(g, ok) ==
  /\ pc = "groups" /\ g \in todo
  /\ ~IsOrphan(g) /\ LastWith(lg, g) # None
  /\ GroupChanged(g, lg[LastWith(lg, g)])
  /\ Answer(ok)
  /\ rg' = IF ok THEN Put(rg, LastWith(lg, g), GroupTemplate(g)) ELSE rg
  /\ wrote' = (wrote \/ ok)
  /\ todo' = todo \ {g}
  /\ UNCHANGED <<db, ru, pc, snap, lg, lu, ubx, changes>>

KeepGroup(g) ==
  /\ pc = "groups" /\ g \in todo
  /\ \/ IsOrphan(g) /\ LastWith(lg, g) = None
     \/ /\ ~IsOrphan(g) /\ LastWith(lg, g) # None
        /\ ~GroupChanged(g, lg[LastWith(lg, g)])
  /\ todo' = todo \ {g}
  /\ UNCHANGED <<db, ru, rg, pc, snap, lg, lu, ubx, wrote, base, sweepFailures, changes>>

-----------------------------------------------------------------------------
(* The locals of perform_sweep are gone when it returns or raises.         *)
Return ==
  /\ pc' = "idle" /\ snap' = EmptyDb
  /\ lg' = NoObjects /\ lu' = NoObjects
  /\ ubx' = [u \in Users |-> None]
  /\ todo' = {} /\ wrote' = FALSE /\ base' = "other"

Finish == pc = "done" /\ Return /\ UNCHANGED <<db, ru, rg, sweepFailures, changes>>

(* An exception: between two calls, or in a call whose effect the remote   *)
(* server did (the step before) or did not make.                           *)
Abort ==
  /\ pc # "idle" /\ sweepFailures < MaxFailures
  /\ sweepFailures' = sweepFailures + 1
  /\ Return
  /\ UNCHANGED <<db, ru, rg, changes>>

(* A request handler or another cron job commits.                          *)
DbChange ==
  /\ changes < MaxChanges
  /\ changes' = changes + 1
  /\ \E d \in DbStates \ {db} : db' = d
  /\ UNCHANGED <<ru, rg, sweepVars, sweepFailures>>

UserLoopStep(u) == (\E ok \in BOOLEAN : PostUser(u, ok) \/ PutUser(u, ok)) \/ KeepUser(u)
GroupStep(g) ==
  \/ \E ok \in BOOLEAN : DropGroup(g, ok) \/ PostGroup(g, ok) \/ PutGroup(g, ok)
  \/ KeepGroup(g)

SweepStep ==
  \/ StartSweep
  \/ \E ok \in BOOLEAN : ListGroups(ok) \/ ListUsers(ok)
  \/ \E i \in Ids, ok \in BOOLEAN : DeleteGroup(i, ok) \/ DeleteUser(i, ok)
  \/ EndDelGroups \/ EndDelUsers
  \/ \E u \in Users : UserLoopStep(u)
  \/ EndUsers
  \/ \E g \in Groups : GroupStep(g)
  \/ EndGroups
  \/ Finish

SweepNext == SweepStep \/ Abort \/ DbChange

SweepSpec == SweepInit /\ [][SweepNext]_scimVars

(* The cron scheduler starts a sweep whenever one is due and every HTTP    *)
(* call has a timeout of ten seconds, so the sweep always takes its next   *)
(* step; nothing makes the database change or a call fail.                 *)
FairSweepSpec == SweepSpec /\ WF_scimVars(SweepStep)

-----------------------------------------------------------------------------
SweepTypeOK ==
  /\ db \in Database /\ snap \in Database
  /\ ru \in RemoteUsers /\ lu \in RemoteUsers
  /\ rg \in RemoteGroups /\ lg \in RemoteGroups
  /\ pc \in Phases
  /\ ubx \in [Users -> Ids \cup {None}]
  /\ todo \subseteq Ids \cup Users \cup Groups
  /\ wrote \in BOOLEAN /\ base \in Base
  /\ sweepFailures \in 0..MaxFailures /\ changes \in 0..MaxChanges

(* A sweep whose calls all succeeded, begun on a remote server without     *)
(* duplicate externalIds, leaves there exactly the users and groups of the *)
(* database it read, each with the right attributes and members, whatever  *)
(* was there before and whatever the database did meanwhile.               *)
SweepMirrors ==
  pc = "done" /\ base # "other" => Mirrored(snap, ru, rg)

(* A sweep that finds the remote server in sync sends no create, update or *)
(* delete: what it compares is what it wrote.                              *)
SyncedSweepIsSilent == base = "mirrored" => ~wrote

(* No group ever names an id that the remote server has not given out, so  *)
(* an id in a group never comes to stand for a user created later.         *)
MembersWereCreated == RefsUsed(ru, rg)

(* When the database and the network come to rest and the remote server    *)
(* holds no duplicates, it ends up in sync and stays so.                   *)
Converges ==
  <>[](Unique(ru) /\ Unique(rg)) => <>[]Mirrored(db, ru, rg)
=============================================================================
