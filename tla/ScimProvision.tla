---------------------------- MODULE ScimProvision -----------------------------
(***************************************************************************)
(* The propagation of changes to the SCIM server of one service.  A        *)
(* request handler commits its change and submits a task to the executor   *)
(* (scim/events.py); a thread of the executor takes the task, reads the    *)
(* database and makes the HTTP calls (scim/scim.py).  Deletions of a       *)
(* collaboration, of a group, of an organisation and of a connection run   *)
(* their task in the web thread.  One step is one HTTP call or one         *)
(* transaction.  The service is connected to a collaboration directly or   *)
(* through its organisation, of which the model has one.                   *)
(***************************************************************************)
EXTENDS ScimRemote, SequencesExt

CONSTANTS
  COs, Subs,    \* collaborations and the groups in them
  Parent,       \* the collaboration of a group
  AutoGroups,   \* groups with auto_provision_members
  Workers,      \* threads of app.executor
  Web,          \* the thread of a request that runs its task itself
  Loads         \* bound: the loads a behaviour may be put under

ASSUME ProvisionAssumption ==
  /\ Groups = COs \cup Subs /\ COs \cap Subs = {}
  /\ Parent \in [Subs -> COs] /\ AutoGroups \subseteq Subs
  /\ Web \notin Workers
  /\ IsFiniteSet(Users) /\ IsFiniteSet(Groups)
  /\ 1..Cardinality(Users) \subseteq Ids

(* member holds every membership; lapsed those whose status is expired,    *)
(* which only _has_user_service_access tells apart: everywhere else        *)
(* "member.is_active" is the bound method, hence true.                     *)
Tables == [users : SUBSET Users, cos : SUBSET COs, subs : SUBSET Subs,
           member : [Groups -> SUBSET Users], lapsed : [COs -> SUBSET Users],
           direct : SUBSET COs, org : {"connected", "unconnected", "deleted"},
           uattr : [Users -> Attrs]]

(* A load: the states of the database to start in, the kinds of requests   *)
(* and how many of them, how many error answers, exceptions and restarts,  *)
(* the threads of app.executor, or whether it is a BlockingExecutor, as in *)
(* the tests.                                                              *)
ASSUME LoadAssumption ==
  \A l \in Loads : /\ l.dbs \subseteq Tables
                   /\ l.max \in Nat /\ l.errors \in Nat
                   /\ l.threads \subseteq Workers /\ l.blocking \in BOOLEAN

VARIABLES
  load,            \* the load of this behaviour, which never changes
  tables,          \* the database
  rUsers, rGroups, \* the remote users and groups
  queue,           \* tasks submitted to app.executor
  work,            \* what each thread is doing
  ever,            \* who was ever a member (history variable)
  ops, errors

provisionVars ==
  <<load, tables, rUsers, rGroups, queue, work, ever, ops, errors>>

Actors == Workers \cup {Web}
Task(kind, x) == [kind |-> kind, x |-> x, cos |-> {}]
NoTask == Task("none", None)
EmptyTables == [users |-> {}, cos |-> {}, subs |-> {},
                member |-> [g \in Groups |-> {}], lapsed |-> [c \in COs |-> {}],
                direct |-> {}, org |-> "unconnected",
                uattr |-> [u \in Users |-> CHOOSE a \in Attrs : TRUE]]
Started(task) == [task |-> task, begun |-> FALSE, snap |-> EmptyTables,
                  steps |-> <<>>, id |-> None, ids |-> {}]
Idle == Started(NoTask)

AtRest == queue = <<>> /\ \A a \in Actors : work[a] = Idle

Connected(d, c) == c \in d.direct \/ d.org = "connected"
Existing(d) == d.cos \cup d.subs
Reaches(d, g) == g \in Existing(d) /\ Connected(d, IF g \in COs THEN g ELSE Parent[g])

GroupBody(g, ids) == [ext |-> g, attr |-> CHOOSE x \in Attrs : TRUE, members |-> ids]

(* The remote server starts as a sweep leaves it: in sync, the objects     *)
(* under the first ids.                                                    *)
Swept(r, S, Obj(_)) ==
  r = [i \in Ids |-> IF i \in 1..Cardinality(S) THEN Obj(SetToSeq(S)[i]) ELSE Unused]
SweptUsers(d) == UNION {d.member[g] : g \in {h \in Groups : Reaches(d, h)}}
SweptId(d, u) ==
  CHOOSE i \in 1..Cardinality(SweptUsers(d)) : SetToSeq(SweptUsers(d))[i] = u

ProvisionInit ==
  /\ load \in Loads
  /\ tables \in load.dbs
  /\ Swept(rUsers, SweptUsers(tables),
           LAMBDA u : [ext |-> u, attr |-> tables.uattr[u]])
  /\ Swept(rGroups, {g \in Groups : Reaches(tables, g)},
           LAMBDA g : GroupBody(g, {SweptId(tables, u) : u \in tables.member[g]}))
  /\ queue = <<>>
  /\ work = [a \in Actors |-> Idle]
  /\ ever = tables.member
  /\ ops = 0 /\ errors = 0

-----------------------------------------------------------------------------
(***************************************************************************)
(* What a task does, as the calls of scim.py it makes, in their order.     *)
(***************************************************************************)
Step(do, x) == [do |-> do, x |-> x]
EachOf(S, Calls(_)) == FlattenSeq([i \in 1..Cardinality(S) |-> Calls(SetToSeq(S)[i])])

GroupsOf(d, c) == {g \in d.subs : Parent[g] = c}
CollaborationsOf(d, u) == {c \in d.cos : u \in d.member[c]}

(* Mutant: only the services of the collaborations count.                  *)
HasDirectServiceAccess(d, u, exclude) ==
  \E c \in CollaborationsOf(d, u) \ {exclude} : u \notin d.lapsed[c] /\ c \in d.direct

HasUserServiceAccess(d, u, exclude) ==
  \E c \in CollaborationsOf(d, u) \ {exclude} : u \notin d.lapsed[c] /\ Connected(d, c)

Provision(g) == <<Step("provisionGroup", g)>>
Drop(g) == <<Step(IF g \in COs THEN "dropCollaboration" ELSE "dropGroup", g)>>
GroupsThenCo(d, c, Do(_)) == EachOf(GroupsOf(d, c), Do) \o Do(c)
CoThenGroups(d, c, Do(_)) == Do(c) \o EachOf(GroupsOf(d, c), Do)

(* After the DELETE of a collaboration: its groups, which were deleted     *)
(* before it, and the users left without access.                           *)
Cascade(d, c) ==
  EachOf(GroupsOf(d, c), Drop)
  \o EachOf({u \in d.member[c] : ~HasUserServiceAccess(d, u, c)},
            LAMBDA u : <<Step("dropUser", u)>>)

(* The organisation is deleted: the services of the collaborations already *)
(* visited are kept in the list for the next one.                          *)
OrganisationDeleted(d) ==
  LET s == SetToSeq(d.cos)
      reached(i) == d.org = "connected" \/ \E j \in 1..i : s[j] \in d.direct
  IN FlattenSeq([i \in 1..Len(s) |->
       IF reached(i) THEN GroupsThenCo(d, s[i], Drop) ELSE <<>>])

(* A row that is not there (any more) raises NoResultFound.                *)
Calls(d, t) ==
  CASE t.kind = "collaboration" /\ t.x \in d.cos /\ Connected(d, t.x) ->
         GroupsThenCo(d, t.x, Provision)
    [] t.kind = "group" /\ t.x \in d.subs /\ Connected(d, Parent[t.x]) ->
         Provision(t.x)
    [] t.kind = "user" /\ t.x \in d.users
         /\ \E c \in CollaborationsOf(d, t.x) : Connected(d, c) ->
         <<Step("provisionUser", t.x)>>
    [] t.kind = "userDeleted" /\ \E c \in t.cos \cap d.cos : Connected(d, c) ->
         <<Step("dropUser", t.x)>>
         \o EachOf({c \in t.cos \cap d.cos : Connected(d, c)},
                   LAMBDA c : CoThenGroups(d, c, Provision))
    [] t.kind = "serviceAdded" /\ t.x \in d.cos -> GroupsThenCo(d, t.x, Provision)
    [] t.kind = "serviceDeleted" /\ t.x \in d.cos -> GroupsThenCo(d, t.x, Drop)
    [] t.kind = "orgServiceAdded" ->
         EachOf(d.cos, LAMBDA c : GroupsThenCo(d, c, Provision))
    [] t.kind = "orgServiceDeleted" ->
         EachOf(d.cos, LAMBDA c : GroupsThenCo(d, c, Drop))
    [] t.kind = "groupDeleted" /\ t.x \in d.subs /\ Connected(d, Parent[t.x]) ->
         Drop(t.x)
    [] t.kind = "collaborationDeleted" /\ t.x \in d.cos /\ Connected(d, t.x) ->
         GroupsThenCo(d, t.x, Drop)
    [] t.kind = "organisationDeleted" -> OrganisationDeleted(d)
    [] OTHER -> <<>>

-----------------------------------------------------------------------------
(***************************************************************************)
(* Requests.                                                               *)
(***************************************************************************)
ApiRequest(op, d) ==
  /\ op \in load.ops /\ ops < load.max
  /\ load.blocking => AtRest
  /\ ops' = ops + 1
  /\ tables' = d
  /\ ever' = [g \in Groups |-> ever[g] \cup d.member[g]]
  /\ UNCHANGED <<load, rUsers, rGroups, errors>>

(* The change is committed before the tasks are submitted.                 *)
Commit(op, d, tasks) ==
  ApiRequest(op, d) /\ queue' = queue \o tasks /\ UNCHANGED work

(* The task runs in the web thread; d is what is committed before it.      *)
CommitAndRun(op, d, task) ==
  /\ work[Web] = Idle
  /\ ApiRequest(op, d)
  /\ work' = [work EXCEPT ![Web] = Started(task)]
  /\ UNCHANGED queue

SetMembers(d, f) == [d EXCEPT !.member = [g \in Groups |->
                       IF g \in DOMAIN f THEN f[g] ELSE d.member[g]]]

GroupTasks(S) == EachOf(S, LAMBDA g : <<Task("group", g)>>)

(* An invitation or a join request is accepted, or an organisation manager *)
(* becomes admin of the collaboration.                                     *)
AddMember(c, u) ==
  /\ c \in tables.cos /\ u \in tables.users \ tables.member[c]
  /\ LET auto == GroupsOf(tables, c) \cap AutoGroups
     IN Commit("AddMember",
               SetMembers(tables, [g \in {c} \cup auto |-> tables.member[g] \cup {u}]),
               GroupTasks(auto) \o <<Task("collaboration", c)>>)

Leaving(d, S, u) == SetMembers(d, [g \in S |-> d.member[g] \ {u}])

RemoveMember(c, u) ==
  /\ c \in tables.cos /\ u \in tables.member[c]
  /\ Commit("RemoveMember",
            [Leaving(tables, {c} \cup GroupsOf(tables, c), u) EXCEPT !.lapsed[c] = @ \ {u}],
            <<Task("collaboration", c)>>)

AddGroupMember(g, u) ==
  /\ g \in tables.subs /\ u \in tables.member[Parent[g]] \ tables.member[g]
  /\ Commit("AddGroupMember", SetMembers(tables, [h \in {g} |-> tables.member[g] \cup {u}]),
            <<Task("group", g)>>)

RemoveGroupMember(g, u) ==
  /\ g \in tables.subs /\ u \in tables.member[g]
  /\ Commit("RemoveGroupMember", Leaving(tables, {g}, u), <<Task("group", g)>>)

(* auto_provision_all_members_and_invites broadcasts as well.              *)
SaveGroup(op, g) ==
  /\ Parent[g] \in tables.cos
  /\ LET d == [tables EXCEPT !.subs = @ \cup {g}]
     IN Commit(op, IF g \in AutoGroups THEN SetMembers(d, [h \in {g} |-> d.member[Parent[g]]])
                   ELSE d,
               IF g \in AutoGroups THEN <<Task("group", g), Task("group", g)>>
               ELSE <<Task("group", g)>>)

CreateGroup(g) == g \notin tables.subs /\ SaveGroup("CreateGroup", g)
UpdateGroup(g) == g \in tables.subs /\ SaveGroup("UpdateGroup", g)

CreateCollaboration(c, u) ==
  /\ c \notin tables.cos /\ u \in tables.users /\ tables.org # "deleted"
  /\ Commit("CreateCollaboration",
            SetMembers([tables EXCEPT !.cos = @ \cup {c}], [h \in {c} |-> {u}]),
            <<Task("collaboration", c)>>)

UpdateCollaboration(c) ==
  c \in tables.cos /\ Commit("UpdateCollaboration", tables, <<Task("collaboration", c)>>)

UpdateUser(u, a) ==
  /\ u \in tables.users /\ a # tables.uattr[u]
  /\ Commit("UpdateUser", [tables EXCEPT !.uattr[u] = a], <<Task("user", u)>>)

ApiDeleteUser(u) ==
  /\ u \in tables.users
  /\ Commit("DeleteUser",
            [Leaving(tables, Groups, u) EXCEPT !.users = @ \ {u},
               !.lapsed = [c \in COs |-> tables.lapsed[c] \ {u}]],
            <<[Task("userDeleted", u) EXCEPT !.cos = CollaborationsOf(tables, u)]>>)

ConnectService(c) ==
  /\ c \in tables.cos \ tables.direct
  /\ Commit("ConnectService", [tables EXCEPT !.direct = @ \cup {c}],
            <<Task("serviceAdded", c)>>)

ConnectOrganisation ==
  /\ tables.org = "unconnected"
  /\ Commit("ConnectOrganisation", [tables EXCEPT !.org = "connected"],
            <<Task("orgServiceAdded", None)>>)

DisconnectOrganisation ==
  /\ tables.org = "connected"
  /\ Commit("DisconnectOrganisation", [tables EXCEPT !.org = "unconnected"],
            <<Task("orgServiceDeleted", None)>>)

DisconnectService(c) ==
  /\ c \in tables.direct
  /\ CommitAndRun("DisconnectService", [tables EXCEPT !.direct = @ \ {c}],
                  Task("serviceDeleted", c))

ApiDeleteGroup(g) ==
  g \in tables.subs /\ CommitAndRun("DeleteGroup", tables, Task("groupDeleted", g))

ApiDeleteCollaboration(c) ==
  c \in tables.cos /\ CommitAndRun("DeleteCollaboration", tables, Task("collaborationDeleted", c))

ApiDeleteOrganisation ==
  /\ tables.org # "deleted"
  /\ CommitAndRun("DeleteOrganisation", tables, Task("organisationDeleted", None))

(* The cron job of membership_expiration: no task.                         *)
ExpireMembership(c, u) ==
  /\ u \in tables.member[c] \ tables.lapsed[c]
  /\ Commit("ExpireMembership", [tables EXCEPT !.lapsed[c] = @ \cup {u}], <<>>)

ApiRequests ==
  \/ \E c \in COs, u \in Users : \/ AddMember(c, u) \/ RemoveMember(c, u)
                                 \/ CreateCollaboration(c, u)
                                 \/ ExpireMembership(c, u)
  \/ \E g \in Subs, u \in Users : AddGroupMember(g, u) \/ RemoveGroupMember(g, u)
  \/ \E g \in Subs : CreateGroup(g) \/ UpdateGroup(g) \/ ApiDeleteGroup(g)
  \/ \E c \in COs : \/ UpdateCollaboration(c) \/ ApiDeleteCollaboration(c)
                    \/ ConnectService(c) \/ DisconnectService(c)
  \/ \E u \in Users : ApiDeleteUser(u) \/ \E a \in Attrs : UpdateUser(u, a)
  \/ ConnectOrganisation \/ DisconnectOrganisation \/ ApiDeleteOrganisation

-----------------------------------------------------------------------------
(***************************************************************************)
(* Threads.                                                                *)
(***************************************************************************)
Local(a, w) == work' = [work EXCEPT ![a] = w] /\ UNCHANGED <<load, tables, queue, ever, ops>>

Take(w) ==
  /\ w \in load.threads
  /\ work[w] = Idle /\ queue # <<>>
  /\ work' = [work EXCEPT ![w] = Started(Head(queue))]
  /\ queue' = Tail(queue)
  /\ UNCHANGED <<load, tables, rUsers, rGroups, ever, ops, errors>>

(* Mutant: a task whose rows are gone is submitted again.                  *)
BeginResubmits(a) ==
  /\ work[a].task # NoTask /\ ~work[a].begun
  /\ IF Calls(tables, work[a].task) = <<>>
     THEN /\ work' = [work EXCEPT ![a] = Idle]
          /\ queue' = Append(queue, work[a].task)
          /\ UNCHANGED <<load, tables, ever, ops>>
     ELSE Local(a, [work[a] EXCEPT !.begun = TRUE, !.snap = tables,
                                   !.steps = Calls(tables, work[a].task)])
  /\ UNCHANGED <<rUsers, rGroups, errors>>

(* The first query fixes the snapshot of the transaction, from which all   *)
(* that follows reads.                                                     *)
Begin(a) ==
  /\ work[a].task # NoTask /\ ~work[a].begun
  /\ Local(a, [work[a] EXCEPT !.begun = TRUE, !.snap = tables,
                              !.steps = Calls(tables, work[a].task)])
  /\ UNCHANGED <<rUsers, rGroups, errors>>

At(a, do) == work[a].steps # <<>> /\ Head(work[a].steps).do = do
Arg(a) == Head(work[a].steps).x
Rest(a) == Tail(work[a].steps)

AnswerCall(ok) ==
  \/ ok /\ UNCHANGED errors
  \/ ~ok /\ errors < load.errors /\ errors' = errors + 1

(* _lookup_scim_object: the first object of the answer; an error status is *)
(* "not found".                                                            *)
Lookup(r, x, ok) ==
  IF ~ok \/ With(r, x) = {} THEN None
  ELSE CHOOSE i \in With(r, x) : \A j \in With(r, x) : i <= j

(* Mutant: the list of members is not started anew for each group.         *)
FindGroupKeepsIds(a, ok) ==
  /\ At(a, "provisionGroup") /\ AnswerCall(ok)
  /\ Local(a, [work[a] EXCEPT !.id = Lookup(rGroups, Arg(a), ok),
       !.steps = EachOf(work[a].snap.member[Arg(a)], LAMBDA u : <<Step("member", u)>>)
                 \o <<Step("writeGroup", Arg(a))>> \o Rest(a)])
  /\ UNCHANGED <<rUsers, rGroups>>

FindGroup(a, ok) ==
  /\ At(a, "provisionGroup") /\ AnswerCall(ok)
  /\ Local(a, [work[a] EXCEPT !.id = Lookup(rGroups, Arg(a), ok), !.ids = {},
       !.steps = EachOf(work[a].snap.member[Arg(a)], LAMBDA u : <<Step("member", u)>>)
                 \o <<Step("writeGroup", Arg(a))>> \o Rest(a)])
  /\ UNCHANGED <<rUsers, rGroups>>

(* membership_user_scim_objects                                            *)
FindMember(a, ok) ==
  /\ At(a, "member") /\ AnswerCall(ok)
  /\ LET i == Lookup(rUsers, Arg(a), ok)
     IN Local(a, IF i = None
                 THEN [work[a] EXCEPT !.steps = <<Step("postMember", Arg(a))>> \o Rest(a)]
                 ELSE [work[a] EXCEPT !.ids = @ \cup {i}, !.steps = Rest(a)])
  /\ UNCHANGED <<rUsers, rGroups>>

UserBody(a, u) == [ext |-> u, attr |-> work[a].snap.uattr[u]]

PostMember(a, ok) ==
  /\ At(a, "postMember") /\ AnswerCall(ok)
  /\ \/ /\ ok
        /\ \E i \in Ids : /\ IsFresh(rUsers, i)
                          /\ rUsers' = Post(rUsers, i, UserBody(a, Arg(a)))
                          /\ Local(a, [work[a] EXCEPT !.ids = @ \cup {i}, !.steps = Rest(a)])
     \/ ~ok /\ Local(a, [work[a] EXCEPT !.steps = Rest(a)]) /\ UNCHANGED rUsers
  /\ UNCHANGED rGroups

(* The POST or PUT of _provision_user and _provision_group.                *)
Store(r, id, obj) ==
  IF id = None THEN {Post(r, i, obj) : i \in {j \in Ids : IsFresh(r, j)}}
  ELSE {Put(r, id, obj)}

WriteGroup(a, ok) ==
  /\ At(a, "writeGroup") /\ AnswerCall(ok)
  /\ rGroups' \in IF ok
                  THEN Store(rGroups, work[a].id, GroupBody(Arg(a), work[a].ids))
                  ELSE {rGroups}
  /\ Local(a, [work[a] EXCEPT !.steps = Rest(a)])
  /\ UNCHANGED rUsers

FindUser(a, ok) ==
  /\ At(a, "provisionUser") /\ AnswerCall(ok)
  /\ Local(a, [work[a] EXCEPT !.id = Lookup(rUsers, Arg(a), ok),
                              !.steps = <<Step("writeUser", Arg(a))>> \o Rest(a)])
  /\ UNCHANGED <<rUsers, rGroups>>

WriteUser(a, ok) ==
  /\ At(a, "writeUser") /\ AnswerCall(ok)
  /\ rUsers' \in IF ok
                 THEN Store(rUsers, work[a].id, UserBody(a, Arg(a)))
                 ELSE {rUsers}
  /\ Local(a, [work[a] EXCEPT !.steps = Rest(a)])
  /\ UNCHANGED rGroups

(* A lookup before a DELETE; what is not found needs no DELETE, and a      *)
(* collaboration that is not found leaves its users alone.                 *)
FindToDelete(a, do, r, then, more, ok) ==
  /\ At(a, do) /\ AnswerCall(ok)
  /\ LET i == Lookup(r, Arg(a), ok)
     IN Local(a, [work[a] EXCEPT !.id = i,
                    !.steps = IF i = None THEN Rest(a)
                              ELSE <<Step(then, Arg(a))>> \o more \o Rest(a)])
  /\ UNCHANGED <<rUsers, rGroups>>

FindUserToDelete(a, ok) == FindToDelete(a, "dropUser", rUsers, "deleteUser", <<>>, ok)
FindGroupToDelete(a, ok) == FindToDelete(a, "dropGroup", rGroups, "deleteGroup", <<>>, ok)
FindCollaborationToDelete(a, ok) ==
  /\ At(a, "dropCollaboration")
  /\ FindToDelete(a, "dropCollaboration", rGroups, "deleteGroup",
                  Cascade(work[a].snap, Arg(a)), ok)

DeleteCall(a, ok) ==
  /\ \/ At(a, "deleteGroup") /\ UNCHANGED rUsers
        /\ rGroups' = IF ok THEN Delete(rGroups, work[a].id) ELSE rGroups
     \/ At(a, "deleteUser") /\ UNCHANGED rGroups
        /\ rUsers' = IF ok THEN Delete(rUsers, work[a].id) ELSE rUsers
  /\ AnswerCall(ok)
  /\ Local(a, [work[a] EXCEPT !.steps = Rest(a)])

(* The request goes on when its task returns: the row is deleted, with all *)
(* that cascades.                                                          *)
RemoveGroups(d, S) ==
  [SetMembers(d, [g \in S |-> {}]) EXCEPT
     !.cos = @ \ S, !.subs = @ \ S, !.direct = @ \ S,
     !.lapsed = [c \in COs |-> IF c \in S THEN {} ELSE d.lapsed[c]]]

AfterTask(d, t) ==
  CASE t.kind = "groupDeleted" -> RemoveGroups(d, {t.x})
    [] t.kind = "collaborationDeleted" -> RemoveGroups(d, {t.x} \cup GroupsOf(d, t.x))
    [] t.kind = "organisationDeleted" -> [RemoveGroups(d, Groups) EXCEPT !.org = "deleted"]
    [] OTHER -> d

FinishTask(a) ==
  /\ work[a].begun /\ work[a].steps = <<>>
  /\ work' = [work EXCEPT ![a] = Idle]
  /\ tables' = AfterTask(tables, work[a].task)
  /\ UNCHANGED <<load, rUsers, rGroups, queue, ever, ops, errors>>

(* An exception, such as a timeout: the task ends, and with it the request *)
(* that waits for it.                                                      *)
AbortTask(a) ==
  /\ work[a].begun /\ errors < load.errors
  /\ errors' = errors + 1
  /\ work' = [work EXCEPT ![a] = Idle]
  /\ UNCHANGED <<load, tables, rUsers, rGroups, queue, ever, ops>>

(* The process ends: the executor's queue is in memory.                    *)
Restart ==
  /\ errors < load.errors /\ ~AtRest
  /\ errors' = errors + 1
  /\ queue' = <<>> /\ work' = [a \in Actors |-> Idle]
  /\ UNCHANGED <<load, tables, rUsers, rGroups, ever, ops>>

Call(a, ok) ==
  \/ FindGroup(a, ok) \/ FindMember(a, ok) \/ PostMember(a, ok) \/ WriteGroup(a, ok)
  \/ FindUser(a, ok) \/ WriteUser(a, ok)
  \/ FindUserToDelete(a, ok) \/ FindGroupToDelete(a, ok)
  \/ FindCollaborationToDelete(a, ok) \/ DeleteCall(a, ok)

ThreadStep(a) == Begin(a) \/ (\E ok \in BOOLEAN : Call(a, ok)) \/ FinishTask(a)

ProvisionNext ==
  \/ ApiRequests
  \/ \E w \in Workers : Take(w)
  \/ \E a \in Actors : ThreadStep(a) \/ AbortTask(a)
  \/ Restart

ProvisionSpec == ProvisionInit /\ [][ProvisionNext]_provisionVars

(* A thread of the pool waits for nothing but an answer or its timeout of  *)
(* ten seconds; idle threads take what is queued.                          *)
Fairness ==
  /\ \A a \in Actors : WF_provisionVars(ThreadStep(a))
  /\ \A w \in Workers : WF_provisionVars(Take(w))

FairProvisionSpec == ProvisionSpec /\ Fairness

-----------------------------------------------------------------------------
(* Once every task is done, if no call failed and one thread ran them, the *)
(* service holds each collaboration and group that reaches it once, with   *)
(* its members of now, each member once and with the attributes of now,    *)
(* and no other group.                                                     *)
SyncedAtRest ==
  AtRest /\ errors = 0 /\ Cardinality(load.threads) = 1 =>
    /\ Unique(rGroups) /\ Unique(rUsers)
    /\ \A i \in Live(rGroups) :
         /\ Reaches(tables, rGroups[i].ext)
         /\ Resolve(rUsers, rGroups[i].members) = tables.member[rGroups[i].ext]
    /\ \A g \in Groups : Reaches(tables, g) =>
         /\ With(rGroups, g) # {}
         /\ \A u \in tables.member[g] :
              \E i \in With(rUsers, u) : rUsers[i].attr = tables.uattr[u]

(* Whatever the order of tasks, the errors and the restarts, a remote group*)
(* never shows the service a user who was never a member of it.            *)
NoStrangers ==
  \A i \in Live(rGroups) : Resolve(rUsers, rGroups[i].members) \subseteq ever[rGroups[i].ext]

(* Every task ends: when the requests stop, the threads come to rest.      *)
Settles == <>[]AtRest
=============================================================================
