-------------------------------- MODULE Groups ---------------------------------
(***************************************************************************)
(* The groups of one collaboration: the tab of its page in the browsers of *)
(* several administrators, who make, rename, delete and fill groups beside *)
(* each other; the handlers of the server, some of which commit more than  *)
(* once or tell before they commit; the people who join or leave meanwhile.*)
(***************************************************************************)
EXTENDS Naturals

CONSTANTS
  Admins,   \* the administrators, each with the page open
  Ids,      \* what a group is known by
  Names,    \* what a name and a short name may be
  Members,  \* the users who are or may become members of the collaboration
  None,     \* no group, no name, no member
  Scenes    \* what Init chooses from

ASSUME NoneAssumption == None \notin Ids \union Names \union Members

Group == [at : {"none", "here", "gone"}, name : Names \union {None}, short : Names \union {None},
          auto : BOOLEAN,
          rows : [Members -> 0 .. 2],  \* of collaboration_memberships_groups
          service : BOOLEAN]           \* made for a service, which names it
Ops == {"new", "goto", "edit", "back", "name", "short", "auto", "save", "delete", "add", "remove"}
(* The groups and the members to begin with, the group each administrator  *)
(* has opened or the short name typed in the form of a new one, who may    *)
(* join and leave, what the administrators do and the bound: how often, and*)
(* who of them is an administrator of the platform.                        *)
(* Who left does not come back; short names are apart, and the names of the*)
(* groups no service made, and groups are filled to begin with.            *)
ASSUME SceneAssumption ==
  /\ Scenes \subseteq [groups : [Ids -> Group], members : SUBSET Members,
                       opened : [Admins -> Ids \union {None}], guests : SUBSET Members,
                       leavers : SUBSET Members, does : [Admins -> SUBSET Ops], budget : [Admins -> Nat],
                       drafts : [Admins -> Names \union {None}], platform : SUBSET Admins]
  /\ \A s \in Scenes :
       /\ s.guests \cap (s.leavers \union s.members) = {}
       /\ \A i, j \in {k \in Ids : s.groups[k].at = "here"} :
            /\ i # j => s.groups[i].short # s.groups[j].short
            /\ i # j /\ ~s.groups[i].service /\ ~s.groups[j].service => s.groups[i].name # s.groups[j].name
            /\ s.groups[i].auto => \A m \in s.members : s.groups[i].rows[m] > 0

VARIABLES
  scene,     \* the scene of this behaviour, which never changes
  groups, members,  \* the rows of the server
  joins,     \* of each user who is joining: the groups read, those missed (history)
  inbox,     \* administrators a message of the server is on its way to
  answers,   \* readings made and not heard
  checks,    \* verdicts on a name asked for and not heard
  job,       \* what each administrator has asked the server to do
  page,      \* what each administrator sees
  hasty,     \* groups named without a verdict that was current (history)
  disturbed, \* groups something overlapped the filling of (history)
  doubt      \* administrators whose page may show something old (history)

server == <<groups, members, joins>>
browser == <<answers, checks, job, page>>
history == <<hasty, disturbed, doubt>>
vars == <<scene, server, inbox, browser, history>>

-------------------------------------------------------------------------------
Here == {i \in Ids : groups[i].at = "here"}
Provisioned == {i \in Here : groups[i].auto}
(* What a reading of the page brings: collaboration_memberships lists a    *)
(* membership once, however many rows there are.                           *)
Shown ==
  [members |-> members,
   groups |-> [i \in Here |-> [name |-> groups[i].name, short |-> groups[i].short,
                               auto |-> groups[i].auto, service |-> groups[i].service,
                               in |-> {m \in Members : groups[i].rows[m] > 0}]]]

Idle == [op |-> "none", id |-> None, name |-> None, short |-> None, auto |-> FALSE, m |-> None,
         phase |-> "idle", clean |-> FALSE, late |-> FALSE, missing |-> {}]
NoDialog == [op |-> "none", id |-> None, m |-> None, late |-> FALSE]
NotJoining == [on |-> FALSE, auto |-> {}, missed |-> {}]

Init ==
  /\ scene \in Scenes
  /\ groups = scene.groups /\ members = scene.members
  /\ joins = [m \in Members |-> NotJoining] /\ inbox = {}
  /\ answers = [a \in Admins |-> {}] /\ checks = {}
  /\ job = [a \in Admins |-> Idle]
  /\ page = [a \in Admins |->
               [view |-> Shown, mode |-> IF scene.opened[a] # None THEN "group"
                                         ELSE IF scene.drafts[a] # None THEN "new" ELSE "list",
                id |-> scene.opened[a], name |-> None, short |-> scene.drafts[a], auto |-> FALSE, marked |-> {},
                sure |-> FALSE, dialog |-> NoDialog, left |-> scene.budget[a]]]
  /\ hasty = {} /\ disturbed = {} /\ doubt = [a \in Admins |-> FALSE]

-------------------------------------------------------------------------------
(* The tab.  The spinner takes its whole place; a group that is not, or no *)
(* longer, on the page leaves the list, which shows no dialog.             *)
Busy(a) == job[a].phase # "idle"
Screen(a) ==
  IF page[a].mode \in {"group", "edit"} /\ page[a].id \notin DOMAIN page[a].view.groups
  THEN "list" ELSE page[a].mode
Asking(a) == page[a].dialog.op # "none" /\ Screen(a) # "list"
At(a, screens, op) ==
  /\ op \in scene.does[a] /\ page[a].left > 0
  /\ ~Busy(a) /\ ~Asking(a) /\ Screen(a) \in screens
Looks(a, p) ==
  /\ page' = [page EXCEPT ![a] = [p EXCEPT !.left = @ - 1]]
  /\ UNCHANGED <<scene, server, inbox, answers, job, history>>
Sends(a, j) ==
  /\ job' = [job EXCEPT ![a] = [j EXCEPT !.phase = "sent"]]
  /\ page' = [page EXCEPT ![a].left = @ - 1, ![a].dialog = NoDialog]
  /\ UNCHANGED <<scene, server, inbox, answers, checks, history>>
ShownGroup(a) == page[a].view.groups[page[a].id]

NewGroup(a) ==
  /\ At(a, {"list"}, "new") /\ UNCHANGED checks
  /\ Looks(a, [page[a] EXCEPT !.mode = "new", !.id = None, !.name = None, !.short = None,
                              !.auto = FALSE, !.marked = {}, !.sure = FALSE])
GotoGroup(a, i) ==
  /\ At(a, {"list"}, "goto") /\ i \in DOMAIN page[a].view.groups /\ UNCHANGED checks
  /\ Looks(a, [page[a] EXCEPT !.mode = "group", !.id = i])
Edit(a) ==
  /\ At(a, {"group"}, "edit") /\ UNCHANGED checks
  /\ Looks(a, [page[a] EXCEPT !.mode = "edit", !.name = ShownGroup(a).name, !.short = ShownGroup(a).short,
                              !.auto = ShownGroup(a).auto, !.marked = {}, !.sure = FALSE])
CancelSideScreen(a) ==
  /\ At(a, {"group", "new", "edit"}, "back") /\ UNCHANGED checks
  /\ Looks(a, [page[a] EXCEPT !.mode = "list", !.id = None])

(* Typing a name or a short name and leaving its field, which asks for a   *)
(* verdict on it.  The short name of a group there is already is for       *)
(* administrators of the platform; that of a group of a service has a dash,*)
(* which the field takes out.                                              *)
Asks(a, attr, n, existing) ==
  checks' = checks \union
    {[by |-> a, id |-> page[a].id, attr |-> attr, name |-> n, phase |-> "sent", taken |-> FALSE,
      clean |-> FALSE, existing |-> existing]}
TypeName(a, n) ==
  LET new == page[a].mode = "new" IN
  /\ At(a, {"new", "edit"}, "name") /\ (~new => ~ShownGroup(a).service)
  /\ Asks(a, "name", n, IF new THEN None ELSE ShownGroup(a).name)
  /\ Looks(a, [page[a] EXCEPT !.name = n, !.marked = @ \ {"name"}, !.sure = FALSE])
TypeShortName(a, n) ==
  LET new == page[a].mode = "new" IN
  /\ At(a, {"new", "edit"}, "short") /\ (~new => ~ShownGroup(a).service /\ a \in scene.platform)
  /\ ~\E i \in Ids : groups[i].service /\ groups[i].short = n
  /\ Asks(a, "short", n, IF new THEN None ELSE ShownGroup(a).short)
  /\ Looks(a, [page[a] EXCEPT !.short = n, !.marked = @ \ {"short"}])
ToggleAuto(a) ==
  /\ At(a, {"new", "edit"}, "auto") /\ UNCHANGED checks
  /\ Looks(a, [page[a] EXCEPT !.auto = ~@])

(* Save: what isValid refuses changes nothing that is modelled.            *)
IsValid(p) == p.name # None /\ p.short # None /\ p.marked = {}
DoSubmit(a) ==
  LET p == page[a] IN
  /\ At(a, {"new", "edit"}, "save") /\ IsValid(p)
  /\ Sends(a, [Idle EXCEPT !.op = IF p.mode = "new" THEN "create" ELSE "update", !.id = p.id,
                           !.name = p.name, !.short = p.short, !.auto = p.auto, !.clean = p.sure])
AddMember(a, m) ==
  /\ At(a, {"group"}, "add") /\ m \in page[a].view.members \ ShownGroup(a).in
  /\ Sends(a, [Idle EXCEPT !.op = "add", !.id = page[a].id, !.m = m])

(* The questions, answered with yes or no.                                 *)
Delete(a) ==
  /\ At(a, {"edit"}, "delete") /\ ~ShownGroup(a).service /\ UNCHANGED checks
  /\ Looks(a, [page[a] EXCEPT !.dialog = [NoDialog EXCEPT !.op = "delete", !.id = page[a].id]])
RemoveMemberOfAny(a, m) ==
  /\ At(a, {"group"}, "remove") /\ m \in ShownGroup(a).in /\ UNCHANGED checks
  /\ Looks(a, [page[a] EXCEPT !.dialog =
                 [op |-> "remove", id |-> page[a].id, m |-> m,
                  late |-> groups[page[a].id].auto /\ ~ShownGroup(a).auto]])
RemoveMember(a, m) ==
  /\ At(a, {"group"}, "remove") /\ m \in ShownGroup(a).in /\ UNCHANGED checks
  /\ ~ShownGroup(a).auto
  /\ Looks(a, [page[a] EXCEPT !.dialog =
                 [op |-> "remove", id |-> page[a].id, m |-> m,
                  late |-> groups[page[a].id].auto /\ ~ShownGroup(a).auto]])
Confirm(a) ==
  LET d == page[a].dialog IN
  /\ page[a].left > 0 /\ ~Busy(a) /\ Asking(a)
  /\ Sends(a, [Idle EXCEPT !.op = d.op, !.id = d.id, !.m = d.m, !.late = d.late])
CloseConfirmationDialog(a) ==
  /\ page[a].left > 0 /\ ~Busy(a) /\ Asking(a) /\ UNCHANGED checks
  /\ Looks(a, [page[a] EXCEPT !.dialog = NoDialog])

Look(a) ==
  \/ NewGroup(a)
  \/ \E i \in Ids : GotoGroup(a, i)
  \/ Edit(a)
  \/ CancelSideScreen(a)
  \/ \E n \in Names : TypeName(a, n) \/ TypeShortName(a, n)
  \/ ToggleAuto(a)
  \/ Delete(a)
  \/ \E m \in Members : RemoveMember(a, m)
  \/ CloseConfirmationDialog(a)
Send(a) ==
  \/ DoSubmit(a)
  \/ \E m \in Members : AddMember(a, m)
  \/ Confirm(a)

-------------------------------------------------------------------------------
(* The handlers.  A message goes to the other browsers, or to all of them. *)
Tell(whom) == inbox' = inbox \union whom
Others(a) == Admins \ {a}
Handles(a, op, phase) ==
  /\ job[a].op = op /\ job[a].phase = phase
  /\ UNCHANGED <<scene, answers>>
Becomes(a, phase) == job' = [job EXCEPT ![a].phase = phase]
Refused(a) == Becomes(a, "lost") /\ UNCHANGED <<server, inbox, checks, page, history>>
Held(a) == Becomes(a, "held") /\ UNCHANGED <<server, inbox, checks, page, history>>

(* The row of group i becomes g.  What others have under way from before a *)
(* name is given, or the group begins to have everyone, is marked (history).*)
Renames(i, g) == i \notin Here \/ g.name # groups[i].name
Begins(i, g) == g.auto /\ i \notin Provisioned
JobAfter(b, i, g) ==
  [job[b] EXCEPT !.clean = job[b].clean /\ ~Renames(i, g),
                 !.late = job[b].late \/ (Begins(i, g) /\ job[b].op = "remove" /\ job[b].id = i)]
PageAfter(b, i, g) ==
  [page[b] EXCEPT !.sure = page[b].sure /\ ~Renames(i, g),
                  !.dialog = [page[b].dialog EXCEPT !.late = @ \/ (Begins(i, g) /\ page[b].dialog.id = i)]]
Saved(a, i, g, j) ==
  /\ groups' = [groups EXCEPT ![i] = g]
  /\ job' = [b \in Admins |-> IF b = a THEN j ELSE JobAfter(b, i, g)]
  /\ page' = [b \in Admins |-> PageAfter(b, i, g)]
  /\ checks' = IF Renames(i, g) THEN {[c EXCEPT !.clean = FALSE] : c \in checks} ELSE checks
  /\ joins' = [m \in Members |->
       [joins[m] EXCEPT !.missed = IF Begins(i, g) /\ joins[m].on THEN @ \union {i} ELSE @]]
  /\ hasty' = IF Renames(i, g)
              THEN IF job[a].clean THEN hasty \ {i} ELSE hasty \union {i}
              ELSE hasty
  /\ UNCHANGED <<members, doubt>>
(* Who a group that has everyone lacks; the rows have no unique index.     *)
Missing(g) == IF g.auto THEN {m \in members : g.rows[m] = 0} ELSE {}
Filled(rows, ms) ==
  [m \in Members |-> IF m \in ms /\ rows[m] < 2 THEN rows[m] + 1 ELSE rows[m]]

(* save and update commit the row before the missing members are added; who*)
(* is missing is read from then on.                                        *)
Commits(a, i, g) ==
  /\ Saved(a, i, g, [job[a] EXCEPT !.id = i, !.missing = Missing(g),
                                   !.phase = IF g.auto THEN "fill" ELSE "done"])
  /\ Tell(IF g.auto THEN {} ELSE Others(a)) /\ UNCHANGED disturbed

(* A group of a service may have the name of another group, not its short  *)
(* name: that has a unique index, the name has none.                       *)
IsShortNameOf(n, is) == \E i \in is : groups[i].short = n
IsDuplicateShort(n, short) == IsShortNameOf(short, Here)
IsDuplicate(n, short) == IsShortNameOf(short, Here) \/ \E i \in Here : groups[i].name = n /\ ~groups[i].service
CreateReads(a) ==
  /\ Handles(a, "create", "sent")
  /\ \/ IsDuplicate(job[a].name, job[a].short)
        /\ Becomes(a, "done")  \* answered with {}, which has no id
     \/ ~IsDuplicate(job[a].name, job[a].short)
        /\ job' = [job EXCEPT ![a].phase = "held", ![a].clean = TRUE]
  /\ UNCHANGED <<server, inbox, checks, page, history>>
CreateSaves(a) ==
  /\ Handles(a, "create", "held")
  /\ \/ IsShortNameOf(job[a].short, Here) /\ Refused(a)
     \/ ~IsShortNameOf(job[a].short, Here) /\ \E i \in {k \in Ids : groups[k].at = "none"} :
          Commits(a, i, [at |-> "here", name |-> job[a].name, short |-> job[a].short, auto |-> job[a].auto,
                         rows |-> [m \in Members |-> 0], service |-> FALSE])

(* No look at the names here: the index is all there is.                   *)
UpdateSaves(a) ==
  LET i == job[a].id
      free == ~IsShortNameOf(job[a].short, Here \ {i})
  IN
  /\ Handles(a, "update", "sent")
  /\ \/ (i \notin Here \/ (~groups[i].service /\ ~free)) /\ Refused(a)
     \/ i \in Here /\ ~groups[i].service /\ free
        /\ Commits(a, i, [groups[i] EXCEPT !.name = job[a].name, !.short = job[a].short, !.auto = job[a].auto])
(* Of a group of a service only the switch changes, in one commit with the *)
(* members; without members to add the others are told before it.          *)
UpdateReads(a) ==
  LET i == job[a].id IN
  /\ Handles(a, "update", "sent") /\ i \in Here /\ groups[i].service
  /\ job' = [job EXCEPT ![a].phase = "held", ![a].late = FALSE,
                        ![a].missing = Missing([groups[i] EXCEPT !.auto = job[a].auto])]
  /\ Tell(IF job[a].auto THEN {} ELSE Others(a)) /\ UNCHANGED <<server, checks, page, history>>
UpdateCommits(a) ==
  LET i == job[a].id
      j == job[a]
      ok == i \in Here /\ j.missing \subseteq members
  IN
  /\ Handles(a, "update", "held")
  /\ \/ ~ok /\ Refused(a)
     \/ ok /\ Saved(a, i, [groups[i] EXCEPT !.auto = j.auto, !.rows = Filled(@, j.missing)],
                    [j EXCEPT !.phase = "done"])
        /\ Tell(IF j.auto THEN Others(a) ELSE {})
        /\ disturbed' = (IF j.late THEN disturbed \union {i} ELSE disturbed)
(* The jobs of that kind, when the members they read change under them.    *)
Overtaken(is) ==
  [b \in Admins |-> IF job[b].op = "update" /\ job[b].phase = "held" /\ job[b].id \in is
                    THEN [job[b] EXCEPT !.late = TRUE] ELSE job[b]]

(* auto_provision_all_members_and_invites: all of them or, when one left or*)
(* the group is gone, an error that leaves the saved group as it is.       *)
Fills(a) ==
  LET i == job[a].id
      ok == i \in Here /\ job[a].missing \subseteq members
  IN
  /\ job[a].op \in {"create", "update"} /\ Handles(a, job[a].op, "fill")
  /\ UNCHANGED <<members, joins, checks, page, hasty>>
  /\ \/ ok /\ Becomes(a, "done") /\ groups' = [groups EXCEPT ![i].rows = Filled(@, job[a].missing)]
        /\ Tell(Others(a)) /\ UNCHANGED <<disturbed, doubt>>
     \/ ~ok /\ Becomes(a, "lost") /\ disturbed' = disturbed \union {i}
        /\ doubt' = [b \in Admins |-> TRUE] /\ UNCHANGED <<groups, inbox>>

(* delete_group tells before it deletes.                                   *)
DeleteTells(a) ==
  /\ Handles(a, "delete", "sent")
  /\ \/ job[a].id \notin Here /\ Refused(a)
     \/ job[a].id \in Here /\ Becomes(a, "held") /\ Tell(Others(a))
        /\ UNCHANGED <<server, checks, page, history>>
DeleteCommits(a) ==
  /\ Handles(a, "delete", "held")
  /\ \/ job[a].id \in Here /\ Becomes(a, "done")
        /\ groups' = [groups EXCEPT ![job[a].id].at = "gone",
                                    ![job[a].id].rows = [m \in Members |-> 0]]
     \/ job[a].id \notin Here  \* another request deleted it: an error, or just a warning
        /\ (Becomes(a, "done") \/ Becomes(a, "lost")) /\ UNCHANGED groups
  /\ UNCHANGED <<members, joins, inbox, checks, page, history>>

(* Adding reads the list of the group, then commits what that list lacked. *)
AddReads(a) ==
  LET i == job[a].id IN
  /\ Handles(a, "add", "sent")
  /\ \/ (i \notin Here \/ job[a].m \notin members) /\ Refused(a)
     \/ i \in Here /\ job[a].m \in members
        /\ job' = [job EXCEPT ![a].phase = "held",
                              ![a].missing = IF groups[i].rows[job[a].m] = 0 THEN {job[a].m} ELSE {}]
        /\ UNCHANGED <<server, inbox, checks, page, history>>
AddCommits(a) ==
  LET i == job[a].id
      ok == i \in Here /\ job[a].missing \subseteq members
  IN
  /\ Handles(a, "add", "held")
  /\ \/ ~ok /\ Refused(a)
     \/ ok /\ Becomes(a, "done") /\ groups' = [groups EXCEPT ![i].rows = Filled(@, job[a].missing)]
        /\ Tell(Others(a)) /\ UNCHANGED <<members, joins, checks, page, history>>

(* Removing fails when the rows it read are not the rows it deletes; when  *)
(* there are two the driver decides.  It tells every browser.              *)
RemoveReads(a) ==
  LET i == job[a].id IN
  /\ Handles(a, "remove", "sent")
  /\ \/ (i \notin Here \/ groups[i].rows[job[a].m] = 0) /\ Refused(a)
     \/ i \in Here /\ groups[i].rows[job[a].m] > 0 /\ Held(a)
RemoveCommits(a) ==
  LET i == job[a].id
      n == IF i \in Here THEN groups[i].rows[job[a].m] ELSE 0
  IN
  /\ Handles(a, "remove", "held")
  /\ \/ n # 1 /\ Refused(a)
     \/ n > 0 /\ groups' = [groups EXCEPT ![i].rows[job[a].m] = 0]
        /\ job' = [Overtaken({i}) EXCEPT ![a].phase = "done"]
        /\ Tell(Admins)
        /\ disturbed' = (IF job[a].late THEN disturbed \union {i} ELSE disturbed)
        /\ UNCHANGED <<members, joins, checks, page, hasty, doubt>>

Handle(a) ==
  \/ CreateReads(a) \/ CreateSaves(a) \/ Fills(a)
  \/ UpdateSaves(a) \/ UpdateReads(a) \/ UpdateCommits(a)
  \/ DeleteTells(a) \/ DeleteCommits(a)
  \/ AddReads(a) \/ AddCommits(a)
  \/ RemoveReads(a) \/ RemoveCommits(a)

(* A verdict: a group, by a name other than the one the form began with, is*)
(* called so.  It is clean (history) while it is true of the form it was   *)
(* asked for.                                                              *)
Called(i, attr) == IF attr = "name" THEN groups[i].name ELSE groups[i].short
NameExists(c) ==
  /\ c.phase = "sent"
  /\ checks' = (checks \ {c}) \union
       {[c EXCEPT !.phase = "told",
                  !.taken = \E i \in Here : Called(i, c.attr) = c.name /\ c.name # c.existing,
                  !.clean = c.attr = "name" /\ c.id \in Here /\ groups[c.id].name = c.existing]}
  /\ UNCHANGED <<scene, server, inbox, answers, job, page, history>>

-------------------------------------------------------------------------------
(* Members come by an invitation or a join request, which add them to the  *)
(* groups that have everyone, and leave, which takes them out of every one.*)
JoinReads(m) ==
  /\ m \in scene.guests \ members /\ ~joins[m].on
  /\ joins' = [joins EXCEPT ![m] = [on |-> TRUE, auto |-> Provisioned, missed |-> {}]]
  /\ UNCHANGED <<scene, groups, members, inbox, browser, history>>
JoinCommits(m) ==
  LET j == joins[m] IN
  /\ j.on /\ joins' = [joins EXCEPT ![m] = NotJoining]
  /\ UNCHANGED <<scene, answers, checks, page, hasty, doubt>>
  /\ \/ ~(j.auto \subseteq Here) /\ UNCHANGED <<groups, members, inbox, job, disturbed>>
     \/ j.auto \subseteq Here /\ members' = members \union {m} /\ Tell(Admins)
        /\ job' = Overtaken(Ids)
        /\ groups' = [i \in Ids |-> IF i \in j.auto THEN [groups[i] EXCEPT !.rows[m] = 1] ELSE groups[i]]
        /\ disturbed' = disturbed \union j.missed
Leave(m) ==
  /\ m \in members \cap scene.leavers /\ members' = members \ {m} /\ Tell(Admins)
  /\ groups' = [i \in Ids |-> [groups[i] EXCEPT !.rows[m] = 0]]
  /\ UNCHANGED <<scene, joins, browser, history>>

-------------------------------------------------------------------------------
(* What a browser hears.  A message lets it read the page, and so does the *)
(* answer of its own operation; a refusal is not caught, and the spinner   *)
(* stays.  A reading may come too early, of what is told and not yet       *)
(* committed, or be overtaken by a later one (history).                    *)
Reads(a, own) ==
  LET early == \E b \in Admins : /\ job[b].phase = "held"
                                /\ (job[b].op = "delete" \/ (job[b].op = "update" /\ ~job[b].auto))
  IN
  /\ answers' = [answers EXCEPT ![a] = {[r EXCEPT !.old = TRUE] : r \in @} \union
                   {[own |-> own, view |-> Shown, old |-> early]}]
  /\ UNCHANGED <<scene, server, checks, page, history>>
HearAnswer(a) ==
  job[a].phase = "done" /\ Becomes(a, "reading") /\ Reads(a, TRUE) /\ UNCHANGED inbox
HearSocketIfIdle(a) ==
  /\ a \in inbox /\ inbox' = inbox \ {a} /\ UNCHANGED job
  /\ IF Busy(a) THEN UNCHANGED <<scene, server, answers, checks, page, history>> ELSE Reads(a, FALSE)
HearSocket(a) ==
  a \in inbox /\ inbox' = inbox \ {a} /\ Reads(a, FALSE) /\ UNCHANGED job
(* Where the callback of an operation leads; a group made twice has no id. *)
Leads(a, p) ==
  CASE job[a].op \in {"create", "update"} -> [p EXCEPT !.mode = "group", !.id = job[a].id]
    [] job[a].op = "delete" -> [p EXCEPT !.mode = "group"]
    [] OTHER -> p
HearPage(a, r) ==
  /\ r \in answers[a] /\ answers' = [answers EXCEPT ![a] = @ \ {r}]
  /\ doubt' = [doubt EXCEPT ![a] = r.old]
  /\ LET p == [page[a] EXCEPT !.view = r.view] IN
     \/ ~r.own /\ page' = [page EXCEPT ![a] = p] /\ UNCHANGED job
     \/ r.own /\ page' = [page EXCEPT ![a] = Leads(a, p)]
        /\ job' = [job EXCEPT ![a] = Idle]
  /\ UNCHANGED <<scene, server, inbox, checks, hasty, disturbed>>
HearVerdict(c) ==
  LET p == page[c.by]
      mine == c.attr = "name" /\ p.mode = "edit" /\ p.id = c.id /\ p.name = c.name
  IN
  /\ c.phase = "told" /\ checks' = checks \ {c}
  /\ page' = [page EXCEPT ![c.by] = [p EXCEPT !.marked = IF c.taken THEN @ \union {c.attr} ELSE @ \ {c.attr},
                                              !.sure = IF mine THEN c.clean /\ ~c.taken ELSE @]]
  /\ UNCHANGED <<scene, server, inbox, answers, job, history>>

Hear(a) ==
  \/ HearAnswer(a) \/ HearSocket(a)
  \/ \E r \in answers[a] : HearPage(a, r)

Next ==
  \/ \E a \in Admins : Look(a) \/ Send(a) \/ Handle(a) \/ Hear(a)
  \/ \E c \in checks : NameExists(c) \/ HearVerdict(c)
  \/ \E m \in Members : JoinReads(m) \/ JoinCommits(m) \/ Leave(m)
Spec == Init /\ [][Next]_vars

-------------------------------------------------------------------------------
OrNone(S) == S \union {None}
ViewGroup == [name : OrNone(Names), short : OrNone(Names), auto : BOOLEAN, service : BOOLEAN, in : SUBSET Members]
Views == [members : SUBSET Members, groups : UNION {[D -> ViewGroup] : D \in SUBSET Ids}]
Answers == [own : BOOLEAN, view : Views, old : BOOLEAN]
Checks == [by : Admins, id : OrNone(Ids), attr : {"name", "short"}, name : Names, phase : {"sent", "told"}, taken : BOOLEAN,
           clean : BOOLEAN, existing : OrNone(Names)]
Jobs ==
  {j \in [op : {"none", "create", "update", "delete", "add", "remove"}, id : OrNone(Ids),
          name : OrNone(Names), short : OrNone(Names), auto : BOOLEAN, m : OrNone(Members),
          phase : {"idle", "sent", "held", "fill", "done", "reading", "lost"},
          clean : BOOLEAN, late : BOOLEAN, missing : SUBSET Members] :
     j.phase = "fill" => j.id \in Ids}
Dialogs == [op : {"none", "delete", "remove"}, id : OrNone(Ids), m : OrNone(Members), late : BOOLEAN]
Pages == [view : Views, mode : {"list", "group", "new", "edit"}, id : OrNone(Ids), name : OrNone(Names),
          short : OrNone(Names), auto : BOOLEAN, marked : SUBSET {"name", "short"}, sure : BOOLEAN, dialog : Dialogs, left : Nat]
(* The values of the variables, the domains of the views included: the     *)
(* handlers and the page only refer to groups and members there are.       *)
TypeOK ==
  /\ scene \in Scenes /\ groups \in [Ids -> Group] /\ members \in SUBSET Members
  /\ joins \in [Members -> [on : BOOLEAN, auto : SUBSET Ids, missed : SUBSET Ids]]
  /\ inbox \in SUBSET Admins /\ answers \in [Admins -> SUBSET Answers]
  /\ checks \in SUBSET Checks /\ job \in [Admins -> Jobs] /\ page \in [Admins -> Pages]
  /\ hasty \in SUBSET Ids /\ disturbed \in SUBSET Ids /\ doubt \in [Admins -> BOOLEAN]

(* No two groups of a collaboration have the same short name, whatever     *)
(* forms and requests overlap.  Two that no service made have the same name*)
(* only if one was given it hastily: by an edit sent before the verdict on *)
(* that name had come or after it had become old, or by a group made while *)
(* another request named a group.  The form asks, create_group looks once  *)
(* before it saves, update_group never looks; short names have a unique    *)
(* index, which refuses the second row, and names have none.               *)
NamesApart ==
  \A i, j \in Here : i # j =>
    /\ groups[i].short # groups[j].short
    /\ ~groups[i].service /\ ~groups[j].service /\ groups[i].name = groups[j].name
         => i \in hasty \/ j \in hasty

(* When no handler works on it, a group that has all members has them all, *)
(* unless something overlapped its filling: a removal asked for before the *)
(* page showed the group fills itself, a member who joined while it became *)
(* so (or while that of a group of a service is at it), or a filling that  *)
(* failed.  The switch is saved, the members are added by a second commit, *)
(* and whoever joins adds himself.                                         *)
Working(i) ==
  \E a \in Admins : job[a].id = i /\ job[a].phase = "fill"
AutoGroupsHoldEveryone ==
  \A i \in Provisioned \ disturbed :
    Working(i) \/ \A m \in members : groups[i].rows[m] > 0

(* A tab nothing is on its way to shows the groups as they are, unless its *)
(* last reading came before a commit it was told of too early (a deletion, *)
(* the switch of a group of a service), or was overtaken, or a filling     *)
(* failed, of which nobody is told.                                        *)
Waiting(a) == job[a].phase \in {"sent", "held", "fill", "done", "reading"}
PagesCatchUp ==
  (\A b \in Admins : job[b].phase \notin {"sent", "held", "fill"}) =>
    \A a \in Admins :
      ~Waiting(a) /\ a \notin inbox /\ answers[a] = {} /\ ~doubt[a]
        => page[a].view = Shown
===============================================================================
