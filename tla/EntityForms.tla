----------------------------- MODULE EntityForms ------------------------------
(***************************************************************************)
(* The forms by which users make, edit and delete collaborations,          *)
(* organisations and services and invite people to them: what is asked of  *)
(* the server while a form is being filled in, what is sent in the end,    *)
(* and what the handlers make of it.                                       *)
(***************************************************************************)
EXTENDS Naturals, Sequences, FiniteSets

CONSTANTS
  Users,
  Scenes   \* what Init chooses from: see SceneAssumption

(* "members", "managers" and "admins": who a form of invitations is for.   *)
Inviting == {"members", "managers", "admins"}
Forms == {"collaboration", "organisation", "service"} \union Inviting
Roles == {"platform", "manager", "member", "stranger"}
Ops == {"name", "short", "entity", "org", "logo", "text", "uri", "mail", "flag", "homes", "net",
        "invite", "message", "dates", "submit", "leave", "delete"}
Homes == {"h1", "h2", "h3"}
(* The form each user has, whether it edits what there is, who they are,   *)
(* what they do and how often; which forms are open and filled in at the   *)
(* start; of the organisation and the collaboration that are edited, the   *)
(* homes (not that of the other organisation), the switch for creations and*)
(* that for join requests.                                                 *)
ASSUME SceneAssumption ==
  Scenes \subseteq [form : [Users -> Forms], edit : SUBSET Users, role : [Users -> Roles],
                    ops : [Users -> SUBSET Ops], budget : [Users -> Nat], filled : SUBSET Users,
                    homes : SUBSET (Homes \ {"h3"}), creation : BOOLEAN, joins : BOOLEAN]

VARIABLES
  scene,   \* the scene of this behaviour, which never changes
  db,      \* what there is, the invitations, members and requests
  net,     \* the requests on their way, those being handled and the answers not heard
  page,    \* the form of each user
  excuse   \* the verdicts that have come late, or that something has overtaken (history)

vars == <<scene, db, net, page, excuse>>

Names == {"a", "b", "d"}
Organisations == {1, 2}
TheService == 6
Entity(kind, id, org, name) ==
  [kind |-> kind, id |-> id, org |-> org, name |-> name, short |-> name,
   entity |-> IF kind = "service" THEN name ELSE "", uri |-> "good", text |-> "good",
   joins |-> TRUE, creation |-> FALSE, homes |-> {}]
Nothing == Entity("none", 0, 0, "")
(* What a form can change of what there is.                                *)
Fields == {"name", "short", "entity", "uri", "text", "joins", "creation", "homes"}
Of(record) == [f \in Fields |-> record[f]]
Row(v) == [value |-> v, error |-> FALSE]
Fresh ==
  [id |-> 0, name |-> "", short |-> "", entity |-> "", uri |-> "", text |-> "", joins |-> TRUE,
   creation |-> FALSE, homes |-> {}, org |-> 0, logo |-> "", mail |-> "", message |-> "",
   complied |-> FALSE, nets |-> << >>, invited |-> {}, self |-> FALSE, expires |-> 1, ends |-> 0]

Mode(u) ==
  IF u \in scene.edit THEN "edit"
  ELSE IF scene.form[u] = "collaboration" /\ scene.role[u] = "member" THEN "request" ELSE "new"
(* "wanted" is what the user has seen and typed (history).                 *)
Empty(u) ==
  [at |-> "closed", draft |-> Fresh, wanted |-> Of(Fresh), loaded |-> Nothing, orgs |-> {},
   exists |-> {}, marks |-> {}, marksAt |-> 0, listAt |-> 0, arrays |-> 0, invalid |-> {},
   initial |-> TRUE, busy |-> FALSE, dialog |-> "none", onCancel |-> "stay", orgLogo |-> FALSE,
   n |-> 0]
(* The form has a switch "allow join requests", and what is read of a      *)
(* collaboration the opposite, under another name: the switch stays on.    *)
LoadedCollaboration(p, e) ==
  [p EXCEPT !.at = "open", !.loaded = e, !.wanted = Of(e), !.orgs = {e.org},
     !.draft = [Fresh EXCEPT !.id = e.id, !.org = e.org, !.logo = "url", !.name = e.name,
                             !.short = e.short, !.uri = e.uri, !.text = e.text]]
LoadedOrganisationAsNew(p, e) ==
  [p EXCEPT !.at = "open", !.loaded = e, !.wanted = Of(e),
     !.draft = [Fresh EXCEPT !.id = e.id, !.logo = "url", !.name = e.name, !.short = e.short,
                             !.uri = e.uri, !.text = e.text, !.homes = e.homes]]
LoadedOrganisation(p, e) ==
  [p EXCEPT !.at = "open", !.loaded = e, !.wanted = Of(e),
     !.draft = [Fresh EXCEPT !.id = e.id, !.logo = "url", !.name = e.name, !.short = e.short,
                             !.uri = e.uri, !.text = e.text, !.homes = e.homes,
                             !.creation = e.creation]]
(* A form for something new: a requester becomes its admin.                *)
OfOrganisations(p, orgs, org, request) ==
  [p EXCEPT !.at = "open", !.orgs = orgs, !.draft.org = org, !.draft.self = request]
NewService(p) ==
  [p EXCEPT !.at = "open", !.draft.nets = <<Row("")>>]
Invitation(p, e) == [p EXCEPT !.at = "open", !.loaded = e]
(* All but the names has been filled in.                                   *)
FilledIn(p) ==
  LET d == [p.draft EXCEPT !.logo = "own", !.text = "good", !.uri = "good", !.mail = "good",
              !.name = "d", !.short = "d", !.complied = TRUE, !.message = "good",
              !.entity = IF p.draft.nets = << >> THEN "" ELSE "d"]
  IN [p EXCEPT !.draft = d, !.wanted = Of(d)]

Target(u) ==
  CASE scene.form[u] \in {"collaboration", "members"} -> 3
    [] scene.form[u] \in {"organisation", "managers"} -> 1
    [] OTHER -> TheService
Find(id) == CHOOSE e \in db.entities : e.id = id
Exists(id) == \E e \in db.entities : e.id = id
Mine(u) ==
  CASE scene.role[u] = "platform" -> Organisations
    [] scene.role[u] = "manager" -> {1}
    [] OTHER -> {}
(* The organisation whose home is that of the user, and that of a domain   *)
(* above it.                                                               *)
ByHome(u) == IF scene.role[u] = "member" THEN Organisations ELSE {}
Opened(u, form) ==
  LET p == Empty(u)
  IN CASE form = "collaboration" /\ Mode(u) = "edit" -> LoadedCollaboration(p, Find(3))
       [] form = "organisation" /\ Mode(u) = "edit" -> LoadedOrganisation(p, Find(1))
       [] form = "collaboration" /\ Mode(u) = "new" ->
            FilledIn(OfOrganisations(p, Mine(u), 1, FALSE))
       [] form = "collaboration" /\ Mode(u) = "request" ->
            FilledIn(OfOrganisations(p, ByHome(u), 1, TRUE))
       [] form = "organisation" /\ Mode(u) = "new" -> FilledIn([p EXCEPT !.at = "open"])
       [] form = "service" -> FilledIn(NewService(p))
       [] OTHER -> Invitation(p, Find(Target(u)))
Init ==
  /\ scene \in Scenes
  /\ db = [entities |->
             {[Entity("organisation", 1, 0, "a") EXCEPT !.homes = scene.homes,
                                                        !.creation = scene.creation],
              [Entity("organisation", 2, 0, "b") EXCEPT !.homes = {"h3"}],
              [Entity("collaboration", 3, 1, "a") EXCEPT !.joins = scene.joins],
              Entity("collaboration", 4, 2, "d"), Entity("collaboration", 5, 1, "b"),
              Entity("service", TheService, 0, "a")},
           invited |-> {}, members |-> {}, requests |-> {}, made |-> 7]
  /\ net = {} /\ excuse = {}
  /\ page = [u \in Users |-> IF u \in scene.filled THEN Opened(u, scene.form[u]) ELSE Empty(u)]

-------------------------------------------------------------------------------
(* Calls.                                                                  *)

Call(u, op) ==
  [by |-> u, op |-> op, status |-> "sent", draft |-> Fresh, wanted |-> Of(Fresh),
   got |-> Nothing, orgs |-> {}, field |-> "name", value |-> "", org |-> 0, row |-> 0,
   error |-> FALSE, homes |-> {}, listAt |-> 0, exists |-> {}, marks |-> {}, marksAt |-> 0,
   id |-> CHOOSE i \in 0 .. Cardinality(net) : \A c \in net : c.by # u \/ c.op # op \/ c.id # i]
Sends(calls) == net' = net \union calls
Answers(c, d) == net' = (net \ {c}) \union {d}
Done(c, status) == [Call(c.by, c.op) EXCEPT !.status = status, !.id = c.id]
Fails(c) == Answers(c, Done(c, "failed")) /\ UNCHANGED <<db, excuse>>

-------------------------------------------------------------------------------
(* Opening a form.                                                         *)

Opens(u, form, calls) ==
  /\ scene.form[u] = form /\ page[u].at = "closed" /\ page[u].n < scene.budget[u]
  /\ page' = [page EXCEPT ![u].at = "loading"] /\ Sends(calls)
  /\ UNCHANGED <<scene, db, excuse>>
OpenCollaborationForm(u) ==
  Opens(u, "collaboration", {Call(u, IF Mode(u) = "edit" THEN "read" ELSE "mine")})
OpenOrganisationForm(u) ==
  Opens(u, "organisation", {Call(u, IF Mode(u) = "edit" THEN "read" ELSE "health")})
OpenServiceForm(u) ==
  /\ scene.form[u] = "service" /\ page[u].at = "closed" /\ page[u].n < scene.budget[u]
  /\ page' = [page EXCEPT ![u] =
       IF scene.role[u] = "platform" THEN NewService(@) ELSE [@ EXCEPT !.at = "left"]]
  /\ UNCHANGED <<scene, db, net, excuse>>
OpenMemberInvitations(u) == Opens(u, "members", {Call(u, "read")})
OpenManagerInvitations(u) == Opens(u, "managers", {Call(u, "read")})
OpenAdminInvitations(u) == Opens(u, "admins", {Call(u, "read")})

-------------------------------------------------------------------------------
(* Filling in a form.                                                      *)

Free(u, op) ==
  /\ op \in scene.ops[u] /\ page[u].n < scene.budget[u]
  /\ page[u].at = "open" /\ ~page[u].busy /\ page[u].dialog = "none"
On(u, form, op) == scene.form[u] = form /\ Free(u, op)
Shows(u, p) == page' = [page EXCEPT ![u] = [p EXCEPT !.n = @ + 1]]
OnlyForms == UNCHANGED <<scene, db, excuse>>
Sets(p, field, v) == [p EXCEPT !.draft[field] = v, !.wanted[field] = v]

(* The names that a form may not share with others, and the name that what *)
(* is edited has already.                                                  *)
NamesOf(form) == IF form = "service" THEN {"name", "entity", "short"} ELSE {"name", "short"}
AsksExists(u, field, v, org) ==
  {[Call(u, "exists") EXCEPT !.field = field, !.value = v, !.org = org,
                             !.got = page[u].loaded]}
Types(u, field) ==
  \E v \in Names \union {""} :
    /\ v # page[u].draft[field]
    /\ Shows(u, [Sets(page[u], field, v) EXCEPT !.exists = @ \ {field}])
    /\ Sends(AsksExists(u, field, v, page[u].draft.org)) /\ OnlyForms
Fills(u, field) ==
  \E v \in {"", "good"} :
    v # page[u].draft[field] /\ Shows(u, [page[u] EXCEPT !.draft[field] = v])
    /\ UNCHANGED net /\ OnlyForms
FillsAddress(u, field) ==
  \E v \in {"", "good", "bad"} :
    /\ v # page[u].draft[field]
    /\ Shows(u, [page[u] EXCEPT !.draft[field] = v,
                  !.invalid = IF v = "bad" THEN @ \union {field} ELSE @ \ {field}])
    /\ UNCHANGED net /\ OnlyForms
Flips(u, field) ==
  Shows(u, Sets(page[u], field, ~page[u].draft[field])) /\ UNCHANGED net /\ OnlyForms

EditCollaborationName(u) == On(u, "collaboration", "name") /\ Types(u, "name")
EditCollaborationShortName(u) ==
  /\ On(u, "collaboration", "short") /\ (Mode(u) # "edit" \/ scene.role[u] = "platform")
  /\ Types(u, "short")
DescribeCollaboration(u) ==
  /\ On(u, "collaboration", "text")
  /\ \E v \in {"", "good"} :
       v # page[u].draft.text /\ Shows(u, Sets(page[u], "text", v)) /\ UNCHANGED net /\ OnlyForms
(* Only the field of a request has to be filled in.                        *)
Motivate(u) == On(u, "collaboration", "message") /\ Mode(u) = "request" /\ Fills(u, "message")
EditWebsite(u) ==
  /\ On(u, "collaboration", "uri")
  /\ \E v \in {"", "good", "bad"} :
       /\ v # page[u].draft.uri
       /\ Shows(u, [Sets(page[u], "uri", v) EXCEPT !.invalid = IF v = "bad" THEN {"uri"} ELSE {}])
       /\ UNCHANGED net /\ OnlyForms
FlipJoinRequests(u) == On(u, "collaboration", "flag") /\ Mode(u) # "request" /\ Flips(u, "joins")
ChooseOrganisationOnly(u) ==
  /\ On(u, "collaboration", "org") /\ Cardinality(page[u].orgs) > 1
  /\ \E o \in page[u].orgs \ {page[u].draft.org} :
       /\ Shows(u, [page[u] EXCEPT !.draft.org = o, !.draft.logo = IF page[u].orgLogo THEN "url" ELSE @])
       /\ UNCHANGED net
  /\ OnlyForms
(* Another organisation: both names are asked about again, and its logo    *)
(* replaces that of the other.                                             *)
ChooseOrganisation(u) ==
  /\ On(u, "collaboration", "org") /\ Cardinality(page[u].orgs) > 1
  /\ \E o \in page[u].orgs \ {page[u].draft.org} :
       /\ Shows(u, [page[u] EXCEPT !.draft.org = o, !.draft.logo = IF page[u].orgLogo THEN "url" ELSE @])
       /\ Sends(AsksExists(u, "name", page[u].draft.name, o)
                \union {[c EXCEPT !.id = @ + 1] : c \in AsksExists(u, "short", page[u].draft.short, o)})
  /\ OnlyForms
UploadLogo(u) ==
  Free(u, "logo") /\ Shows(u, [page[u] EXCEPT !.draft.logo = "own"]) /\ UNCHANGED net /\ OnlyForms
(* The image of the organisation is fetched; until it has come the box is  *)
(* not checked.                                                            *)
UseOrganisationLogo(u) ==
  /\ On(u, "collaboration", "logo") /\ Mode(u) # "edit"
  /\ IF page[u].orgLogo
       THEN Shows(u, [page[u] EXCEPT !.orgLogo = FALSE, !.draft.logo = ""]) /\ UNCHANGED net
       ELSE Shows(u, page[u]) /\ Sends({[Call(u, "logo") EXCEPT !.status = "ok"]})
  /\ OnlyForms

EditOrganisationName(u) == On(u, "organisation", "name") /\ Types(u, "name")
EditOrganisationShortName(u) ==
  On(u, "organisation", "short") /\ scene.role[u] = "platform" /\ Types(u, "short")
DescribeOrganisation(u) ==
  /\ On(u, "organisation", "text")
  /\ \E v \in {"", "good"} :
       v # page[u].draft.text /\ Shows(u, Sets(page[u], "text", v)) /\ UNCHANGED net /\ OnlyForms
FlipCreation(u) ==
  On(u, "organisation", "flag") /\ page[u].draft.homes # {} /\ Flips(u, "creation")

EditServiceName(u) == On(u, "service", "name") /\ Types(u, "name")
EditEntityId(u) == On(u, "service", "entity") /\ Types(u, "entity")
EditAbbreviation(u) == On(u, "service", "short") /\ Types(u, "short")
EditPolicy(u) ==
  /\ On(u, "service", "uri")
  /\ \E v \in {"", "good", "bad"} :
       /\ v # page[u].draft.uri
       /\ Shows(u, [Sets(page[u], "uri", v) EXCEPT
                     !.invalid = IF v = "bad" THEN @ \union {"uri"} ELSE @ \ {"uri"}])
       /\ UNCHANGED net /\ OnlyForms
EditMail(u) == On(u, "service", "mail") /\ FillsAddress(u, "mail")
Comply(u) ==
  /\ On(u, "service", "flag") /\ ~page[u].draft.complied
  /\ Shows(u, [page[u] EXCEPT !.draft.complied = TRUE]) /\ UNCHANGED net /\ OnlyForms

(* The networks of a service are known by their row.                       *)
AddNetwork(u) ==
  /\ On(u, "service", "net") /\ Len(page[u].draft.nets) < 2
  /\ Shows(u, [page[u] EXCEPT !.draft.nets = Append(@, Row(""))]) /\ UNCHANGED net /\ OnlyForms
TypeNetwork(u) ==
  /\ On(u, "service", "net")
  /\ \E i \in DOMAIN page[u].draft.nets, v \in {"", "good", "bad"} :
       /\ v # page[u].draft.nets[i].value
       /\ Shows(u, [page[u] EXCEPT !.draft.nets[i].value = v])
       /\ IF v = "" THEN UNCHANGED net
          ELSE Sends({[Call(u, "network") EXCEPT !.status = "ok", !.row = i, !.value = v,
                                                 !.error = (v = "bad")]})
  /\ OnlyForms
Without(s, i) == SubSeq(s, 1, i - 1) \o SubSeq(s, i + 1, Len(s))
Spliced(s, i, r) == IF i <= Len(s) THEN [s EXCEPT ![i] = r] ELSE Append(s, r)
DeleteNetwork(u) ==
  /\ On(u, "service", "net")
  /\ \E i \in DOMAIN page[u].draft.nets :
       Shows(u, [page[u] EXCEPT !.draft.nets = Without(@, i)])
  /\ UNCHANGED net /\ OnlyForms

Overlaps(u, ops) ==
  /\ excuse' = IF \A c \in net : c.by = u => c.op \notin ops THEN excuse
               ELSE excuse \union {<<u, "homes">>, <<u, "marks">>}
  /\ UNCHANGED <<scene, db>>
(* A home is put into the list that is shown, which the calls that are     *)
(* under way have in their hands, and then asked about.                    *)
AddHome(u) ==
  /\ On(u, "organisation", "homes") /\ scene.role[u] = "platform"
  /\ \E h \in Homes \ page[u].draft.homes :
       LET p == [page[u] EXCEPT !.draft.homes = @ \union {h}, !.wanted.homes = @ \union {h}]
       IN /\ Shows(u, p)
          /\ net' = {IF c.by = u /\ c.op = "home" /\ c.listAt = p.listAt
                       THEN [c EXCEPT !.homes = @ \union {h}] ELSE c : c \in net}
                    \union {[Call(u, "home") EXCEPT
                              !.value = h, !.homes = p.draft.homes, !.listAt = p.listAt,
                              !.exists = p.exists, !.marks = p.marks, !.marksAt = p.marksAt]}
  /\ Overlaps(u, {"home", "homes"})
(* The list without it is shown when all that is left has been asked about.*)
RemoveHome(u) ==
  /\ On(u, "organisation", "homes") /\ scene.role[u] = "platform"
  /\ \E h \in page[u].draft.homes :
       LET left == page[u].draft.homes \ {h}
           p == [page[u] EXCEPT !.wanted.homes = @ \ {h}]
       IN IF left = {}
            THEN /\ Shows(u, [p EXCEPT !.draft.homes = {}, !.marks = {}, !.marksAt = 0,
                                       !.arrays = @ + 1, !.listAt = p.arrays + 1])
                 /\ UNCHANGED net
            ELSE /\ Shows(u, p)
                 /\ Sends({[Call(u, "homes") EXCEPT !.homes = left, !.exists = p.exists]})
  /\ Overlaps(u, {"home", "homes"})

(* Addresses to invite; that of the user goes with the box "I will be an   *)
(* admin".                                                                 *)
Mails == {"x", "y", "own"}
AddMail(u) ==
  /\ Free(u, "invite") /\ Mode(u) = "new"
  /\ \E m \in Mails \ page[u].draft.invited :
       Shows(u, [page[u] EXCEPT !.draft.invited = @ \union {m}])
  /\ UNCHANGED net /\ OnlyForms
RemoveMail(u) ==
  /\ Free(u, "invite") /\ Mode(u) = "new"
  /\ \E m \in page[u].draft.invited :
       /\ m = "own" => ~page[u].draft.self
       /\ Shows(u, [page[u] EXCEPT !.draft.invited = @ \ {m}])
  /\ UNCHANGED net /\ OnlyForms
FlipCurrentUserAdmin(u) ==
  /\ On(u, "collaboration", "invite") /\ Mode(u) = "new"
  /\ Shows(u, [page[u] EXCEPT !.draft.self = ~@,
       !.draft.invited = IF page[u].draft.self THEN @ \ {"own"} ELSE @ \union {"own"}])
  /\ UNCHANGED net /\ OnlyForms

Days == 1 .. 3
SetExpiryAlone(u) ==
  /\ On(u, "members", "dates")
  /\ \E d \in {1, 2} \ {page[u].draft.expires} : Shows(u, [page[u] EXCEPT !.draft.expires = d])
  /\ UNCHANGED net /\ OnlyForms
SetExpiry(u) ==
  /\ On(u, "members", "dates")
  /\ \E d \in {1, 2} \ {page[u].draft.expires} :
       Shows(u, [page[u] EXCEPT !.draft.expires = d,
         !.draft.ends = IF @ # 0 /\ d >= @ THEN d + 1 ELSE @])
  /\ UNCHANGED net /\ OnlyForms
SetMembershipEnd(u) ==
  /\ On(u, "members", "dates")
  /\ \E d \in {0} \union {t \in Days : t > page[u].draft.expires} :
       d # page[u].draft.ends /\ Shows(u, [page[u] EXCEPT !.draft.ends = d])
  /\ UNCHANGED net /\ OnlyForms

-------------------------------------------------------------------------------
(* Sending it, leaving, deleting.                                          *)

ValidCollaboration(u, p) ==
  /\ p.exists = {} /\ p.invalid = {} /\ "" \notin {p.draft.name, p.draft.short, p.draft.text, p.draft.logo}
  /\ Mode(u) = "request" => p.draft.message # ""
ValidOrganisation(u, p) ==
  /\ p.exists = {} /\ p.marks = {} /\ "" \notin {p.draft.name, p.draft.short, p.draft.logo}
  /\ Mode(u) = "new" => p.draft.invited # {}
ValidService(p) ==
  /\ p.exists = {} /\ p.invalid = {} /\ p.draft.complied
  /\ "" \notin {p.draft.name, p.draft.entity, p.draft.short, p.draft.uri, p.draft.logo, p.draft.mail}
  /\ \A i \in DOMAIN p.draft.nets : ~p.draft.nets[i].error
ValidInvitation(p) == p.draft.invited # {}
Valid(u, p) ==
  CASE scene.form[u] = "collaboration" -> ValidCollaboration(u, p)
    [] scene.form[u] = "organisation" -> ValidOrganisation(u, p)
    [] scene.form[u] = "service" -> ValidService(p)
    [] OTHER -> ValidInvitation(p)
WaitsOpen(p) == [p EXCEPT !.initial = FALSE]
(* A spinner takes the place of the form, and nothing takes it away but    *)
(* a good answer.                                                          *)
Waits(p) == [p EXCEPT !.initial = FALSE, !.busy = TRUE]
Submits(u, op, draft) ==
  /\ Free(u, "submit") /\ (page[u].initial \/ Valid(u, page[u]))
  /\ IF Valid(u, page[u])
       THEN /\ Shows(u, Waits(page[u]))
            /\ Sends({[Call(u, op) EXCEPT !.draft = draft, !.wanted = page[u].wanted,
                                          !.got = page[u].loaded]})
       ELSE Shows(u, [page[u] EXCEPT !.initial = FALSE]) /\ UNCHANGED net
  /\ Overlaps(u, {"homes"})
SubmitCollaboration(u) ==
  /\ scene.form[u] = "collaboration" /\ Mode(u) # "edit"
  /\ Submits(u, IF Mode(u) = "request" THEN "request" ELSE "create", page[u].draft)
UpdateCollaboration(u) ==
  /\ scene.form[u] = "collaboration" /\ Mode(u) = "edit" /\ Submits(u, "update", page[u].draft)
(* The switch for creations is not sent with a new organisation.           *)
SubmitOrganisation(u) ==
  /\ scene.form[u] = "organisation" /\ Mode(u) = "new"
  /\ Submits(u, "create", [page[u].draft EXCEPT !.creation = FALSE])
UpdateOrganisation(u) ==
  /\ scene.form[u] = "organisation" /\ Mode(u) = "edit" /\ Submits(u, "update", page[u].draft)
SubmitService(u) ==
  /\ scene.form[u] = "service"
  /\ Submits(u, "create", [page[u].draft EXCEPT !.nets = SelectSeq(@, LAMBDA r : r.value # "")])
InviteMembers(u) == scene.form[u] = "members" /\ Submits(u, "invite", page[u].draft)
InviteManagers(u) == scene.form[u] = "managers" /\ Submits(u, "invite", page[u].draft)
InviteAdmins(u) == scene.form[u] = "admins" /\ Submits(u, "invite", page[u].draft)

(* To leave the page is what "cancel" of the dialog does.                  *)
Cancel(u) ==
  /\ Free(u, "leave") /\ Shows(u, [page[u] EXCEPT !.dialog = "leave", !.onCancel = "leave"])
  /\ UNCHANGED net /\ OnlyForms
DeleteCollaboration(u) ==
  /\ On(u, "collaboration", "delete") /\ Mode(u) = "edit"
  /\ Shows(u, [page[u] EXCEPT !.dialog = "delete", !.onCancel = "stay"])
  /\ UNCHANGED net /\ OnlyForms
(* What "cancel" does is what it did before.                               *)
DeleteOrganisation(u) ==
  /\ On(u, "organisation", "delete") /\ Mode(u) = "edit" /\ scene.role[u] = "platform"
  /\ Shows(u, [page[u] EXCEPT !.dialog = "delete"]) /\ UNCHANGED net /\ OnlyForms
CancelDialog(u) ==
  /\ page[u].at = "open" /\ page[u].dialog # "none"
  /\ page' = [page EXCEPT ![u].dialog = "none",
                          ![u].at = IF page[u].onCancel = "leave" THEN "left" ELSE "open"]
  /\ UNCHANGED net /\ OnlyForms
Stay(u) ==
  /\ page[u].at = "open" /\ page[u].dialog = "leave"
  /\ page' = [page EXCEPT ![u].dialog = "none"] /\ UNCHANGED net /\ OnlyForms
DoDeleteCollaboration(u) ==
  /\ scene.form[u] = "collaboration" /\ page[u].at = "open" /\ page[u].dialog = "delete"
  /\ page' = [page EXCEPT ![u].dialog = "none", ![u].busy = TRUE]
  /\ Sends({[Call(u, "delete") EXCEPT !.got = page[u].loaded]}) /\ OnlyForms
DoDeleteOrganisation(u) ==
  /\ scene.form[u] = "organisation" /\ page[u].at = "open" /\ page[u].dialog = "delete"
  /\ page' = [page EXCEPT ![u].dialog = "none"]
  /\ Sends({[Call(u, "delete") EXCEPT !.got = page[u].loaded]}) /\ OnlyForms

-------------------------------------------------------------------------------
(* The server.                                                             *)

Kind(u) == IF scene.form[u] \in Inviting THEN "none" ELSE scene.form[u]
Taken(kind, org, field, v, existing) ==
  v # existing /\ \E e \in db.entities : e.kind = kind /\ e.org = org /\ e[field] = v
HomeTaken(h, id) == \E e \in db.entities : e.kind = "organisation" /\ e.id # id /\ h \in e.homes
Serves(c, op) == c \in net /\ c.op = op /\ c.status = "sent" /\ UNCHANGED <<scene, page>>
Halfway(c, op, status) == c \in net /\ c.op = op /\ c.status = status /\ UNCHANGED <<scene, page>>
Ok(c) == Answers(c, Done(c, "ok"))

ServeRead(c) ==
  /\ Serves(c, "read")
  /\ IF ~Exists(Target(c.by)) THEN Fails(c)
     ELSE Answers(c, [Done(c, "ok") EXCEPT !.got = Find(Target(c.by))]) /\ UNCHANGED <<db, excuse>>
ServeMine(c) ==
  /\ Serves(c, "mine") /\ Answers(c, [Done(c, "ok") EXCEPT !.orgs = Mine(c.by)])
  /\ UNCHANGED <<db, excuse>>
ServeByHome(c) ==
  /\ Serves(c, "byHome") /\ Answers(c, [Done(c, "ok") EXCEPT !.orgs = ByHome(c.by)])
  /\ UNCHANGED <<db, excuse>>
ServeHealth(c) == Serves(c, "health") /\ Ok(c) /\ UNCHANGED <<db, excuse>>
ServeExists(c) ==
  /\ Serves(c, "exists")
  /\ Answers(c, [c EXCEPT !.status = "ok",
       !.error = Taken(Kind(c.by), c.org, c.field, c.value, c.got[c.field])])
  /\ UNCHANGED <<db, excuse>>
ServeHome(c) ==
  /\ Serves(c, "home")
  /\ Answers(c, [c EXCEPT !.status = "ok", !.error = HomeTaken(c.value, page[c.by].loaded.id)])
  /\ UNCHANGED <<db, excuse>>
ServeHomes(c) ==
  /\ Serves(c, "homes")
  /\ Answers(c, [c EXCEPT !.status = "ok",
       !.marks = {h \in c.homes : HomeTaken(h, page[c.by].loaded.id)}])
  /\ UNCHANGED <<db, excuse>>

(* What another has made, changed or removed is unknown to verdicts given. *)
Outdates(c) ==
  excuse' = excuse \union {<<u, f>> : u \in Users \ {c.by}, f \in NamesOf("service") \union {"marks"}}
(* The indexes of the database: names within an organisation, those of     *)
(* organisations, what a service is known by, and homes.                   *)
Clashes(kind, id, org, d) ==
  \E e \in db.entities :
    /\ e.id # id
    /\ \/ kind = "collaboration" /\ e.kind = kind /\ e.org = org /\ (e.name = d.name \/ e.short = d.short)
       \/ kind = "organisation" /\ e.kind = kind /\ e.name = d.name
       \/ kind = "service" /\ e.kind = kind /\ (e.entity = d.entity \/ e.short = d.short)
       \/ e.kind = "organisation" /\ e.homes \intersect d.homes # {}
Stored(kind, id, org, d) ==
  [kind |-> kind, id |-> id, org |-> org, name |-> d.name, short |-> d.short, entity |-> d.entity,
   uri |-> d.uri, text |-> d.text, joins |-> d.joins, creation |-> d.creation, homes |-> d.homes]
Refused(c) ==
  \/ Kind(c.by) = "collaboration"
     /\ \/ ~Exists(c.draft.org)
        \/ Taken("collaboration", c.draft.org, "name", c.draft.name, "")
        \/ Taken("collaboration", c.draft.org, "short", c.draft.short, "")
  \/ \E i \in DOMAIN c.draft.nets : c.draft.nets[i].value = "bad"
BeginCreate(c) ==
  /\ Serves(c, "create")
  /\ IF Refused(c) THEN Fails(c)
     ELSE Answers(c, [c EXCEPT !.status = "begun"]) /\ UNCHANGED <<db, excuse>>
CommitCreate(c) ==
  /\ Halfway(c, "create", "begun")
  /\ IF Clashes(Kind(c.by), 0, c.draft.org, c.draft) THEN Fails(c)
     ELSE /\ db' = [db EXCEPT !.made = @ + 1, !.entities = @ \union
                     {Stored(Kind(c.by), db.made, c.draft.org, c.draft)}]
          /\ Answers(c, [c EXCEPT !.status = "stored", !.row = db.made]) /\ Outdates(c)
Invites(c, id, mails) ==
  {[by |-> c.by, who |-> m, of |-> id, n |-> Cardinality(db.invited), ends |-> c.draft.ends, expires |-> c.draft.expires] : m \in mails}
(* The address of the creator of a collaboration is left out; the creator  *)
(* is a member if that was asked.  A mail that fails takes the invitations *)
(* with it, not what has been created.                                     *)
InvitedByCreate(c) ==
  IF Kind(c.by) = "collaboration" THEN c.draft.invited \ {"own"} ELSE c.draft.invited
FinishCreate(c) ==
  /\ Halfway(c, "create", "stored")
  /\ \/ /\ Ok(c)
        /\ db' = [db EXCEPT !.invited = @ \union Invites(c, c.row, InvitedByCreate(c)),
             !.members = IF c.draft.self THEN @ \union {[user |-> c.by, of |-> c.row]} ELSE @]
     \/ /\ c.draft.invited # {} \/ Kind(c.by) # "collaboration"
        /\ Answers(c, Done(c, "failed")) /\ UNCHANGED db
  /\ UNCHANGED excuse
(* The managers are told in the end: if that fails, what is stored stays.  *)
Tells(c) == Ok(c) \/ Answers(c, Done(c, "failed"))
(* The organisation of a request is that of the home of the user, by which *)
(* it is decided and checked; what is stored has the one of the form.      *)
ServeRequest(c) ==
  /\ Serves(c, "request")
  /\ IF ~Exists(1) THEN Fails(c)
     ELSE IF Find(1).creation
       THEN IF \/ Taken("collaboration", 1, "name", c.draft.name, "")
               \/ Taken("collaboration", 1, "short", c.draft.short, "")
               \/ Clashes("collaboration", 0, c.draft.org, c.draft)
            THEN Fails(c)
            ELSE /\ db' = [db EXCEPT !.made = @ + 1,
                      !.members = @ \union {[user |-> c.by, of |-> db.made]},
                      !.entities = @ \union {Stored("collaboration", db.made, c.draft.org, c.draft)}]
                 /\ Tells(c) /\ Outdates(c)
       ELSE /\ db' = [db EXCEPT !.requests = @ \union {[by |-> c.by, org |-> c.draft.org, n |-> Cardinality(db.requests)]}]
            /\ Tells(c) /\ UNCHANGED excuse
(* Invitations to a collaboration are stored one by one, so that a mail    *)
(* that fails leaves those before it.                                      *)
ServeInvite(c) ==
  /\ Serves(c, "invite")
  /\ LET id == c.got.id
     IN IF ~Exists(id) THEN Fails(c)
        ELSE \/ /\ db' = [db EXCEPT !.invited = @ \union Invites(c, id, c.draft.invited)]
                /\ Ok(c) /\ UNCHANGED excuse
             \/ \E some \in SUBSET c.draft.invited :
                  /\ some # {} /\ (scene.form[c.by] = "members" \/ some = c.draft.invited)
                  /\ db' = [db EXCEPT !.invited = @ \union
                      Invites(c, id, IF scene.form[c.by] = "members" THEN some ELSE {})]
                  /\ Answers(c, Done(c, "failed")) /\ UNCHANGED excuse

(* An update writes what differs from what its handler has read.  The name *)
(* of a collaboration is compared with others than its new name, so that   *)
(* only the index refuses it.                                              *)
BeginUpdate(c) ==
  /\ Serves(c, "update")
  /\ IF ~Exists(c.got.id) THEN Fails(c)
     ELSE /\ Answers(c, [c EXCEPT !.status = "begun", !.got = Find(c.got.id)])
          /\ UNCHANGED <<db, excuse>>
Written(e, c) ==
  [e EXCEPT
     !.name = IF c.draft.name = c.got.name THEN @ ELSE c.draft.name,
     !.short = IF c.draft.short = c.got.short THEN @ ELSE c.draft.short,
     !.uri = IF c.draft.uri = c.got.uri THEN @ ELSE c.draft.uri,
     !.text = IF c.draft.text = c.got.text THEN @ ELSE c.draft.text,
     !.joins = IF c.draft.joins = c.got.joins THEN @ ELSE c.draft.joins,
     !.creation = IF c.draft.creation = c.got.creation THEN @ ELSE c.draft.creation,
     !.homes = (@ \ (c.got.homes \ c.draft.homes)) \union c.draft.homes]
CommitUpdate(c) ==
  /\ Halfway(c, "update", "begun")
  /\ IF ~Exists(c.got.id) THEN Fails(c)
     ELSE LET e == Find(c.got.id)
              f == Written(e, c)
          IN IF Clashes(e.kind, e.id, e.org, f) THEN Fails(c)
             ELSE /\ db' = [db EXCEPT !.entities = (@ \ {e}) \union {f}]
                  /\ Ok(c) /\ Outdates(c)
ServeDelete(c) ==
  /\ Serves(c, "delete")
  /\ IF ~Exists(c.got.id) THEN Fails(c)
     ELSE /\ db' = [db EXCEPT !.entities = {e \in @ : e.id # c.got.id /\ e.org # c.got.id},
               !.invited = {i \in @ : i.of # c.got.id}]
          /\ Ok(c) /\ Outdates(c)

-------------------------------------------------------------------------------
(* The answers.                                                            *)

Hears(c, op, status, p, calls) ==
  /\ c \in net /\ c.op = op /\ c.status = status /\ page[c.by].at \in {"open", "loading"}
  /\ page' = [page EXCEPT ![c.by] = p] /\ net' = (net \ {c}) \union calls
  /\ UNCHANGED <<scene, db>>
HearCollaboration(c) ==
  /\ scene.form[c.by] = "collaboration"
  /\ Hears(c, "read", "ok", LoadedCollaboration(page[c.by], c.got), {}) /\ UNCHANGED excuse
HearOrganisation(c) ==
  /\ scene.form[c.by] = "organisation"
  /\ Hears(c, "read", "ok", LoadedOrganisation(page[c.by], c.got), {}) /\ UNCHANGED excuse
HearInvitation(c) ==
  /\ scene.form[c.by] \in Inviting
  /\ Hears(c, "read", "ok", Invitation(page[c.by], c.got), {}) /\ UNCHANGED excuse
HearHealth(c) ==
  Hears(c, "health", "ok", [page[c.by] EXCEPT !.at = "open"], {}) /\ UNCHANGED excuse
(* Who manages no organisation may make a request.                         *)
HearMine(c) ==
  /\ \E o \in IF c.orgs = {} THEN {0} ELSE c.orgs :
     Hears(c, "mine", "ok",
       IF c.orgs = {} THEN page[c.by] ELSE OfOrganisations(page[c.by], c.orgs, o, FALSE),
       IF c.orgs = {} THEN {Call(c.by, "byHome")} ELSE {})
  /\ UNCHANGED excuse
HearByHome(c) ==
  /\ \E o \in IF c.orgs = {} THEN {0} ELSE c.orgs :  \* none, or any of them
       Hears(c, "byHome", "ok",
         IF c.orgs = {} THEN [page[c.by] EXCEPT !.at = "none"]
         ELSE OfOrganisations(page[c.by], c.orgs, o, TRUE), {})
  /\ UNCHANGED excuse
HearExists(c) ==
  LET p == page[c.by]
      now == /\ c.value = p.draft[c.field] /\ c.org = p.draft.org
             /\ c.error = Taken(Kind(c.by), c.org, c.field, c.value, p.loaded[c.field])
  IN /\ Hears(c, "exists", "ok",
          [p EXCEPT !.exists = IF c.error THEN @ \union {c.field} ELSE @ \ {c.field}], {})
     /\ excuse' = IF now THEN excuse \ {<<c.by, c.field>>} ELSE excuse \union {<<c.by, c.field>>}
HearLogo(c) ==
  /\ Hears(c, "logo", "ok", [page[c.by] EXCEPT !.orgLogo = TRUE, !.draft.logo = "image"], {})
  /\ UNCHANGED excuse
HearNetwork(c) ==
  /\ Hears(c, "network", "ok",
       [page[c.by] EXCEPT !.draft.nets = Spliced(@, c.row, [value |-> c.value, error |-> c.error])], {})
  /\ UNCHANGED excuse
(* The verdicts on names are put back to what they were when it was asked. *)
PutsBack(c) ==
  excuse' = excuse \union {<<c.by, f>> : f \in
    {g \in {"name", "short"} : g \in c.exists <=> g \notin page[c.by].exists}}
(* The list becomes the one that was added to, and a home that is taken is *)
(* added to the marks of then: to the same list if there was one.          *)
HearHome(c) ==
  LET p == page[c.by]
      old == c.marks # {}
      at == p.arrays + 1
      marksAt == IF old \/ ~c.error THEN c.marksAt ELSE at
      marks == IF c.error THEN c.marks \union {c.value} ELSE c.marks
  IN /\ c \in net /\ c.op = "home" /\ c.status = "ok" /\ p.at = "open"
     /\ page' = [page EXCEPT ![c.by] =
          [p EXCEPT !.draft.homes = c.homes, !.listAt = at, !.arrays = at, !.exists = c.exists,
                    !.marks = marks, !.marksAt = marksAt]]
     /\ net' = {IF old /\ d.by = c.by /\ d.op = "home" /\ d.marksAt = c.marksAt
                  THEN [d EXCEPT !.marks = marks] ELSE d : d \in net \ {c}}
     /\ PutsBack(c) /\ UNCHANGED <<scene, db>>
HearHomes(c) ==
  LET p == page[c.by]
      at == p.arrays + 1
  IN /\ Hears(c, "homes", "ok",
          [p EXCEPT !.draft.homes = c.homes, !.listAt = at, !.arrays = at, !.exists = c.exists,
                    !.marks = c.marks, !.marksAt = IF c.marks = {} THEN 0 ELSE at], {})
     /\ PutsBack(c)
HearDone(c) ==
  /\ \E op \in {"create", "update", "request", "invite", "delete"} :
       Hears(c, op, "ok", [page[c.by] EXCEPT !.at = "left"], {})
  /\ UNCHANGED excuse
(* Nobody catches these: an error is shown, and the spinner if there is one*)
(* stays.  The error renders the app again, and the form of a new service  *)
(* takes that for the beginning: it is emptied and can be used again.      *)
Anew(u) == NewService([Empty(u) EXCEPT !.n = page[u].n])
BeginsAnew(c) == c.op = "create" /\ scene.form[c.by] = "service"
HearUnhandled(c) ==
  /\ \E op \in {"create", "update", "request", "invite", "delete"} :
       Hears(c, op, "failed", IF BeginsAnew(c) THEN Anew(c.by) ELSE page[c.by], {})
  /\ excuse' = IF BeginsAnew(c) THEN excuse \ {<<c.by, f>> : f \in NamesOf("service")} ELSE excuse
HearGone(c) ==
  /\ Hears(c, "read", "failed",
       IF scene.form[c.by] = "members" THEN [page[c.by] EXCEPT !.at = "left"] ELSE page[c.by], {})
  /\ UNCHANGED excuse
HearLate(c) ==
  /\ c \in net /\ c.status \in {"ok", "failed"} /\ page[c.by].at \in {"left", "none"}
  /\ net' = net \ {c} /\ UNCHANGED <<scene, db, page, excuse>>

User(u) ==
  \/ OpenCollaborationForm(u) \/ OpenOrganisationForm(u) \/ OpenServiceForm(u)
  \/ OpenMemberInvitations(u) \/ OpenManagerInvitations(u) \/ OpenAdminInvitations(u)
  \/ EditCollaborationName(u) \/ EditCollaborationShortName(u) \/ DescribeCollaboration(u)
  \/ Motivate(u) \/ EditWebsite(u) \/ FlipJoinRequests(u) \/ ChooseOrganisation(u)
  \/ UploadLogo(u) \/ UseOrganisationLogo(u)
  \/ EditOrganisationName(u) \/ EditOrganisationShortName(u) \/ DescribeOrganisation(u)
  \/ FlipCreation(u) \/ AddHome(u) \/ RemoveHome(u)
  \/ EditServiceName(u) \/ EditEntityId(u) \/ EditAbbreviation(u) \/ EditPolicy(u) \/ EditMail(u)
  \/ Comply(u) \/ AddNetwork(u) \/ TypeNetwork(u) \/ DeleteNetwork(u)
  \/ AddMail(u) \/ RemoveMail(u) \/ FlipCurrentUserAdmin(u) \/ SetExpiry(u) \/ SetMembershipEnd(u)
  \/ SubmitCollaboration(u) \/ UpdateCollaboration(u) \/ SubmitOrganisation(u)
  \/ UpdateOrganisation(u) \/ SubmitService(u)
  \/ InviteMembers(u) \/ InviteManagers(u) \/ InviteAdmins(u)
  \/ Cancel(u) \/ DeleteCollaboration(u) \/ DeleteOrganisation(u) \/ CancelDialog(u) \/ Stay(u)
  \/ DoDeleteCollaboration(u) \/ DoDeleteOrganisation(u)
Server(c) ==
  \/ ServeRead(c) \/ ServeMine(c) \/ ServeByHome(c) \/ ServeHealth(c) \/ ServeExists(c)
  \/ ServeHome(c) \/ ServeHomes(c) \/ BeginCreate(c) \/ CommitCreate(c) \/ FinishCreate(c)
  \/ ServeRequest(c) \/ ServeInvite(c) \/ BeginUpdate(c) \/ CommitUpdate(c) \/ ServeDelete(c)
Browser(c) ==
  \/ HearCollaboration(c) \/ HearOrganisation(c) \/ HearInvitation(c) \/ HearHealth(c)
  \/ HearMine(c) \/ HearByHome(c) \/ HearExists(c) \/ HearLogo(c) \/ HearNetwork(c)
  \/ HearHome(c) \/ HearHomes(c) \/ HearDone(c) \/ HearUnhandled(c) \/ HearGone(c) \/ HearLate(c)
Next == \/ \E u \in Users : User(u)
        \/ \E c \in net : Server(c) \/ Browser(c)
Spec == Init /\ [][Next]_vars

-------------------------------------------------------------------------------
(* Properties.                                                             *)

AtRest(u) ==
  page[u].at = "open" /\ ~page[u].busy /\ \A c \in net : c.by # u

(* A form with nothing left to hear marks the names and the homes that     *)
(* others have, in the organisation that is chosen, and no others; but for *)
(* answers that came late and what has changed since they were given.      *)
VerdictsMatch ==
  \A u \in Users :
    LET p == page[u]
    IN AtRest(u) =>
         /\ \A f \in NamesOf(scene.form[u]) :
              \/ <<u, f>> \in excuse
              \/ f \in p.exists <=> Taken(Kind(u), p.draft.org, f, p.draft[f], p.loaded[f])
         /\ \/ <<u, "marks">> \in excuse
            \/ p.marks = {h \in p.draft.homes : HomeTaken(h, p.loaded.id)}

(* What is made or changed by a form is what its user has typed and, for   *)
(* the rest, what was read for it: unless another change was committed     *)
(* within the handler, or homes were asked about at once.  It is not so of *)
(* the switch of join requests when a collaboration is edited, and that of *)
(* creations when an organisation is made.                                 *)
SavesWhatWasTyped ==
  [][\A c \in net : \A e \in db'.entities \ db.entities :
       LET known == Exists(e.id)
           others == known /\ Of(Find(e.id)) # Of(c.got)
       IN c \notin net' =>
            \A f \in Fields \ {IF known THEN "joins" ELSE "creation"} :
              e[f] = c.wanted[f] \/ others \/ (f = "homes" /\ <<c.by, f>> \in excuse)]_vars

(* No form lets anybody in twice: an address is invited once, and not the  *)
(* one of a user who has become a member; a user makes one request.  A     *)
(* collaboration is known by its short name in its organisation, and a user*)
(* by their home to one organisation.                                      *)
ComesInOnce ==
  /\ \A e, f \in db.entities : e # f =>
       /\ e.homes \intersect f.homes = {}
       /\ e.kind = "collaboration" /\ f.kind = e.kind => e.org # f.org \/ e.short # f.short
  /\ \A i, j \in db.invited : i.by = j.by /\ i.who = j.who => i = j
  /\ \A i \in db.invited, m \in db.members : i.of = m.of => i.who # "own"
  /\ \A r, q \in db.requests : r.by = q.by => r = q
(* A membership ends after the last day its invitation can be accepted.    *)
EndsAfterInvitation ==
  \A i \in db.invited : i.ends # 0 => i.ends > i.expires

(* en.js: when the box is checked, non-members can issue a join request;   *)
(* editing another field of a collaboration does not change that.          *)
EditKeepsJoinRequests ==
  [][\A c \in net : \A e \in db'.entities \ db.entities :
       Exists(e.id) /\ c \notin net' => e.joins = c.wanted.joins]_vars
===============================================================================
