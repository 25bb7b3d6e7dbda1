----------------------------- MODULE MembersPage ------------------------------
(***************************************************************************)
(* The tabs that administer the members and invitations of a collaboration,*)
(* an organisation or a service, open in several browsers at once, with the*)
(* handlers of the server they call and the socket that tells the other    *)
(* browsers to read again.  Each browser acts on its own copy of the rows. *)
(***************************************************************************)
EXTENDS Naturals, FiniteSets

CONSTANTS
  Users, Invites,  \* the rows: the membership of a user, an invitation
  Invitee, Intended, \* of an invitation: who may accept it, and the role
  Id,              \* the number of a row in its table; tables share numbers
  Actors,          \* the users with the page open
  Super,           \* of those, platform admins: allowed without a membership
  Scenes,          \* what Init chooses from: see SceneAssumption
  Queries,         \* what a search may match: sets of rows
  Groups,          \* the users in each group that the filter offers
  NoSearch         \* resultAfterSearch is false

Rows == Users \union Invites
Gone == "gone"
(* A membership has a role ("member" is also the manager of organisations);*)
(* an invitation is open or lapsed, that is, past its expiry date.         *)
States == {"admin", "member", "open", "lapsed", Gone}
PageKinds == {"collaboration", "organisation", "service"}

ASSUME RowsAssumption ==
  /\ Invitee \in [Invites -> Users] /\ Intended \in [Invites -> {"admin", "member"}]
  /\ Actors \subseteq Users /\ Super \subseteq Actors /\ Users \cap Invites = {}
  /\ IsFiniteSet(Rows) /\ Id \in [Rows -> Nat]
  /\ Queries \subseteq SUBSET Rows /\ Groups \subseteq SUBSET Users
  /\ NoSearch \notin Queries
(* The kind of page, the rows to begin with, whether invitees accept, what *)
(* each user does and the bound: the operations each browser sends.        *)
Uses == {"select", "icon", "role", "dates", "resend", "search"}
ASSUME SceneAssumption ==
  Scenes \subseteq [page : PageKinds, rows : [Rows -> States], accept : BOOLEAN,
                    does : [Actors -> SUBSET Uses], budget : [Actors -> Nat]]

VARIABLES
  scene,    \* the scene of this behaviour, which never changes
  db,       \* the rows of the server
  version,  \* counts the changes of db
  calls,    \* the requests in flight and the answers not yet heard
  fetches,  \* the reads of the whole page in flight
  inbox,    \* the browsers a socket message is on its way to
  view, seen,      \* the rows a browser shows and the version it read
  refs, ticked,    \* selectedMembers: rows as at the last mount, checked ones
  mixed,           \* some were checked on other rows than those (history)
  found,           \* resultAfterSearch
  hiding,          \* the rows that filterValue and hideInvitees leave out
  dialog, loading, \* of the component's state
  where,           \* "page", or where the browser went
  jobs,            \* operations sent
  blind            \* the browser read too early or an overtaken answer (history)

browser == <<view, seen, refs, ticked, mixed, found, hiding, dialog, loading, where, jobs, blind>>
vars == <<scene, db, version, calls, fetches, inbox, browser>>

-------------------------------------------------------------------------------
page == scene.page
(* What the rows say.                                                      *)
Here(t) == {r \in Rows : t[r] # Gone}
Admins(t) == {u \in Users : t[u] = "admin"}
(* componentDidUpdate compares the lengths of the two lists, not the rows. *)
Lengths(t) == <<Cardinality(Here(t) \cap Users), Cardinality(Here(t) \cap Invites)>>
(* isUserAllowed for this object: its admin or a platform admin.           *)
MayAdminister(t, a) == a \in Super \/ t[a] = "admin"

NoDialog == [op |-> "none", rows |-> {}, role |-> "member", warned |-> FALSE, raced |-> FALSE]
Question(op, rows, role, warned, raced) ==
  [op |-> op, rows |-> rows, role |-> role, warned |-> warned, raced |-> raced]

Init ==
  /\ scene \in Scenes /\ db = scene.rows
  /\ version = 0 /\ calls = {} /\ fetches = {} /\ inbox = {}
  /\ view = [a \in Actors |-> db] /\ seen = [a \in Actors |-> 0]
  /\ refs = [a \in Actors |-> db] /\ ticked = [a \in Actors |-> {}]
  /\ mixed = [a \in Actors |-> FALSE]
  /\ found = [a \in Actors |-> NoSearch] /\ hiding = [a \in Actors |-> {}]
  /\ dialog = [a \in Actors |-> NoDialog] /\ loading = [a \in Actors |-> FALSE]
  /\ where = [a \in Actors |-> "page"] /\ jobs = [a \in Actors |-> 0]
  /\ blind = [a \in Actors |-> FALSE]

(* The table with its buttons is shown: neither spinner nor dialog.        *)
AtTable(a, use) ==
  /\ use \in scene.does[a]
  /\ where[a] = "page" /\ ~loading[a] /\ dialog[a].op = "none" /\ MayAdminister(view[a], a)
  /\ jobs[a] < scene.budget[a]
(* The page is behind the server, or its selection behind the page.        *)
Stale(a) == view[a] # db \/ refs[a] # view[a] \/ mixed[a]
Selected(a) == IF page = "collaboration" /\ found[a] # NoSearch
                 THEN ticked[a] \cap found[a] ELSE ticked[a]
Shown(a) == Admins(view[a])   \* the admins on the page

-------------------------------------------------------------------------------
(* Selecting rows.                                                         *)

(* noMoreAdminsToCheck of the organisation: the checked admins, by the role*)
(* they had at the last mount, are all but one of the admins shown.        *)
NoMoreAdminsOffByOne(a, t) ==
  Cardinality(ticked[a] \cap Admins(refs[a])) = Cardinality(Admins(t))
NoMoreAdmins(a, t) ==
  Cardinality(ticked[a] \cap Admins(refs[a])) + 1 = Cardinality(Admins(t))
(* Rows an organisation page lets you check, delete or give another role.  *)
Free(a, r) ==
  \/ page # "organisation" \/ r \in Invites \/ view[a][r] = "member"
  \/ Cardinality(Shown(a)) >= 2 /\ (NoMoreAdmins(a, view[a]) => r \in ticked[a])

OnCheck(a, r) ==
  /\ AtTable(a, "select") /\ r \in Here(view[a]) \cap Here(refs[a]) /\ Free(a, r)
  /\ ticked' = [ticked EXCEPT ![a] = IF r \in @ THEN @ \ {r} ELSE @ \union {r}]
  /\ mixed' = [mixed EXCEPT ![a] = @ \/ refs[a] # view[a]]
  /\ UNCHANGED <<scene, db, version, calls, fetches, inbox, view, seen, refs, found,
                 hiding, dialog, loading, where, jobs, blind>>

(* allSelected and the filters, of collaborations only: neither filter     *)
(* touches what is checked.                                                *)
Listed(a) == Here(view[a]) \ hiding[a]
AllSelected(a, checked) ==
  LET ids == (Here(refs[a]) \cap Listed(a)) \cap (IF found[a] = NoSearch THEN Rows ELSE found[a])
  IN /\ AtTable(a, "search") /\ page = "collaboration"
     /\ ticked' = [ticked EXCEPT ![a] = IF checked THEN @ \union ids ELSE @ \ ids]
     /\ UNCHANGED <<scene, db, version, calls, fetches, inbox, view, seen, refs, mixed,
                    found, hiding, dialog, loading, where, jobs, blind>>
Filter(a, hidden) ==
  /\ AtTable(a, "search") /\ page = "collaboration" /\ hiding' = [hiding EXCEPT ![a] = hidden]
  /\ UNCHANGED <<scene, db, version, calls, fetches, inbox, view, seen, refs, ticked,
                 mixed, found, dialog, loading, where, jobs, blind>>
HideInvitees(a) ==
  Filter(a, IF Invites \subseteq hiding[a] THEN hiding[a] \ Invites ELSE hiding[a] \union Invites)
ShowGroup(a) ==
  \E g \in Groups \union {Users} : Filter(a, (hiding[a] \cap Invites) \union (Users \ g))
(* queryChanged hands over the rows that match, of those listed now.       *)
Search(a) ==
  /\ AtTable(a, "search") /\ page = "collaboration"
  /\ \E q \in Queries \union {Rows} : found' = [found EXCEPT ![a] = q \cap Listed(a)]
  /\ UNCHANGED <<scene, db, version, calls, fetches, inbox, view, seen, refs, ticked,
                 mixed, hiding, dialog, loading, where, jobs, blind>>

-------------------------------------------------------------------------------
(* Asking.  Each page opens its own dialog, with its own warnings.         *)

Ask(a, q) ==
  /\ dialog' = [dialog EXCEPT ![a] = q]
  /\ UNCHANGED <<scene, db, version, calls, fetches, inbox, view, seen, refs, ticked,
                 mixed, found, hiding, loading, where, jobs, blind>>

NoRows == [r \in Rows |-> Gone]
(* refresh of the page around the tab, with or without a mount of the tab: *)
(* what the server answers now, a refusal for who is no admin any more.    *)
(* The time until it is asked is the time until this step is taken.        *)
Fetch(a, reset) ==
  [by |-> a, reset |-> reset, rows |-> IF MayAdminister(db, a) THEN db ELSE NoRows,
   version |-> version]
(* A request: only silent ones leave a failure to the page alone.          *)
Call(a, op, rs, role, warned, raced, silent) ==
  [by |-> a, job |-> jobs[a], op |-> op, rows |-> rs, role |-> role, warned |-> warned,
   raced |-> raced, silent |-> silent, phase |-> "sent", heard |-> TRUE]
Send(a, cs) ==
  /\ jobs[a] < scene.budget[a] /\ jobs' = [jobs EXCEPT ![a] = @ + 1]
  /\ calls' = calls \union cs
  /\ UNCHANGED <<scene, db, version, fetches, inbox, view, seen, refs, ticked, mixed, found, hiding,
                 where, blind>>

(* actionButtons: what can be done with the rows checked.  A collaboration *)
(* shows the buttons for the checked rows that are listed.                 *)
Lapsed(a, rs) == rs # {} /\ \A r \in rs : r \in Invites /\ refs[a][r] = "lapsed"
CollaborationButtons(a) ==
  LET shown == Selected(a) \cap Listed(a)
  IN {b \in {"remove", "resend"} : IF b = "remove" THEN shown # {} ELSE Lapsed(a, shown)}
OrganisationButtons(a) ==
  {b \in {"remove", "resend"} : IF b = "remove" THEN ticked[a] # {} ELSE Lapsed(a, ticked[a])}
ServiceButtons(a) ==
  {b \in {"remove", "resend"} : IF b = "remove" THEN ticked[a] # {} ELSE Lapsed(a, ticked[a])}

CollaborationRemove(a) ==
  LET mine == a \in Selected(a)
      batch == mine /\ Cardinality(Selected(a)) > 1
      named == {Id[s] : s \in Selected(a)}   \* compared by number only
      last == ~batch /\ \A m \in Shown(a) : Id[m] \in named
  IN /\ AtTable(a, "select") /\ page = "collaboration" /\ "remove" \in CollaborationButtons(a)
     /\ Ask(a, IF batch THEN Question("refused", {}, "member", FALSE, FALSE)
               ELSE Question("removeSelected", Selected(a), "member", last, Stale(a)))
OrganisationRemove(a) ==
  /\ AtTable(a, "select") /\ page = "organisation" /\ "remove" \in OrganisationButtons(a)
  /\ Ask(a, Question("removeSelected", ticked[a], "member", FALSE, Stale(a)))
ServiceRemove(a) ==
  LET removed == {r \in ticked[a] \cap Users : refs[a][r] = "admin"}
  IN /\ AtTable(a, "select") /\ page = "service" /\ "remove" \in ServiceButtons(a)
     /\ Ask(a, Question("removeSelected", ticked[a], "member",
                        Cardinality(Shown(a)) = Cardinality(removed), Stale(a)))

(* removeFromActionIcon: one row by the icon beside it.                    *)
CollaborationRemoveOne(a, r) ==
  /\ AtTable(a, "icon") /\ page = "collaboration" /\ r \in Listed(a)
  /\ Ask(a, Question("removeOne", {r}, "member", r \in Users /\ Shown(a) \subseteq {r}, Stale(a)))
OrganisationRemoveOne(a, r) ==
  /\ AtTable(a, "icon") /\ page = "organisation" /\ r \in Here(view[a]) /\ Free(a, r)
  /\ Ask(a, Question("removeOne", {r}, "member", FALSE, Stale(a)))
ServiceRemoveOne(a, r) ==
  /\ AtTable(a, "icon") /\ page = "service" /\ r \in Here(view[a])
  /\ Ask(a, Question("removeOne", {r}, "member", Shown(a) = {r}, Stale(a)))

(* changeMemberRole asks, or sends at once.                                *)
CollaborationRole(a, u, role) ==
  LET last == Cardinality(Shown(a)) = 1 /\ role # "admin"
  IN /\ AtTable(a, "role") /\ page = "collaboration" /\ u \in Listed(a) /\ view[a][u] # role
     /\ IF (u = a /\ a \notin Super) \/ last
          THEN Ask(a, Question("role", {u}, role, last, Stale(a)))
          ELSE /\ Send(a, {Call(a, "role", {u}, role, FALSE, Stale(a), TRUE)})
               /\ loading' = [loading EXCEPT ![a] = TRUE] /\ UNCHANGED dialog
OrganisationRole(a, u, role) ==
  /\ AtTable(a, "role") /\ page = "organisation" /\ u \in Here(view[a]) /\ Free(a, u)
  /\ view[a][u] # role
  /\ IF u = a /\ a \notin Super
       THEN Ask(a, Question("role", {u}, role, FALSE, Stale(a)))
       ELSE /\ Send(a, {Call(a, "role", {u}, role, FALSE, Stale(a), FALSE)})
            /\ loading' = [loading EXCEPT ![a] = TRUE] /\ UNCHANGED dialog
(* updateExpiryDate of a membership; the date itself is not modelled.      *)
CollaborationExpiry(a, u) ==
  /\ AtTable(a, "dates") /\ page = "collaboration" /\ u \in Listed(a)
  /\ Ask(a, Question("expiry", {u}, "member", FALSE, Stale(a)))

(* Sending invitations again: one by its icon or the selected ones.        *)
ResendOne(a, i) ==
  /\ AtTable(a, "resend") /\ i \in Listed(a) /\ view[a][i] = "lapsed"
  /\ Ask(a, Question("resend", {i}, "member", FALSE, Stale(a)))
CollaborationResend(a) ==
  /\ AtTable(a, "resend") /\ page = "collaboration" /\ "resend" \in CollaborationButtons(a)
  /\ Ask(a, Question("resend", Selected(a), "member", FALSE, Stale(a)))
OrganisationResend(a) ==
  /\ AtTable(a, "resend") /\ page = "organisation" /\ "resend" \in OrganisationButtons(a)
  /\ Ask(a, Question("resend", ticked[a], "member", FALSE, Stale(a)))
ServiceResend(a) ==
  /\ AtTable(a, "resend") /\ page = "service" /\ "resend" \in ServiceButtons(a)
  /\ Ask(a, Question("resend", ticked[a], "member", FALSE, Stale(a)))

-------------------------------------------------------------------------------
(* Answering a dialog.                                                     *)

Cancel(a) ==
  /\ where[a] = "page" /\ ~loading[a] /\ dialog[a].op \notin {"none", "gone"}
  /\ Ask(a, NoDialog)

(* The rows the confirmed action names: the selection is read again, and an*)
(* icon's row is looked up in the rows shown now (an error if it is gone). *)
ConfirmedWithoutSearch(a) == IF dialog[a].op = "removeSelected" THEN ticked[a]
                             ELSE dialog[a].rows \cap Here(view[a])
Confirmed(a) == IF dialog[a].op = "removeSelected" THEN Selected(a)
                ELSE dialog[a].rows \cap Here(view[a])
(* A refused batch is only closed.                                         *)
ConfirmCloses(a) == where[a] = "page" /\ ~loading[a] /\ dialog[a].op = "refused" /\ Ask(a, NoDialog)
ConfirmRemove(a) ==
  /\ where[a] = "page" /\ ~loading[a] /\ dialog[a].op \in {"removeSelected", "removeOne"}
  /\ Confirmed(a) # {}
  /\ Send(a, {Call(a, "delete", {r}, "member", dialog[a].warned, dialog[a].raced, TRUE)
                : r \in Confirmed(a)})
  /\ loading' = [loading EXCEPT ![a] = TRUE] /\ dialog' = [dialog EXCEPT ![a] = NoDialog]
(* A role or a date: the dialog stays, behind the spinner.  Only the role  *)
(* in a collaboration is changed silently.                                 *)
ConfirmUpdate(a) ==
  /\ where[a] = "page" /\ ~loading[a] /\ dialog[a].op \in {"role", "expiry"}
  /\ Send(a, {Call(a, dialog[a].op, dialog[a].rows, dialog[a].role, dialog[a].warned,
                   dialog[a].raced, page = "collaboration" /\ dialog[a].op = "role")})
  /\ loading' = [loading EXCEPT ![a] = TRUE] /\ UNCHANGED dialog
(* refreshAndFlash shows the spinner; the other two pages leave their      *)
(* dialog open until the answer.  One request carries all invitations.     *)
ConfirmResend(a) ==
  /\ where[a] = "page" /\ ~loading[a] /\ dialog[a].op = "resend"
  /\ Send(a, {Call(a, "resend", dialog[a].rows, "member", FALSE, dialog[a].raced, TRUE)})
  /\ loading' = [loading EXCEPT ![a] = (page = "collaboration")] /\ UNCHANGED dialog
(* The dialog of handle404: closing it reads the page again.               *)
ConfirmGone(a) ==
  /\ where[a] = "page" /\ ~loading[a] /\ dialog[a].op = "gone"
  /\ dialog' = [dialog EXCEPT ![a] = NoDialog]
  /\ fetches' = fetches \union {Fetch(a, TRUE)}
  /\ UNCHANGED <<scene, db, version, calls, inbox, view, seen, refs, ticked, mixed, found, hiding,
                 loading, where, jobs, blind>>

-------------------------------------------------------------------------------
(* The server.                                                             *)

(* An acceptance that comes too late, or of somebody who is in already: a  *)
(* conflict.  Where the invitation goes first, nobody is told of it.       *)
Lapsing(op, rows) == op = "accept" /\ \E i \in rows \cap Invites : db[i] = "lapsed"
AlreadyMember(op, rows) ==
  op = "accept" /\ \E i \in rows \cap Invites : db[i] = "open" /\ db[Invitee[i]] # Gone
(* When a handler tells the browsers: before the commit that json_endpoint *)
(* or models.delete makes after it, after a commit of its own, or never.   *)
Announces(op, rows) ==
  CASE op = "resend" -> "never"
    [] Lapsing(op, rows) \/ AlreadyMember(op, rows) -> "never"
    [] page = "organisation" /\ op = "delete" /\ rows \subseteq Invites -> "never"
    [] page = "collaboration" /\ op = "accept" -> "after"
    [] page = "collaboration" /\ op = "delete" /\ rows \subseteq Users -> "after"
    [] OTHER -> "before"
(* confirm_..._admin; leaving is open to members, but not of services.     *)
Allowed(c) ==
  \/ c.op = "accept" \/ MayAdminister(db, c.by)
  \/ c.op = "delete" /\ c.rows = {c.by} /\ page # "service" 
(* What the handler looks up.  Invitations to send again are looked up by  *)
(* their numbers, whatever rows the browser has taken the numbers from.    *)
Target(c) == IF c.op = "resend" THEN {i \in Invites : \E r \in c.rows : Id[i] = Id[r]} ELSE c.rows
Missing(c) == \/ \E r \in Target(c) : db[r] = Gone
              \/ c.op = "resend" /\ \E r \in c.rows : \A i \in Invites : Id[i] # Id[r]
(* .one() of the handlers: a row that is gone is a 404; not allowed a 403. *)
(* Who is in already keeps an invitation to an organisation or a service.  *)
Refuses(c) == \/ ~Allowed(c) \/ Missing(c)
              \/ page # "collaboration" /\ AlreadyMember(c.op, c.rows)
(* The rows after the handler.  Accepting a lapsed invitation deletes it,  *)
(* and so does a member who accepts one to a collaboration.                *)
Applied(c) ==
  CASE c.op = "delete" -> [r \in Rows |-> IF r \in c.rows THEN Gone ELSE db[r]]
    [] c.op = "role" -> [r \in Rows |-> IF r \in c.rows THEN c.role ELSE db[r]]
    [] c.op = "expiry" -> db
    [] c.op = "resend" -> [r \in Rows |-> IF r \in Target(c) THEN "open" ELSE db[r]]
    [] c.op = "accept" ->
         [r \in Rows |-> IF r \in c.rows THEN Gone
                        ELSE IF \E i \in c.rows : r = Invitee[i] /\ db[i] = "open" /\ db[r] = Gone
                          THEN Intended[CHOOSE i \in c.rows : TRUE] ELSE db[r]]
Others(c) == {a \in Actors : a # c.by /\ where[a] = "page"}
Served(c, phase) == (calls \ {c}) \union {[c EXCEPT !.phase = phase]}
(* The other operations under way now race with this one.                  *)
Raced(cs, c) == {IF d.by = c.by /\ d.job = c.job THEN d ELSE [d EXCEPT !.raced = TRUE] : d \in cs}
Commit(c) ==
  /\ db' = Applied(c)
  /\ version' = IF Applied(c) = db THEN version ELSE version + 1
  /\ calls' = IF Applied(c) = db THEN Served(c, "ok") ELSE Raced(Served(c, "ok"), c)
  /\ dialog' = [a \in Actors |-> IF Applied(c) = db THEN dialog[a]
                                ELSE [dialog[a] EXCEPT !.raced = dialog[a].op # "none"]]
  /\ UNCHANGED <<scene, fetches, view, seen, refs, ticked, mixed, found, hiding, loading, where, jobs>>
(* What nobody will read for: a change after the failure of its operation. *)
Unheard(c) == [a \in Actors |-> blind[a] \/ (a = c.by /\ ~c.heard)]

(* Organisations and services tell of a removal before they know whether   *)
(* there was anybody to remove.                                            *)
Refuse(c) ==
  LET tells == page # "collaboration" /\ c.op = "delete" /\ c.rows \subseteq Users /\ Allowed(c) IN
  /\ c.phase = "sent" /\ Refuses(c) /\ calls' = Served(c, "failed")
  /\ inbox' = IF tells THEN inbox \union Others(c) ELSE inbox
  /\ UNCHANGED <<scene, db, version, fetches, browser>>
CommitThenTell(c) ==
  /\ c.phase = "sent" /\ ~Refuses(c)
  /\ Announces(c.op, c.rows) \in {"after", "never"} /\ Commit(c)
  /\ IF Announces(c.op, c.rows) = "after"
       THEN inbox' = inbox \union Others(c) /\ blind' = Unheard(c)
       ELSE UNCHANGED inbox /\ blind' = [a \in Actors |-> Unheard(c)[a] \/ a # c.by]
Tell(c) ==
  /\ c.phase = "sent" /\ ~Refuses(c)
  /\ Announces(c.op, c.rows) = "before"
  /\ inbox' = inbox \union Others(c) /\ calls' = Served(c, "told")
  /\ UNCHANGED <<scene, db, version, fetches, browser>>
(* A browser that has read since is blind to what is committed now.        *)
CommitTold(c) ==
  /\ c.phase = "told" /\ Commit(c)
  /\ blind' = [a \in Actors |-> Unheard(c)[a] \/ (a \in Others(c) /\ a \notin inbox)]
  /\ UNCHANGED inbox

(* An invitee accepts, in a browser that has another page open: the call is*)
(* by the invitation.                                                      *)
Accept(i) ==
  /\ scene.accept /\ db[i] # Gone /\ ~\E c \in calls : c.op = "accept"
  /\ calls' = calls \union {[by |-> i, job |-> 0, op |-> "accept", rows |-> {i},
       role |-> "member", warned |-> FALSE, raced |-> FALSE, silent |-> FALSE,
       phase |-> "sent", heard |-> FALSE]}
  /\ UNCHANGED <<scene, db, version, fetches, inbox, browser>>

-------------------------------------------------------------------------------
(* What a browser hears.                                                   *)

(* componentDidMount of the tab: nothing checked, all users listed, no     *)
(* spinner, no dialog.                                                     *)
MountKeepsSpinner(a, t) ==
  /\ refs' = [refs EXCEPT ![a] = t] /\ ticked' = [ticked EXCEPT ![a] = {}]
  /\ mixed' = [mixed EXCEPT ![a] = FALSE] /\ hiding' = [hiding EXCEPT ![a] = @ \cap Invites]
  /\ UNCHANGED loading /\ dialog' = [dialog EXCEPT ![a] = NoDialog]
Mount(a, t) ==
  /\ refs' = [refs EXCEPT ![a] = t] /\ ticked' = [ticked EXCEPT ![a] = {}]
  /\ mixed' = [mixed EXCEPT ![a] = FALSE] /\ hiding' = [hiding EXCEPT ![a] = @ \cap Invites]
  /\ loading' = [loading EXCEPT ![a] = FALSE] /\ dialog' = [dialog EXCEPT ![a] = NoDialog]
(* The organisation renders the new rows before that, with the old refs: an*)
(* admin it has no entry for is an error that takes the page down.         *)
RenderFails(a, t) ==
  /\ page = "organisation" /\ ~loading[a] /\ Cardinality(Admins(t)) >= 2 /\ NoMoreAdmins(a, t)
  /\ \E u \in Admins(t) : refs[a][u] = Gone
Remounts(f) == f.reset \/ Lengths(f.rows) # Lengths(view[f.by])
Hear(f) ==
  LET a == f.by
      closes == dialog[a].op = "gone" /\ Remounts(f)  \* before anybody answers it
  IN
  /\ fetches' = fetches \ {f}
  /\ IF where[a] # "page" THEN UNCHANGED browser
     ELSE IF f.rows = NoRows \/ RenderFails(a, f.rows)
       THEN /\ where' = [where EXCEPT ![a] = IF f.rows = NoRows THEN "left" ELSE "crashed"]
            /\ UNCHANGED <<view, seen, refs, ticked, mixed, found, hiding, dialog, loading, jobs, blind>>
       ELSE /\ view' = [view EXCEPT ![a] = f.rows] /\ seen' = [seen EXCEPT ![a] = f.version]
            /\ blind' = [blind EXCEPT ![a] = (@ \/ f.version < seen[a] \/ closes) /\ f.version # version]
            /\ IF Remounts(f) THEN Mount(a, f.rows)
               ELSE UNCHANGED <<refs, ticked, mixed, hiding, loading, dialog>>
            /\ UNCHANGED <<found, where, jobs>>
  /\ UNCHANGED <<scene, db, version, calls, inbox>>
(* A message of another browser: refreshUser, then the whole page.         *)
HearSocketWhenIdle(a) ==
  /\ a \in inbox /\ inbox' = inbox \ {a}
  /\ fetches' = IF where[a] = "page" /\ dialog[a].op = "none"
                  THEN fetches \union {Fetch(a, FALSE)} ELSE fetches
  /\ UNCHANGED <<scene, db, version, calls, browser>>
HearSocket(a) ==
  /\ a \in inbox /\ inbox' = inbox \ {a}
  /\ fetches' = IF where[a] = "page" THEN fetches \union {Fetch(a, FALSE)} ELSE fetches
  /\ UNCHANGED <<scene, db, version, calls, browser>>

(* The answers to one operation: Promise.all waits for all of them.        *)
Rest(c) == {d \in calls : d.by = c.by /\ d.job = c.job} \ {c}
Leaves(c) == c.by \notin Super /\ c.rows = {c.by} /\ c.op \in {"delete", "role"}
HearOk(c) ==
  /\ c.phase = "ok" /\ calls' = calls \ {c}
  /\ IF ~c.heard \/ where[c.by] # "page" \/ Rest(c) # {} THEN UNCHANGED <<fetches, where>>
     ELSE IF Leaves(c)
       THEN where' = [where EXCEPT ![c.by] = "left"] /\ UNCHANGED fetches
       ELSE fetches' = fetches \union {Fetch(c.by, TRUE)} /\ UNCHANGED where
  /\ UNCHANGED <<scene, db, version, inbox, view, seen, refs, ticked, mixed, found, hiding, dialog,
                 loading, jobs, blind>>
(* The first failure settles the operation: handle404, whatever the status.*)
(* Resending from an organisation or service has no catch.                 *)
HearFailed(c) ==
  /\ c.phase = "failed"
  /\ calls' = (calls \ ({c} \union Rest(c))) \union {[d EXCEPT !.heard = FALSE] : d \in Rest(c)}
              \union (IF c.silent \/ ~c.heard THEN {} ELSE {[c EXCEPT !.phase = "thrown"]})
  /\ IF c.heard /\ where[c.by] = "page" /\ (c.op = "resend" => page = "collaboration")
       THEN /\ loading' = [loading EXCEPT ![c.by] = FALSE]
            /\ dialog' = [dialog EXCEPT ![c.by] = Question("gone", {}, "member", FALSE, FALSE)]
       ELSE UNCHANGED <<loading, dialog>>
  /\ UNCHANGED <<scene, db, version, fetches, inbox, view, seen, refs, ticked, mixed, found, hiding,
                 where, jobs, blind>>
(* A quarter of a second later the error is thrown again, for              *)
(* window.onerror: a 404 loads /404, a 403 the home page.                  *)
Thrown(c) ==
  /\ c.phase = "thrown" /\ calls' = calls \ {c}
  /\ where' = [where EXCEPT ![c.by] = IF @ = "page" THEN "elsewhere" ELSE @]
  /\ UNCHANGED <<scene, db, version, fetches, inbox, view, seen, refs, ticked, mixed, found, hiding,
                 dialog, loading, jobs, blind>>

-------------------------------------------------------------------------------
UserStep(a) ==
  \/ \E r \in Rows : OnCheck(a, r) \/ CollaborationRemoveOne(a, r)
                     \/ OrganisationRemoveOne(a, r) \/ ServiceRemoveOne(a, r)
  \/ \E checked \in BOOLEAN : AllSelected(a, checked)
  \/ HideInvitees(a) \/ ShowGroup(a) \/ Search(a)
  \/ CollaborationRemove(a) \/ OrganisationRemove(a) \/ ServiceRemove(a)
  \/ \E u \in Users : \/ CollaborationExpiry(a, u)
                     \/ \E role \in {"admin", "member"} :
                          CollaborationRole(a, u, role) \/ OrganisationRole(a, u, role)
  \/ \E i \in Invites : ResendOne(a, i)
  \/ CollaborationResend(a) \/ OrganisationResend(a) \/ ServiceResend(a) \/ Cancel(a) \/ ConfirmCloses(a) \/ ConfirmRemove(a) \/ ConfirmUpdate(a)
  \/ ConfirmResend(a) \/ ConfirmGone(a)
ServerStep == \E c \in calls : Refuse(c) \/ CommitThenTell(c) \/ Tell(c) \/ CommitTold(c)
BrowserStep == \/ \E f \in fetches : Hear(f)
               \/ \E a \in Actors : HearSocket(a)
               \/ \E c \in calls : HearOk(c) \/ HearFailed(c) \/ Thrown(c)
Next == \/ \E a \in Actors : UserStep(a)
        \/ \E i \in Invites : Accept(i)
        \/ ServerStep \/ BrowserStep

(* The server answers each browser, whatever others ask again and again,   *)
(* and each browser runs its callbacks; users may stop.                    *)
Answered(a) == \E c \in calls : c.by = a /\ (Refuse(c) \/ CommitThenTell(c) \/ Tell(c) \/ CommitTold(c))
Listens(a) == \/ \E f \in fetches : f.by = a /\ Hear(f)
              \/ HearSocket(a)
              \/ \E c \in calls : c.by = a /\ (HearOk(c) \/ HearFailed(c) \/ Thrown(c))
Spec == Init /\ [][Next]_vars
FairSpec == Spec /\ \A a \in Actors : WF_vars(Answered(a)) /\ WF_vars(Listens(a))

-------------------------------------------------------------------------------
(* The last admin goes only after the page has warned of it, or because    *)
(* somebody else changed the rows since the page drew its buttons: the     *)
(* warnings and the buttons an organisation leaves out are the only guard, *)
(* no handler of the server has one.  Rows checked on a page that differs  *)
(* from what the checks are kept for (refs) count as such a race.          *)
LastAdminGoesWarnedOrRaced ==
  [][Admins(db) # {} /\ Admins(db') = {} =>
       \E c \in calls : c.phase \in {"sent", "told"} /\ (c.warned \/ c.raced)
                        /\ [c EXCEPT !.phase = "ok"] \in calls']_vars

(* What a confirmed removal sends is what was selected when the question   *)
(* was asked, or less (an icon's row that has gone): a refresh behind the  *)
(* open dialog never changes what "yes" means.                             *)
YesMeansWhatWasAsked ==
  [][\A a \in Actors : jobs'[a] # jobs[a] /\ dialog[a].op \in {"removeSelected", "removeOne"} =>
       UNION {c.rows : c \in {d \in calls' : d.by = a /\ d.job = jobs[a]}} =
         (IF dialog[a].op = "removeOne" THEN dialog[a].rows \cap Here(view[a]) ELSE dialog[a].rows)]_vars

(* A page at rest shows the rows of the server, unless it was told before  *)
(* the commit and read too early, was never told, a late answer to an older*)
(* read has overwritten a newer one, or an operation of its own has failed *)
(* in part: then a popup says so, unless a refresh for somebody else has   *)
(* closed it, and a request of the operation may still succeed.            *)
AtRest(a) == /\ where[a] = "page" /\ a \notin inbox /\ ~\E f \in fetches : f.by = a
             /\ ~\E c \in calls : c.by = a
RestingPageIsCurrent ==
  \A a \in Actors : AtRest(a) /\ dialog[a].op # "gone" => blind[a] \/ seen[a] = version

(* A spinner ends: with the rows read again, a dialog or another page.     *)
SpinnerEnds == \A a \in Actors : loading[a] ~> (~loading[a] \/ where[a] # "page")
=============================================================================
