# A verification of SBS in TLA+

SBS is the membership service of SURF Research Access Management: a Flask application over MySQL (`src/server`)
and a React client (`src/client/src`). Researchers are *members* of *collaborations*, which belong to
*organisations* and are connected to *services*. The client is where administrators invite, decide, connect and
configure; the server checks, stores, tells the other browsers over a socket, tells services over SCIM who their
users and groups are, and removes users, collaborations and memberships that are no longer used.

The modules here model the places in which steps of several actors interleave over time: the pages of the client
with the calls they make and the handlers that answer, the propagation to SCIM servers, and the daily jobs that
warn, suspend and delete. TLC checks them on small instances; TLAPS proves the most important properties for every
value of the constants.

## 1. The system

### The client and the handlers it calls

Every page works on a *copy*: it reads its rows once, when it opens, and keeps them in the state of a component
with drafts, selections, open dialogs and a spinner (`loading`). What keeps the copies in step is the same
everywhere:

1. a button sends one call, or one for each selected row, and turns the spinner on;
2. the handler checks rights and rows, commits (some handlers twice), and *emits* a message on the socket, often
   before the commit, as the transaction ends with the request (`emit_socket`, `json_endpoint`);
3. the other browsers that listen to that topic read the user and the page again (`refreshUser`, then the page's
   own call), whatever is open on it at that moment; the sender ignores its own messages by a subscription id,
   and reads again when its own answer comes;
4. components copy the new props into their state, each with its own rules about what survives.

| Component | State | Operations | Meets the others through |
|---|---|---|---|
| Login, policies, second factor (`App.jsx`, `Aup`, `SecondFactorAuthentication`, `ServiceAup`, `Profile`; `api/mfa.py`, `api/aup.py`, `api/base.py`, `auth/rate_limit.py`) | one session cookie for all tabs, rewritten as a whole by any answer; the user's secret; a counter of guesses in redis | agree, register, verify, update, reset, log out, come back | the cookie, the user's row |
| Members and invitations (`CollaborationAdmins`, `OrganisationAdmins`, `ServiceAdmins`; `api/*_membership.py`, `api/*invitation.py`) | rows, selection, search result, question | change of role or date, removal of one or of a selection, resending, leaving | socket, the rows |
| Settings of a service (`ServiceOverview`; `api/service.py`, `api/service_token.py`) | a draft with marks, networks, tokens, switches, sweep | edit, update, new and deleted tokens, password, policy, deletion | socket, the row |
| Forms (`CollaborationForm`, `OrganisationForm`, `Service`, the invitation forms) | fields, verdicts, lists of addresses and homes, dates | ask while typing, submit, delete, leave | names and homes others take |
| Requests to join and for a collaboration (`JoinRequests`, `CollaborationRequests`, `CollaborationRequest`, `JoinRequestDialog`, `Home`) | rows with a status | make, accept, decline, delete | socket, memberships, collaborations |
| Connections of services (`UsedServices`, `ServiceConnectionRequests`, `ServiceCollaborations`, the page behind the mail) | rows that connect, requests, services on offer | connect, ask, approve, deny, resend, disconnect | socket, mails |
| Groups (`Groups.jsx`; `api/group.py`, `api/group_members.py`) | groups, their members, one open form | make, rename, switch to all members, fill, delete | socket, people who join or leave |
| Administration of the platform (`System.jsx`, statistics, impersonation) | views | buttons that start jobs | the jobs |

### The server over time

| Component | State | Operations | Meets the others through |
|---|---|---|---|
| Request handlers (`api/*.py`, `api/base.py`) | rows in MySQL; the browser session | one handler is one transaction, committed at the end or before its events; `db/models.py` commits earlier | events, mails, socket, the database |
| Provisioning (`scim/events.py`, `scim/scim.py`, `db/executor.py`) | a queue of tasks in memory, threads | eleven `broadcast_*` events; a task reads the database and makes HTTP calls | the database, the SCIM server of each service |
| Sweep (`scim/sweep.py`, `cron/scim_sweep_services.py`) | locals of one run; `sweep_scim_last_run` | compares a listing of the SCIM server with the database, then DELETE, POST, PUT | the same |
| SCIM server (`api/mock_scim.py` is the one in the repository) | users and groups by id | GET with a filter, POST, PUT, DELETE | HTTP |
| Retention of users (`cron/user_suspending.py`) | `last_login_date`, `suspended`, `suspend_notifications` | warn, suspend, warn of deletion, delete | logins, activation, rate limit, mails |
| Life of collaborations (`cron/collaboration_expiration.py`, `cron/collaboration_inactivity_suspension.py`) | `status`, `expiry_date`, `last_activity_date` | warn, expire, suspend, delete | updates, unsuspend, activate, logins, PIN checks |
| Life of memberships (`cron/membership_expiration.py`) | `status`, `expiry_date` of a membership | warn, expire, delete | SCIM templates, login |
| PAM web login (`api/pam_websso.py`) | sessions with a pin | start, find, check pin | activity of collaborations |
| Tokens (`api/token.py`, `api/user_token.py`) | hashes, dates | introspect | access decisions |
| Scheduling and locks (`cron/schedule.py`, `cron/shared.py`, `__main__.py`) | locks of MySQL | start a job, `GET_LOCK`, `RELEASE_LOCK` | every job, the migrations |

`PROJECT.json` ("components") lists all parts with what is modelled of each.

### What is hard about it

* A page acts on rows it read earlier. A message reads them again *under* an open dialog, a selection or a draft;
  answers of two readings may come out of order; a message may be told before the commit it is about.
* Checks are made in one place and relied on in another: the last administrator is guarded by buttons only; names
  are looked at while typing, or before a save, and only the short name of a group has an index that keeps it apart.
* Handlers commit in the middle: what fails afterwards (a mail, the second half) stays half done.
* All tabs share one cookie which each answer puts back as a whole, with what its request brought along.
* Tasks of provisioning run in a pool of threads in any order and overlap requests; some deletions run in the web
  thread *before* the row is deleted. A task reads the database when it starts, not when its request committed.
* Every HTTP call can fail, and a failure is not always told apart from an empty answer.
* A daily job reads at its start, mails for as long as that takes, and commits once. Logins and admins act in
  between, and one mail that fails takes all of the job's work back while mails are out.
* Thresholds are compared in five different ways (days before, days after, windows of one day, strict and not),
  over columns that change by themselves (`ON UPDATE CURRENT_TIMESTAMP`).

The list of hazards, each at its line with the properties that watch it, is in `PROJECT.json` ("hazards").

### What makes each component correct

* **Every page**: at rest it shows what the database holds; a confirmed question does what was asked; a spinner ends.
* **Login**: no page before the policy and the second factor, in any tab; the factor that is stored is one the user
  has; a suspension takes as many wrong guesses as the limit says.
* **Members**: the last administrator does not go unwarned.
* **Settings**: a draft nobody has touched can be saved; a token has its switch; tokens do not go without a warning.
* **Forms**: marks agree with the database; what is saved is what was typed; nobody comes in twice.
* **Requests and connections**: a request is answered once, and its status agrees with what became of it; a service
  is connected or asked for, not both.
* **Groups**: short names stay apart whatever overlaps, names unless one is given in haste; a group that has all
  members has them all.
* **Sweep**: leaves a mirror of the database it read, whatever it found and whatever changes meanwhile; does
  nothing to a mirror; repeated, brings the server in sync.
* **Provisioning**: adds up to the whole state once all tasks are done; a group never shows the service somebody
  who was never a member; every task ends.
* **Retention**: nobody is suspended or deleted without an earlier mail, nor before the date of the last mail; who
  stays away is deleted in the end.
* **Collaborations**: the same, for expiry and suspension, whichever job comes first.
* **Memberships, PAM, locks** (planned): a membership whose date passes ends everywhere; a pin is good once and in
  time; one server at a time runs a job, and none serves on a half-migrated schema.

## 2. Modules

| Module | Models | Extends |
|---|---|---|
| `LoginSteps` | what the login promises: pages only after both steps | |
| `LoginGate`, `LoginGateProofs` | the tabs of a browser on the way in; implements `LoginSteps` | |
| `MembersPage`, `MembersPageProofs` | the tabs of members and invitations of a collaboration, an organisation, a service | |
| `ServiceSettings`, `ServiceSettingsProofs` | the settings of a service | |
| `EntityForms`, `EntityFormsProofs` | the forms that make, edit and delete collaborations, organisations and services, and invite | |
| `Requests`, `RequestsProofs` | requests to join and for a collaboration | |
| `ServiceConnections`, `ServiceConnectionsProofs` | connections of collaborations and services, and the requests for them | |
| `Groups`, `GroupsProofs` | the groups of a collaboration | |
| `ScimRemote` | the SCIM server: ids handed out once, POST, PUT, DELETE, lookups | |
| `ScimSweep`, `JobsProofs` | `perform_sweep` against a server and a changing database | `ScimRemote` |
| `ScimProvision`, `JobsProofs` | requests, events, tasks, threads and HTTP calls of provisioning | `ScimRemote` |
| `UserRetention`, `JobsProofs` | the suspension and deletion of inactive users | |
| `CollaborationLifecycle`, `JobsProofs` | expiry, suspension and deletion of a collaboration | |
| `MC*` | small instances, one per module | |

### What the modules of pages have in common

One step is one thing the code does without giving way: a click with all it changes and sends; the part of a
handler up to a commit or its end; the callback of an answer; the receipt of a message. `page` (or the variables
of the component's state in `MembersPage`) is what each user sees, `db` the rows, `net` (`calls`, `job`) the calls
on their way, being handled and answered, `inbox` the messages a browser has yet to receive. The names of buttons
and handlers are those of the code: `ConfirmRemove`, `doSubmit`, `BeginApprove`/`ConnectApproved`/`MailApproved`.

* *Commits.* A handler that reads, then commits, is two steps where another handler may come between with an effect
  on the outcome (`Begin…`/`Commit…`); where nothing it read can matter, it is one. A handler that emits before its
  commit tells in its first step.
* *Messages.* The receipt of a message, `refreshUser` and the reading of the page are one reading, sent at the
  receipt and answered later; two readings may be answered in either order.
* *History.* Sets such as `doubt`, `excuse`, `stray`, `overlaps`, `hasty`, `disturbed` collect who is concerned by a
  named race: they are written by the step at which the race happens and never read by an action. A property says
  what holds of everybody else, so that each names exactly the ways in which the code may fail it.
* *Scenes.* `Init` chooses a *scene*: the rows there are, who has which page open, what each may do, and the bound,
  how often. An action is enabled if its operation is among those of the scene and the budget is not used up.
  Answers, messages and handlers are not limited.
* *Data.* Names are members of small sets; fields that are checked alike share one (named per module in section 7).

### LoginGate and LoginSteps

`jar` is the cookie; a call takes a copy along (`c.jar`), and `Stored` puts back what its handler made of that copy,
which is how a late answer undoes what happened meanwhile (`overtaken` remembers it). `tabs` is what each tab shows:
`at` the address, `page` what `App.jsx` and the routes made of it, `me` the user it holds, the QR code, the open
sheet. `db` is the row of the user, `rate` the counter with its window, `device` what the authenticator holds. A
`Serve…` is a handler, `Hear…` a callback; `Admitted` is `load_user_informatie` of `api/base.py`, which refuses calls
before the policy and the second factor. `LoginSteps` has neither calls nor cookies: the steps taken, and the tabs
that are inside. `Gate` maps `done` to `did` and `inside` to the tabs on a page of the application.

### MembersPage

One module for three components that were written apart: where they differ, they have operators of their own
(`CollaborationRemove`, `OrganisationRemove`, `ServiceRemove`). `refs` and `ticked` are the selection, with rows as at
the last mount; `found` the result of a search; `hiding` what the filters for a group or for members leave out;
`dialog` the question with what it asks about. A refresh that does not mount the page anew leaves `refs` behind
what is shown; `mixed` says that rows were checked meanwhile, so that roles of two versions are compared. A confirmed
removal is one call each, at once (`Send`); the answers of all, or the first failure, end it (`HearOk`, `HearFailed`).
`Raced` marks calls overtaken by the commit of another. Invitations are sent again by number: `Target` is what the
server finds under the numbers of all rows checked, members and invitations alike. A reading that mounts the page anew
closes what is open, the popup of a failed operation included (`closes`). An acceptance that comes too late, or of
somebody who is a member already, is a conflict: a lapsed invitation goes, and so does one to a collaboration of its
member, and nobody is told (`Lapsing`, `AlreadyMember`: `blind` pages keep the row); those of members of organisations
and services stay (`Refuses`).

### ServiceSettings

`page[a].shown` is what was read, `draft` what is edited, with its marks (`exists`, invalid networks, `emptied`).
`ServiceOverview` takes the draft from its props when it is mounted; an update sends the whole draft (`Stripped`,
`SentRate`), the handler deletes the tokens of kinds that are off, and the answer to a network check writes by index.
A handler stores the address of each network (`Allowed`) and writes what differs from what it has read (`Written`);
`crossed` remembers what another has changed in between: a kind switched off, or the server of SCIM.

### EntityForms

A form asks the server while it is filled in: whether a name exists, whether a home is taken. Those calls are not
answered in order, and some answers put back a snapshot (`PutsBack`). `draft` is what is typed, `loaded` what was
read for an edit; `wanted` of a call is what its user saw. A creation is three steps: the checks, the commit, the
mails with their own commits (`BeginCreate`, `CommitCreate`, `FinishCreate`). A request is stored, then mailed
(`Tells`). A refusal leaves a form as typed with its spinner, save that of a new service: the error renders the app
again, whose route gives the form its props, and the form is `Anew`, empty and without a spinner (`BeginsAnew`).

### Requests and ServiceConnections

Who decides, who asked, and who looks on each have a page. A decision is a reading of the row, a commit, a mail; the
other page may still show the request as open. `Requests` has the dialog that makes a request, which does not wait,
and the home page of the requester, who is also administrator of what an approval made (`runs` of a view) and is then
brought to the tab of collaborations, which hears of no request. `ServiceConnections` has four pages: the services of
a collaboration, with the services on offer; the requests of a service; its collaborations; and the page behind the
link of a mail. Those on offer are made from a list of all services: an `"offer"` in `net` is a timer of one second
(`"sent"`), then, once `AskServices` has asked with the view of that moment, the list on its way (`"ok"`); a reading
heard meanwhile makes it `old`. Each message has its own.

### Groups

`groups` are the rows with the number of memberships per user; `job` is what each administrator has asked, with its
phase in the handler: `sent`, `held` (read, not committed), `fill` (the switch committed, the members not), `done`.
`joins` are users accepting an invitation: they read which groups take everybody, then commit. `checks` are verdicts
on a name on their way to the form.

### ScimRemote

An id goes from `Unused` to an object to `Gone` and is never reused (uuid4 in the mock). An object carries its
externalId, the members of a group, and one value `attr` that stands for all other attributes of the templates.
Ids are numbers in the order of creation, because the mock lists a Python dict in insertion order and the code
takes the first object of a filtered answer (`scim.py`) or the last of a listing (`sweep.py`).

### ScimSweep

One step is one HTTP call. `pc` is the place in `perform_sweep`; `snap` what the two queries of `scim/repo.py`
returned; `lg`, `lu` the listings; `ubx` the dict `remote_users_by_external_id`, with the answers of POSTs; `todo`
what the current loop has still to visit. `ListGroups`, `ListUsers`, `DeleteGroup`, `DeleteUser`, then `PostUser`,
`PutUser`, `KeepUser` for each user and `DropGroup`, `PostGroup`, `PutGroup`, `KeepGroup` for each group. Each call
may be answered with an error status (logged, and the sweep goes on) and any call may raise (`Abort`). Loops visit
their elements in any order. `DbChange` is any request or job that commits.

Two things the code does and the model keeps: a listing with an error status is an empty listing, and
`if member.is_active` tests a bound method, so memberships of every status count. The branch for users without
memberships (`sweep.py:160-166`) is never taken, as the users of the service are found through memberships. All
pages of a listing are one answer.

### ScimProvision

`tables` is what the tasks read: users, collaborations, groups, members, memberships that have expired, connections.
A request commits its change and then submits tasks (`Commit`), or runs its task in its own thread and deletes the
row afterwards (`CommitAndRun`, `AfterTask`). A thread takes a task, and `Begin` fixes the snapshot of its
transaction (REPEATABLE READ) and the calls that follow from it (`Calls`); each call is a step: a lookup, the
creation of a missing member, the PUT or POST of the group, the lookup and the DELETE. The deletion of a
collaboration cascades: its groups again, and each user for whom `_has_user_service_access` is false.
`AbortTask` is an exception in a task, `Restart` the end of the process, with its queue. Names that the other jobs use
as well differ (`ProvisionNext`, `tables`, `AnswerCall`), so that one module proves about all of them.

A *load* names where a behaviour starts, which requests it may make, how many, with how many threads and failures.
Several loads are checked in one run. `ProvisionAssumption` says that users and groups are finite, as the lists of
calls are made from sets, and that there is an id for each user whom a behaviour begins with.

### UserRetention

Days are counted since the login of a user, a day being the time from one run of the job to the next. `StartJob` is
the two queries, `CommitJob` the commit with all that was decided from them, `FailJob` a run that rolls back after
some of its mails. Requests are the ones that touch the columns: a login (which does not look at `suspended`),
`me`, the authorized login of a service, `activate`, too many guesses of a code, and the deletion of the account.
A *mode* says whether the job runs every day, whether requests fall in its runs, and how many runs fail. Its names
begin with `user` where `CollaborationLifecycle` has the same idea, so that one module proves about both jobs.

### CollaborationLifecycle

One collaboration and both jobs, each split into start and end, so that either comes first and both may overlap.
`left` is the days to the expiry date (at midnight, while jobs run at another hour: the date passes between two
runs), `idle` the days since `last_activity_date`. Every update of the row sets `last_activity_date` unless the
statement does, which `CommitExpiry` shows. Requests are `unsuspend`, `activate`, `update_collaboration` with any
date, logins, PIN checks, a new short name of the organisation, and the deletion. Modes are as above.

## 3. Runs

| Run | Properties | What it shows |
|---|---|---|
| `sweep_mirrors` | `SweepMirrors`, `Converges` | 24 databases, five remote servers, one failure and one change anywhere: a sweep without failure leaves a mirror of what it read; repeated sweeps end in sync unless duplicates appear |
| `provision_tasks` | `SyncedAtRest`, `NoStrangers`, `Settles` | five loads: once all tasks are done the service is in sync, if one thread ran them and no call failed; no group ever shows a stranger; every task ends |
| `retention_kept` | `NothingUnannounced`, `LastDateKept`, `InactiveAreDeleted` | nobody is suspended or deleted without the mail of an earlier run, nor before the date of the last mail; who stays away is deleted |
| `lifecycle_announced` | `SuspensionBounded`, `DeletionAnnounced`, `WarnedInTime`, `AbandonedAreDeleted` | the same for collaborations, whichever job comes first |
| `members_races` | `RestingPageIsCurrent`, `LastAdminGoesWarnedOrRaced`, `YesMeansWhatWasAsked`, `SpinnerEnds` | a page at rest shows the rows; "yes" removes what was asked about; the last administrator goes with a warning or by a race |
| `login_steps` | `NeverLockedOut`, `QrCodeCounts`, `StepsBeforePages`, `SuspensionIsEarned`, `WaitingEnds` | two tabs on the way in implement `LoginSteps`; the stored factor is one the user has; the QR code that is shown counts; a wait ends |
| `settings_saved` | `PagesCatchUp`, `TokensHaveTheirSwitch`, `TokensGoWithAWarning`, `UntouchedDraftIsValid`, `WaitsForSomething` | two drafts of one service: tokens and their switches agree, an untouched draft can be saved, a spinner has a call behind it |
| `forms_typed` | `VerdictsMatch`, `ComesInOnce`, `EndsAfterInvitation`, `SavesWhatWasTyped` | marks agree with what others have; nobody comes in twice; what is saved was typed |
| `forms_joins` | `EditKeepsJoinRequests` | **violated**: an edit of a collaboration that takes no join requests switches them on (section 5) |
| `requests_decided` | `PagesCatchUp`, `OneOpenRequest`, `DecisionsStand`, `ActsOnWhatWasAsked` | two reviewers and a requester: one open request each, a status agrees with what became of the request, a dialog acts on its own request |
| `connections_asked` | `ListedOnce`, `PagesCatchUp`, `AskedOrConnected` | four pages: a service is listed once, is connected or asked for and not both, every page catches up |
| `groups_filled` | `NamesApart`, `AutoGroupsHoldEveryone`, `PagesCatchUp` | two administrators, people who come and go: short names stay apart, names but for haste, a group of everyone has everyone |

### Bounds and why they are enough

* *Actors.* Two administrators (or tabs), since every race here is between a page that acts and one change it has not
  seen; a third party (an invitee, the requester, somebody who joins or leaves, a keeper of the service) where the
  code has one. More actors bring the same pairs of steps again; the proofs cover any number in `LoginGate`,
  `MembersPage`, `ServiceSettings`, `EntityForms`, `ServiceConnections`, `Requests` and `Groups`.
* *Rows.* Two or three: the row acted on, another that may be confused with it, and one that is made meanwhile. In
  `MembersPage` a membership and an invitation share a number on purpose (`IdIs`), as the tables do.
* *Budgets.* One to seven operations of each user (`scene.budget`); a scene has what a race needs and each button is
  in some scene. Handlers, messages and answers are not bounded.
* *Guesses.* `Limit = 2`: the code counts and compares, so one below and at the limit suffice; proofs cover any.
* *Users, collaborations, groups* of provisioning. Two users tell apart "the other member" in templates and cascades;
  a second collaboration is needed for a user who keeps access; a group in a collaboration for two levels of members.
* *Ids* of the remote server. As many as requests, threads and failures of a run can use up for what is to be seen;
  when they run out a POST is disabled.
* *Failures.* One error answer, exception or restart; the properties that hold under failures are about every prefix
  of a task or sweep, and each is reached with one. Proofs cover any number (sweep, provisioning, retention,
  lifecycle). The run of the sweep removes orphans; the other setting is covered by the proofs.
* *Days.* Periods are scaled to 1..5 days with the order and the strictness of the comparisons kept; days beyond the
  longest comparison are not told apart. Proofs cover any periods in the order in which `test_config.yml` has them
  (`PeriodsAssumption`, `ThresholdAssumption`). Where a job is split into start and end, it ends on the day it starts
  and succeeds at most once a day.
* *Loads of `provision_tasks`.* `OrderlyLoads` leave out what is known to stay out of sync until the next sweep:
  requests that overtake a deletion in the web thread, a service connected both directly and through the organisation,
  the update of a user together with memberships over a pool, and two threads. `RacingLoads` have these orders (two
  requests with two threads, three with one), with the properties that hold in them.
* *Symmetry.* No set is declared symmetric: scenes tell users apart, and ids are chosen in an order.
* `CHECK_DEADLOCK FALSE` in `ScimProvision` and in the modules of pages: budgets are used up, all threads and pages
  rest. Sweep, retention and lifecycle never stop.

### Fairness

* `LoginGate`: weak fairness of the calls of each tab (`CallStep`): what is sent is answered and heard. Users and time
  are not fair.
* `MembersPage`: weak fairness of each browser (`Listens`) and of the server towards it (`Answered`): a thread takes
  each call, whatever other browsers ask, and a browser runs its callbacks. Users are not fair.
* Sweep: weak fairness of its next step. Calls have a timeout of ten seconds and the scheduler starts sweeps again.
  Neither a failure nor a change of the database is fair: they may never happen.
* Provisioning: each thread takes its next step, and an idle thread takes what is queued; that is the executor.
  Requests, exceptions and restarts are not fair. `Settles` does not ask requests to stop: they are bounded.
* Retention and lifecycle: the scheduler starts each job every day (`coalesce`, a grace time of 12 hours), a job ends,
  days pass. In `UserRetention` days have strong fairness, as a job that has committed may be started again
  (`api/system.py`) and again, so that the state between two runs comes and goes. No request is fair.
* The other modules state no liveness and assume no fairness.

## 4. Proofs

All theorems are of the form `Spec => []Inv`, `Spec => [][A]_vars` or `Spec => Abstract!Spec`, for every value of the
constants under the named assumptions of the modules, which TLC evaluates in the runs. Each rests on an inductive
invariant; one lemma per handler, button or callback shows that it keeps it, and lemmas shared by many of them say
what a turn of a page, a commit or an answer leaves alone.

* `LoginGateProofs`. What a cookie, an answer or a tab *says* of a step (agreed, second factor) was true when it was
  said, and no step is ever taken back: so a cookie put back by a late answer, however old, claims too little and never
  too much (`GateInv`, theorem `SaidIsDone`). From it: the gate implements `LoginSteps`, each step mapped to a step or
  a stutter (`PromiseKept`). A code is accepted only for the secret it was made with, codes come from the authenticator
  of the user, and the secret that is stored was checked against one (`FactorIsHeld`). The counter in redis never
  exceeds the wrong guesses made in its window (`SuspendedForGuesses`). The secret that is pending may go back with a
  cookie; `CodeInv` says what each call on its way brings as long as none has been overtaken: the cookie with the secret
  of its QR code, no secret as the user is logged out, or the secret there is. A page with a QR code is not waiting for
  one that an earlier page asked for, so its code is of the pending secret (`CodeIsCurrent`). For any tabs, limit and
  scenes; `TabsAssumption` keeps the name of who has left apart from the tabs.
* `MembersPageProofs`. What a user does is one of four kinds: to check or list rows (`Checks`), to be asked
  (`Asks`), to send (`Operates`), to go away after a popup (`ConfirmGone`). What the server and the answers do to the
  requests brings them further (`Advances`): none changes what it is about. `AskedInv`: the selection does not change
  behind the question about it, so a yes sends what was asked (`YesIsWhatWasAsked`). `ChecksInv`: the buttons of an
  organisation leave an administrator out of what may be selected, unless the selection is `mixed`; hence a question
  without a warning leaves one (`DialogsInv`), and so do all requests of one operation together, as long as no other
  commit comes between (`SparesInv`, with `Excused` for the warned and the raced); theorem `LastAdminIsGuarded`.
  `NewsInv`: a page that has not read the last version has a message, a reading that will bring that version, an
  operation whose answer makes it read, the popup of a failure, or was told too early or not at all (`blind`); theorem
  `RestingPagesShowTheRows`. `RowsAssumption` and `SceneAssumption` say that scenes begin with rows of the sets named.
* `ServiceConnectionsProofs`. `PageInv`: requests keep their pair and are never reopened, so what a dialog or a call
  refers to stays what it was; an answer nobody overtook equals the database; a page not in `doubt` shows the database
  or is about to read it; a list of services asked for since the last reading was asked for with what the page shows, so
  that an offer is what is neither connected nor asked for, or such a list is still to come. Theorems `PagesRefer`,
  `CaughtUp`, `ListedForAll`. `WorkInv`: a handler that is alone on its pair still finds at its commit what it found
  before it; there is one row and one request of a pair that no two handlers worked on. Theorem
  `AskedOrConnectedOnce`. `MailAssumption` says that the page behind a mail is opened about a request that was made,
  `RequestAssumption` that a scene begins with one request for a pair, neither connected nor of a service that may be
  connected without asking. The settings of a service do not change during a scene: a service switched to automatic
  connection while a request is open is not covered.
* `RequestsProofs`. `PageInv`: a page that waits has one call that blocks it; a dialog is about the selected request or
  that was lost; an answer not overtaken equals the database, or another reading is coming, or the guest is at the tab
  of collaborations, from which a later answer never leads away (`Chosen`). Theorems `PagesAreTold`, `CaughtUp`,
  `AskedIsDone`. `WorkInv`: a handler of a join request that is alone for its user knows all their live requests, so
  that its commit leaves one; an approval that is alone on its request has made the one collaboration of it; no two
  collaborations made have one name. Theorems `WorkIsAlone`, `OneIsOpen`, `StatusIsTrue`. `PlaceAssumption` and
  `AskedAssumption` say where a scene begins: reviewers at a list, the guest at home or at the page to ask on, nothing
  approved yet, one live request of each requester.
* `GroupsProofs`. Short names are apart since both commits that give one look at the index (`ShortsApart`). What a
  clean verdict says of a name, that no group has it, stays true until a group is given that
  name; this holds of the look of `create_group`, of an edit that was sent, of one being typed and of a verdict on its
  way, and naming a group makes all of them unclean. Theorems `TypeCorrect`, `NamesStayApart`. `CatchInv`: an answer
  nobody overtook equals the database; a page that shows something else has a message waiting for it, is about to read,
  or knows that the change it missed was its own, which it reads after. Theorem `CaughtUp`. `HoldInv`: a group switched
  to everyone has its members or a handler that is still adding them, and that handler's list, made before, lacks only
  people who joined since and who add themselves; a removal asked for marks the pair, and an update from an old page is
  covered by the switch it undoes. Theorem `EveryoneIsIn`.
* `ServiceSettingsProofs`. Every step is a turn of one page that sends at most one call, a message received, or a
  handler that does nothing to the service, reads it, announces a change, updates or stores what it announced, or an
  answer heard (`StepKinds`); each invariant is shown for these classes. `TypeInv` leaves open what rows of networks a
  service has, as what `SelectSeq` gives needs induction. `SwitchInv`: a token stored without its switch found it on,
  and it is on still or was switched off meanwhile (`TokensCanBeUsed`). `WarnInv`: an update on its way was confirmed
  or was sent from a draft without a token whose kind it switches off (`TokensAreWarnedOf`). `SpinInv`: a spinner is
  for a call of that page which it has not heard (`SpinnersWait`). `CatchInv`: each page shows the service, or a
  message, a reading or a change of its own that ends in a reading will bring it; of a change that is told before it is
  stored every other page has still to read, or did so too early; readings are numbered, and of two with one number the
  service is the same (`CaughtUp`). `DraftInv`: what is stored, and so what is read, has texts that can be saved, no
  network in error and an address where SCIM is on, unless two updates of the address crossed; an update is sent only
  by a page without a mark, so its texts are good; a text is marked exactly where it is bad, tokens are asked about
  only over a draft with an address, and a check that is shown has its call on its way (`UntouchedIsValid`). What rows
  `SelectSeq` leaves does not matter here, as the server stores of a network its address alone. `TokensAssumption` says
  that a scene begins with tokens only of kinds that are on, `KindsAssumption` that no kind is called "address".
* `EntityFormsProofs`. The rows: ids are given out once, homes are apart, a row of a creation under way is known to
  nobody (`Entities`, `Rows`); with them `EndsAfterInvitation`, as the form keeps its two dates in order, and half of
  `ComesInOnce`. The other half: what lets somebody in is sent when a spinner takes the place of the form, which only
  the answer removes, together with the form (`Once`, `InOnce`); where a refusal empties the form, the creation that
  failed has let nobody in, so that a later one may (`Settled`, `BeginsAnewKeeps`). What a form holds was typed or
  read by it, and so is what it sends (`Early`, `Typed`, `Plain`); an update writes what differs from what its handler
  read (`SavesWhatWasTyped`). A mark of a name agrees with the rows, or a check of it is on its way, or it is excused
  (`Verdicts`); the list of homes is the one wanted unless two calls about homes were under way (`Homely`), and what a
  call about homes will put back is right as well (`Marked`). Every action is a turn of one form, the sending of one
  call, an answer heard or an answer given with what it stores (`Turn`, `Sent`, `Heard`, `Effects`), and each kind
  keeps each conjunct. `SceneAssumption`: a scene does not begin with one home in two organisations.
* `JobsProofs`. *The sweep.* `SweepMirrors` says nothing until the sweep is done, so the invariant `SweepInv` says what
  each phase leaves to the next. `UsedInv`: an id known to a listing, a group or `ubx` was handed out (this alone gives
  `MembersExisted`). `CleanInv`, for a sweep without an error: in the deletions the remote collections are the
  listings without what has been deleted so far (`Without`); in the users' loop `ubx` is the inverse of externalId
  on what the server holds and the users visited have their attributes (`UsersDone`); in the groups' loop what is
  not visited is as listed, what is visited mirrors the database (`GroupsInv`). `SyncedInv`, for a sweep that began
  in sync: listings and collections are equal, so no comparison finds a difference. Theorems `SweepTypeCorrect`,
  `SweepIsCorrect`, `SweepIsIdempotent`, `MembersExisted`.
  *Provisioning.* `NoStrangers` is about a list of ids which a thread collects call by call from a snapshot, while others
  create, replace and delete users. `ProvisionInv`: an id that was handed out stays with its user or is gone
  (`Older`), so that `IsOf` is kept by every call of every thread. The ids a thread has collected are of users who were
  members of the group it will write, and so are the users it has still to look up (`Collects`); the object it is about
  to replace is that of the user (`Replaces`); snapshots and tables name members only (`WereMembers`), as `ever` grows
  with every commit; and so the remote groups list members (`ListsMembers`). An exception, a restart and an error
  answer leave all of this as it was. The theorem is for any load: any requests, threads and failures in any order.
  That the lists of calls consist of calls (`CallsType`) needs the type of `FlattenSeq`, a recursive function over any
  list: `FlattenType` shows it with the least number for which it would fail (`LeastNumber`), in place of an induction
  theorem. Theorems `ProvisionInvHolds`, `StrangersStayOut`.
  *Users.* A notification in the table, or in what the job read of it, went out as a mail (`Mailed`). Deletion and
  suspension need a notification that the job read, and the mails of the current run are recorded only at its end.
  Theorems `UserTypeCorrect`, `JobAnnounces`. If the job runs every day and nothing happens while it runs, what it
  read is still so (`SeenInv`), and a user whom it has not warned is at most a day short of the warning, one who is
  warned short of the end (`Timely`): so no mail comes late, and no end before the date it gave (`DatesAreKept`).
  *Collaborations.* One that is expired or suspended, and one that a job has decided to delete, had the mail since it
  was last made active (`Announced`); requests that forget the mails make it active. That an expired collaboration has
  a date (in `TypeOK`) needs that one about to be expired has (`HasDate`). Theorems `TypeCorrect`, `JobsAnnounce`. If
  both jobs run every day and nothing happens while they run: the days since the suspension are no more than the idle
  days beyond the threshold, which a run ends (`SuspendedInv`, theorem `SuspensionsEnd`); and on the day for a warning
  either the job of that day is still to run or the mail was sent, also when a date is set that is nearer (`DateInv`,
  `IdleInv`, theorem `WarningsComeInTime`).

Only model-checked: liveness (`Converges`, `Settles`, `InactiveAreDeleted`, `AbandonedAreDeleted`, `SpinnerEnds`,
`WaitingEnds`), which needs `ENABLED`; and `SyncedAtRest`, which is no theorem for all constants, as it fails for loads
whose requests overtake tasks (section 3) and holds of the loads that the run names. No module declares a `RECURSIVE`
operator.

## 5. Where code and text disagree

The run `forms_joins` shows one disagreement as a counterexample; the others were met while modelling, and the
properties name them as the exceptions they make.

*Forms.* The edit form of a collaboration binds its box to `allow_join_requests`, which the answer it spreads over its
state does not have: the box is always checked, and saving any field switches join requests on
(`CollaborationForm.jsx:343`; `en.js:727-728`: "When checked non-members of this collaboration can issue a join
request."). The form of a new organisation never sends `collaboration_creation_allowed`
(`OrganisationForm.jsx:214-239`). Answers about homes put back a snapshot of the form. A failed save leaves the
spinner; that of a new service renders the app again (`App.jsx:75-99`), which empties the form (`Service.jsx:86-90`):
what was typed is gone, and an answer about the former name may mark the empty field. A mail that fails after a save
leaves an entity without its invitations. A request whose mail to the managers fails is stored, and its requester sees
an error (`collaboration_request.py:66-85`).

*Members.* Only the page guards the last administrator of an organisation (`OrganisationAdmins.jsx:319`; `en.js:1908`);
no handler does. "Are you sure you want to resend all selected expired invitation?" (`en.js:1244`) is answered by
sending the numbers of all rows checked, members hidden by the filter of a group included
(`CollaborationAdmins.jsx:545`); the server takes them for invitations, so that one nobody selected is sent again, or
the request is a 404 (`Target`, `Missing`). An acceptance that fails as a conflict may delete the invitation, and no
page is told of it (`invitation.py:154`, `:160`, `organisation_invitation.py:64`, `service_invitation.py:63`); the pages
of an organisation or a service are told of a removal that found nobody (`organisation_membership.py:25-27`).

*Login.* The reset of a second factor during the login of a service is always refused, as there is no session
(`SecondFactorAuthentication.jsx:192`; `en.js:1986`). A user who has not agreed and is on `/2fa` sees the page reload
for ever (`ReloadsForEver`).

*Settings.* The second Update of a page sends 0 as the rate of the sweep, by which the job then divides
(`ServiceOverview.jsx:424`, `cron/scim_sweep_services.py:32`; `en.js:2068`). Two platform administrators who change the
SCIM server of a service at once can leave SCIM on without an address, which `isValid` (`ServiceOverview.jsx:332`) would
let neither save: each handler writes only the columns that differ from what it has read (`service.py:471-500`,
`db/models.py:43-47`). `UntouchedDraftIsValid` makes that exception; it takes more turns than the scenes of the run
have, and was met when the invariant without it turned out not to be inductive.

*Groups.* A group made beside another of the same name is answered with `{}`, and the page says it was created
(`Groups.jsx:413-417`, `group.py:120-122`; `en.js:1445`). "Automatically add all existing and future new collaboration
members" (`en.js:1416`) fails for who joins during the switch, for a removal asked for from an old page, and when the
second commit fails. `update_group` never looks for duplicates: the index answers an equal short name with an error,
an equal name is stored. A group may take the name of a service's group, not its short name.

*Connections.* The dialog of the collaborations of a service stays open after its confirmation and its selection
survives the removal, so that a later removal of a selection fails half way (`ServiceCollaborations.jsx:47-69`). The
page behind a mail has no busy flag: a second click is answered 404 (`ServiceConnectionRequest.jsx:76-86`). An approval
connects before it mails and deletes the request (`service_connection_request.py:35-56`). After a message the list of
services waits a second to "Ensure we don't get race conditions with the refresh in CollaborationDetail"
(`UsedServices.jsx:91`). The race is there when that refresh takes longer, or is heard between the call for all services
and its answer, which is filtered with the collaboration from before it (line 61): a service is then listed twice or not
at all until the next message (`late`).

*Requests.* An approved request for a collaboration is announced to another topic than the page listens to
(`collaboration_request.py:152`). The dialog to join does not wait for its answer. Once the requester runs a
collaboration, the home page opens the tab of collaborations (`Home.jsx:69-76`) and hears no more of other requests.

*Sweep.* A listing answered with an error is taken for an empty one (`sweep.py:92`); every object is created again and
no later sweep removes the duplicates (`en.js:2064`: "A periodic check, and update if necessary, to keep the service's
data in sync").

*Provisioning.* The look-up and the creation of a user are two calls; two threads create the user twice
(`scim.py:124`, `scim.py:79`).

*Retention.* A login while the job mails is lost, and the user suspended or deleted (`user_suspending.py:78`). The mail
about the suspension counts the deletion from the suspension, the job from the last login
(`user_suspending.py:26-33`, `91`; `suspend_suspend_notification.txt:7-8`).

*Collaborations.* A suspended one is kept by logins through another collaboration and by PIN checks
(`collaboration_inactivity_suspension.py:46`, `user_saml.py:200-202`, `pam_websso.py:172-174`).

## 6. Plan

Done: the modules of section 2 with their runs; the proofs of section 4. Left: memberships that expire, PAM web login
and the locks of the jobs have no module yet.

## 7. What is left out

Of the whole: administration of the platform; the OIDC and SAML exchanges; the text of mails, templates and pages; the
audit log, the message bus, statistics and views; the schema migrations; authorization predicates
(`auth/security.py`), which have no state. A change of a service's `scim_enabled`, URL or token is not propagated by
the code and not modelled.

* `MembersPage`. Invitations made by the external API, whose row stays with a status once it has lapsed or was taken up
  (`invitation.py:149`, `:200`), and the declining of an invitation are left out.
* `ServiceSettings`. A message and the reading it leads to are one; checks of networks and new token values are answered
  at once; fields with an address are `policy`; the secret of the token form is left out; roles do not change.
* `EntityForms`. Typing and leaving a field are one; so are an error and the closing of what reports it; an answer 404
  leads to the page for it in the code and is like any error here; support, contact and security mail are `mail`,
  fields with an address `uri`, descriptions `text`, the radios of compliance `complied`; tags, groups, roles and the
  expiry of collaborations are left out; the edit branches of `Service.jsx` are dead, as it is only mounted for a new
  service.
* `Requests`. Name and short name are `name`; the look-up of the home organisation is answered at once; the commit of
  the membership right after that of the collaboration is not told apart; rights do not change, but for those of who
  asked over a collaboration that was made. A *closed* scene is one
  whose collaboration stopped taking join requests after the page was opened.
* `ServiceConnections`. Services of the organisation, the switch for users who are not members and the topic `service`
  are left out; to disconnect and to drop are one step; that the removal of a link with two rows may fail depends on
  the driver and is a choice.
* `Groups`. Name and short name are apart: `create_group` counts an equal short name always, an equal name only among
  groups of the same `service_group_id`, and the unique index on the short name (`b1dd0471b0c1`, line 20) refuses the
  second row of an overtaken creation or of an edit. A short name is typed for a new group or, in the scenes with an
  administrator of the platform, in an edit; that of a group of a service has a dash, which the field takes out, so it
  is not typed. Scenes may begin with a short name in the field of an open form (`drafts`). Left out are description,
  urn, identifier and history, invitations to groups, the external API (`group.py:181-242`) and the page
  `ServiceGroups` (a group of a service is a flag); rows of one member are capped at two; who left does not come back.
* Sweep and provisioning: see their subsections in section 2.
