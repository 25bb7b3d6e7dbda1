---------------------------- MODULE UserRetention -----------------------------
(***************************************************************************)
(* How long an inactive user is kept: the daily job of                     *)
(* cron/user_suspending.py, which warns, suspends, warns again and deletes,*)
(* and the requests that reset the clock, suspend or delete meanwhile.     *)
(* Time is counted in days begun since last_login_date, a day being the    *)
(* time from one scheduled run to the next.  The job is a single           *)
(* transaction that lasts as long as the mails it sends: it reads at       *)
(* StartJob and writes at CommitJob, with requests in between.  Names that *)
(* CollaborationLifecycle has too are marked with User.                    *)
(***************************************************************************)
EXTENDS Naturals

CONSTANTS
  AllUsers,
  AllowedInactive,   \* retention.allowed_inactive_period_days
  ReminderSuspend,   \* retention.reminder_suspend_period_days
  ReminderExpiry,    \* retention.reminder_expiry_period_days
  RemoveSuspended,   \* retention.remove_suspended_users_period_days
  FreeRide,          \* some service has non_member_users_access_allowed
  UserModes,         \* what may go wrong: see UserModeAssumption
  MaxUserIdle        \* bound: days since a login that are told apart

ASSUME RetentionAssumption ==
  /\ AllowedInactive \in Nat /\ ReminderSuspend \in Nat
  /\ ReminderExpiry \in Nat /\ RemoveSuspended \in Nat
  /\ ReminderSuspend <= AllowedInactive /\ ReminderExpiry <= RemoveSuspended
  /\ FreeRide \in BOOLEAN /\ MaxUserIdle \in Nat

(* As in test_config.yml:115-119: a warning comes some days before the     *)
(* suspension, and the one before the deletion after that.                 *)
ASSUME PeriodsAssumption ==
  /\ 0 < ReminderSuspend /\ ReminderSuspend < AllowedInactive
  /\ AllowedInactive + ReminderExpiry < RemoveSuspended

(* punctual: the job runs and succeeds every day.  overlap: requests are   *)
(* handled while the job runs.  failures bounds its failed runs.           *)
ASSUME UserModeAssumption ==
  UserModes \subseteq [punctual : BOOLEAN, overlap : BOOLEAN, failures : Nat]

(* SuspendNotification: (is_warning, is_suspension) is (1,1), (0,1), (1,0).*)
(* The fourth, (0,0), is deleted with the user it tells of.                *)
Notifications == {"suspendWarning", "suspended", "deletionWarning"}

VARIABLES
  userMode,   \* the mode of this behaviour, which never changes
  userStatus, \* active, suspended (the column suspended) or deleted (no row)
  userIdle,   \* days begun since last_login_date
  sent,       \* user.suspend_notifications
  running,    \* the job is between its queries and its commit
  seen,       \* the rows as the queries of the job returned them
  userRan,    \* the job has committed today
  mailed,     \* the mails a user ever received (history)
  promised,   \* the days without login that the last mail with a date of
              \* deletion allowed, 0 after a login (history)
  userFailures

userVars == <<userMode, userStatus, userIdle, sent, running, seen, userRan, mailed, promised,
              userFailures>>

UserStatuses == {"active", "suspended", "deleted"}
Rows == [status : [AllUsers -> UserStatuses], idle : [AllUsers -> 0..MaxUserIdle],
         sent : [AllUsers -> SUBSET Notifications]]
NoRows == [status |-> [u \in AllUsers |-> "deleted"], idle |-> [u \in AllUsers |-> 0],
           sent |-> [u \in AllUsers |-> {}]]

UserInit ==
  /\ userMode \in UserModes
  /\ userStatus = [u \in AllUsers |-> "active"] /\ userIdle = [u \in AllUsers |-> 0]
  /\ sent = [u \in AllUsers |-> {}]
  /\ running = FALSE /\ seen = NoRows /\ userRan = FALSE
  /\ mailed = [u \in AllUsers |-> {}] /\ promised = [u \in AllUsers |-> 0]
  /\ userFailures = 0

-----------------------------------------------------------------------------
(* What the job decides for a user from the rows r it read.  "last_login < *)
(* now - d" compares instants: it holds when more than d days have begun.  *)
Warns(r, u) ==
  /\ r.status[u] = "active" /\ r.idle[u] + ReminderSuspend > AllowedInactive
  /\ r.sent[u] = {}

SuspendsUser(r, u) ==
  /\ r.status[u] = "active" /\ r.idle[u] > AllowedInactive
  /\ r.sent[u] # {}

(* The second query sees the users the first loop has just suspended.      *)
Suspended(r, u) == r.status[u] = "suspended" \/ SuspendsUser(r, u)

WarnsDeletion(r, u) ==
  /\ Suspended(r, u) /\ r.idle[u] + ReminderExpiry > RemoveSuspended
  /\ "deletionWarning" \notin r.sent[u]

(* Mutant: any notification counts as the warning.                         *)
DeletesOnAnyNotification(r, u) ==
  /\ Suspended(r, u) /\ r.idle[u] > RemoveSuspended
  /\ r.sent[u] # {}

(* Mutant: the period starts with the warning, not with the login.         *)
DeletesEarly(r, u) ==
  /\ Suspended(r, u) /\ r.idle[u] + ReminderExpiry > RemoveSuspended
  /\ "deletionWarning" \in r.sent[u]

(* Mutant: an exact comparison.                                            *)
DeletesUserOnTheDay(r, u) ==
  /\ Suspended(r, u) /\ r.idle[u] = RemoveSuspended + 1
  /\ "deletionWarning" \in r.sent[u]

Deletes(r, u) ==
  /\ Suspended(r, u) /\ r.idle[u] > RemoveSuspended
  /\ "deletionWarning" \in r.sent[u]

NewNotifications(r, u) ==
  (IF Warns(r, u) THEN {"suspendWarning"} ELSE {})
  \cup (IF SuspendsUser(r, u) THEN {"suspended"} ELSE {})
  \cup (IF WarnsDeletion(r, u) THEN {"deletionWarning"} ELSE {})

Touched(r) == {u \in AllUsers : NewNotifications(r, u) # {} \/ Deletes(r, u)}

(* The date of deletion in the mail, as days without login.                *)
DeletionDays(kind) ==
  CASE kind = "suspendWarning" -> RemoveSuspended + ReminderSuspend + ReminderExpiry
    [] kind = "suspended" -> RemoveSuspended + ReminderExpiry
    [] kind = "deletionWarning" -> ReminderExpiry

LastMail(r, u) ==
  IF WarnsDeletion(r, u) THEN "deletionWarning"
  ELSE IF SuspendsUser(r, u) THEN "suspended" ELSE "suspendWarning"

(* A login during the job resets the clock of what the mail says.          *)
Promise(r, u) ==
  IF NewNotifications(r, u) = {} \/ userIdle[u] < r.idle[u] THEN promised[u]
  ELSE r.idle[u] + DeletionDays(LastMail(r, u))

-----------------------------------------------------------------------------
StartJob ==
  /\ ~running
  /\ running' = TRUE
  /\ seen' = [status |-> userStatus, idle |-> userIdle, sent |-> sent]
  /\ UNCHANGED <<userMode, userStatus, userIdle, sent, userRan, mailed, promised, userFailures>>

EndJob == running' = FALSE /\ seen' = NoRows

Mail(S) == mailed' = [u \in AllUsers |-> IF u \in S
                        THEN mailed[u] \cup NewNotifications(seen, u) ELSE mailed[u]]

(* The ORM writes the column suspended and the new notifications, and      *)
(* deletes the users; last_login_date is not written.                      *)
CommitJob ==
  /\ running
  /\ \A u \in AllUsers : NewNotifications(seen, u) # {} => userStatus[u] # "deleted"
  /\ userStatus' = [u \in AllUsers |-> IF Deletes(seen, u) THEN "deleted"
                                ELSE IF SuspendsUser(seen, u) THEN "suspended" ELSE userStatus[u]]
  /\ sent' = [u \in AllUsers |-> IF Deletes(seen, u) THEN {}
                              ELSE sent[u] \cup NewNotifications(seen, u)]
  /\ Mail(AllUsers)
  /\ promised' = [u \in AllUsers |-> Promise(seen, u)]
  /\ userRan' = TRUE
  /\ EndJob
  /\ UNCHANGED <<userMode, userIdle, userFailures>>

(* A mail that cannot be sent, or a row that is gone at the flush (which a *)
(* deletion may pass over): nothing is committed, but the mails up to there*)
(* are out.                                                                *)
FailJob ==
  /\ running
  /\ \/ userFailures < userMode.failures /\ userFailures' = userFailures + 1
     \/ (\E u \in Touched(seen) : userStatus[u] = "deleted") /\ UNCHANGED userFailures
  /\ \E S \in SUBSET Touched(seen) :
       /\ Mail(S)
       /\ promised' = [u \in AllUsers |-> IF u \in S THEN Promise(seen, u) ELSE promised[u]]
  /\ EndJob
  /\ UNCHANGED <<userMode, userStatus, userIdle, sent, userRan>>

(* Bound: the job ends on the day it starts.                               *)
NewUserDay ==
  /\ ~running
  /\ userMode.punctual => userRan
  /\ userRan' = FALSE
  /\ userIdle' = [u \in AllUsers |-> IF userIdle[u] < MaxUserIdle THEN userIdle[u] + 1 ELSE MaxUserIdle]
  /\ UNCHANGED <<userMode, userStatus, sent, running, seen, mailed, promised, userFailures>>

-----------------------------------------------------------------------------
Reset(u) == userIdle' = [userIdle EXCEPT ![u] = 0] /\ promised' = [promised EXCEPT ![u] = 0]
UserRequest ==
  /\ running => userMode.overlap
  /\ UNCHANGED <<userMode, running, seen, userRan, mailed, userFailures>>

(* resume_session, acs and verify2fa do not look at the column suspended.  *)
UserLogin(u) ==
  /\ userStatus[u] # "deleted"
  /\ Reset(u)
  /\ UserRequest /\ UNCHANGED <<userStatus, sent>>

(* A session lives for a day, and its login set last_login_date.           *)
Me(u) ==
  /\ userStatus[u] = "active" /\ userIdle[u] <= 1
  /\ sent' = [sent EXCEPT ![u] = {}]
  /\ UserRequest /\ UNCHANGED <<userStatus, userIdle, promised>>

(* _do_attributes with the answer "authorized".                            *)
ServiceLogin(u) ==
  /\ userStatus[u] = "active" \/ (userStatus[u] = "suspended" /\ FreeRide)
  /\ Reset(u)
  /\ sent' = [sent EXCEPT ![u] = {}]
  /\ UserRequest /\ UNCHANGED userStatus

ActivateUser(u) ==
  /\ userStatus[u] # "deleted"
  /\ userStatus' = [userStatus EXCEPT ![u] = "active"]
  /\ Reset(u)
  /\ sent' = [sent EXCEPT ![u] = {}]
  /\ UserRequest

(* check_rate_limit                                                        *)
TooManyGuesses(u) ==
  /\ userStatus[u] # "deleted"
  /\ userStatus' = [userStatus EXCEPT ![u] = "suspended"]
  /\ UserRequest /\ UNCHANGED <<userIdle, sent, promised>>

DeleteAccount(u) ==
  /\ userStatus[u] # "deleted"
  /\ userStatus' = [userStatus EXCEPT ![u] = "deleted"]
  /\ sent' = [sent EXCEPT ![u] = {}]
  /\ UserRequest /\ UNCHANGED <<userIdle, promised>>

UserStep(u) == UserLogin(u) \/ Me(u) \/ ServiceLogin(u) \/ ActivateUser(u)
               \/ TooManyGuesses(u) \/ DeleteAccount(u)

UserNext == StartJob \/ CommitJob \/ FailJob \/ NewUserDay \/ \E u \in AllUsers : UserStep(u)

UserSpec == UserInit /\ [][UserNext]_userVars

(* The scheduler starts the job every day and the job ends; days pass.     *)
FairUserSpec == UserSpec /\ WF_userVars(StartJob) /\ WF_userVars(CommitJob \/ FailJob) /\ SF_userVars(NewUserDay)

-----------------------------------------------------------------------------
UserTypeOK ==
  /\ [status |-> userStatus, idle |-> userIdle, sent |-> sent] \in Rows /\ seen \in Rows
  /\ \A u \in AllUsers : userStatus[u] = "deleted" => sent[u] = {}
  /\ running \in BOOLEAN /\ userRan \in BOOLEAN
  /\ mailed \in [AllUsers -> SUBSET Notifications] /\ promised \in [AllUsers -> Nat]
  /\ userMode \in UserModes /\ userFailures \in 0..userMode.failures

JobDeletesUsers(u) == running /\ userStatus[u] # "deleted" /\ userStatus'[u] = "deleted" /\ ~running'
JobSuspendsUsers(u) == running /\ userStatus[u] = "active" /\ userStatus'[u] = "suspended" /\ ~running'

(* The job deletes nobody who did not get the mail that announces the      *)
(* deletion in an earlier run, and suspends nobody who did not get a mail  *)
(* in an earlier run, whatever the requests between its query and its      *)
(* commit and whatever runs failed.                                        *)
NothingUnannounced ==
  [][\A u \in AllUsers : /\ JobDeletesUsers(u) => "deletionWarning" \in mailed[u]
                         /\ JobSuspendsUsers(u) => mailed[u] # {}]_userVars

(* When the job runs every day and no request falls in a run, nobody is    *)
(* deleted before the date that the last mail about the deletion named.    *)
LastDateKept ==
  [][\A u \in AllUsers : JobDeletesUsers(u) /\ userMode.punctual /\ ~userMode.overlap
       => userIdle[u] >= promised[u]]_userVars

(* A user who never comes back and whom nobody activates is deleted: a     *)
(* failed run, a suspension for guessing or a warning sent twice does not  *)
(* take a user off the track.                                              *)
InactiveAreDeleted ==
  \A u \in AllUsers : <>[](userIdle[u] = MaxUserIdle) => <>(userStatus[u] = "deleted")
=============================================================================
