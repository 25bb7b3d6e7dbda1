------------------------ MODULE CollaborationLifecycle -------------------------
(***************************************************************************)
(* The life of a collaboration: an expiry date that its admins set, a      *)
(* suspension for want of activity, and the deletion after either.  Two    *)
(* daily jobs, cron/collaboration_expiration.py and                        *)
(* cron/collaboration_inactivity_suspension.py, start at the same hour;    *)
(* each is one transaction that reads at its start and writes when its     *)
(* mails are sent.  Between the two, the other job and requests commit.    *)
(* The rows of different collaborations meet only in a job that fails, so  *)
(* the model has one.  A day is the time from one hour of the jobs to the  *)
(* next.                                                                   *)
(***************************************************************************)
EXTENDS Integers

CONSTANTS
  WarnExpiry,    \* collaboration_expiration.expired_warning_mail_days_threshold
  KeepExpired,   \* collaboration_expiration.expired_collaborations_days_threshold
  Inactivity,    \* collaboration_suspension.collaboration_inactivity_days_threshold
  WarnInactive,  \* collaboration_suspension.inactivity_warning_mail_days_threshold
  KeepSuspended, \* collaboration_suspension.collaboration_deletion_days_threshold
  PastDates,     \* feature.past_dates_allowed
  Elsewhere,     \* a user of the collaboration is authorized through another one
  Never,         \* no expiry date
  MinLeft, MaxLeft, MaxIdle,  \* bounds: the days that are told apart
  Modes          \* what may go wrong: see ModeAssumption

ASSUME LifecycleAssumption ==
  /\ WarnExpiry \in Nat /\ KeepExpired \in Nat
  /\ Inactivity \in Nat /\ WarnInactive \in Nat /\ KeepSuspended \in Nat
  /\ PastDates \in BOOLEAN /\ Elsewhere \in BOOLEAN
  /\ MinLeft \in Int /\ MaxLeft \in Nat /\ MinLeft <= 0 /\ MaxIdle \in Nat
  /\ Never \notin Int

(* As in test_config.yml:156-169: a warning comes some days before what it *)
(* warns of, and not before the days are counted.  The bound lies beyond   *)
(* the last comparison.                                                    *)
ASSUME ThresholdAssumption ==
  /\ 0 < WarnExpiry /\ 0 < WarnInactive /\ WarnInactive < Inactivity
  /\ Inactivity + KeepSuspended < MaxIdle

(* punctual: both jobs run and succeed every day.  overlap: requests are   *)
(* handled while a job runs.  failures bounds the failed runs.             *)
ASSUME ModeAssumption ==
  Modes \subseteq [punctual : BOOLEAN, overlap : BOOLEAN, failures : Nat]

Days == MinLeft..MaxLeft
Statuses == {"active", "expired", "suspended", "deleted"}
Mails == {"expiryWarning", "expired", "suspensionWarning", "suspended"}

VARIABLES
  mode,      \* the mode of this behaviour, which never changes
  status,
  left,      \* days from the day of the jobs to the expiry date, which is at midnight
  idle,      \* days begun since last_activity_date
  expiryJob, \* what expire_collaborations has found to do, "off" when it is not running
  suspender, \* the same of suspend_collaborations, with the last_activity_date it read
  ran,       \* the jobs that have committed today
  told,      \* the mails since a request last made the collaboration active (history)
  lead,      \* left as of that request (history)
  since,     \* days since the job suspended it, Never after a request (history)
  failures

rows == <<status, left, idle>>
history == <<told, lead, since>>
vars == <<mode, rows, expiryJob, suspender, ran, history, failures>>

Off == [do |-> "off", idle |-> 0]

Init ==
  /\ mode \in Modes
  /\ status = "active" /\ left \in 1..MaxLeft \cup {Never} /\ idle = 0
  /\ expiryJob = "off" /\ suspender = Off /\ ran = {}
  /\ told = {} /\ lead = left /\ since = Never
  /\ failures = 0

-----------------------------------------------------------------------------
(* The queries of expire_collaborations, at the hour of the jobs: an       *)
(* interval of instants that is one day long holds one run.                *)
(* Mutant: the wrong status.                                               *)
WarnsOfExpired == status = "expired" /\ left = WarnExpiry
WarnsOfExpiry == status = "active" /\ left = WarnExpiry

(* Mutant: the status does not matter.                                     *)
DeletesAnyOverdue ==
  status # "deleted" /\ left # Never /\ left + KeepExpired <= 1
DeletesExpired == status = "expired" /\ left # Never /\ left + KeepExpired <= 1
Expires == status = "active" /\ left # Never /\ left <= 0

ExpiryDecision ==
  CASE DeletesExpired -> "delete"
    [] WarnsOfExpiry /\ ~DeletesExpired -> "warn"
    [] Expires /\ ~DeletesExpired -> "expire"
    [] OTHER -> "none"

(* The queries of suspend_collaborations, the first for any status.        *)
WarnsOfSuspension == status # "deleted" /\ idle + WarnInactive = Inactivity

(* Mutant: an exact comparison.                                            *)
DeletesOnTheDay == status = "suspended" /\ idle = Inactivity + KeepSuspended + 1
DeletesSuspended == status = "suspended" /\ idle > Inactivity + KeepSuspended
Suspends == status = "active" /\ idle >= Inactivity

SuspensionDecision ==
  CASE DeletesSuspended -> "delete"
    [] Suspends -> "suspend"
    [] WarnsOfSuspension /\ ~Suspends /\ ~DeletesSuspended -> "warn"
    [] OTHER -> "none"

(* Bound: a job succeeds once a day (api/system.py can run it again).      *)
StartExpiry ==
  /\ expiryJob = "off" /\ "expiry" \notin ran
  /\ expiryJob' = ExpiryDecision
  /\ UNCHANGED <<mode, rows, suspender, ran, history, failures>>

StartSuspension ==
  /\ suspender = Off /\ "suspension" \notin ran
  /\ suspender' = [do |-> SuspensionDecision, idle |-> idle]
  /\ UNCHANGED <<mode, rows, expiryJob, ran, history, failures>>

ExpiryMail ==
  CASE expiryJob = "warn" -> {"expiryWarning"}
    [] expiryJob = "expire" -> {"expired"}
    [] OTHER -> {}

SuspensionMail ==
  CASE suspender.do = "warn" -> {"suspensionWarning"}
    [] suspender.do = "suspend" -> {"suspended"}
    [] OTHER -> {}

(* last_activity_date is ON UPDATE CURRENT_TIMESTAMP and the job does not  *)
(* write it.                                                               *)
CommitExpiry ==
  /\ expiryJob # "off"
  /\ expiryJob = "expire" => status # "deleted"
  /\ CASE expiryJob = "expire" -> status' = "expired" /\ idle' = 0
       [] expiryJob = "delete" -> status' = "deleted" /\ UNCHANGED idle
       [] OTHER -> UNCHANGED <<status, idle>>
  /\ told' = told \cup ExpiryMail
  /\ expiryJob' = "off" /\ ran' = ran \cup {"expiry"}
  /\ UNCHANGED <<mode, left, suspender, lead, since, failures>>

(* Mutant: last_activity_date is left to its default.                      *)
CommitSuspensionUndated ==
  /\ suspender.do # "off"
  /\ suspender.do = "suspend" => status # "deleted"
  /\ CASE suspender.do = "suspend" -> status' = "suspended" /\ idle' = 0 /\ since' = 0
       [] suspender.do = "delete" -> status' = "deleted" /\ UNCHANGED <<idle, since>>
       [] OTHER -> UNCHANGED <<status, idle, since>>
  /\ told' = told \cup SuspensionMail
  /\ suspender' = Off /\ ran' = ran \cup {"suspension"}
  /\ UNCHANGED <<mode, left, expiryJob, lead, failures>>

(* The job writes the last_activity_date it read, plus five seconds.       *)
CommitSuspension ==
  /\ suspender.do # "off"
  /\ suspender.do = "suspend" => status # "deleted"
  /\ CASE suspender.do = "suspend" -> /\ status' = "suspended"
                                      /\ idle' = suspender.idle /\ since' = 0
       [] suspender.do = "delete" -> status' = "deleted" /\ UNCHANGED <<idle, since>>
       [] OTHER -> UNCHANGED <<status, idle, since>>
  /\ told' = told \cup SuspensionMail
  /\ suspender' = Off /\ ran' = ran \cup {"suspension"}
  /\ UNCHANGED <<mode, left, expiryJob, lead, failures>>

(* A mail that cannot be sent, here or for another collaboration, or a row *)
(* that is gone at the flush (which a deletion may pass over): nothing is  *)
(* committed, but the mail may be out.                                     *)
Fails(touches) ==
  \/ failures < mode.failures /\ failures' = failures + 1
  \/ touches /\ status = "deleted" /\ UNCHANGED failures

FailExpiry ==
  /\ expiryJob # "off" /\ Fails(expiryJob \in {"expire", "delete"})
  /\ told' \in {told, told \cup ExpiryMail}
  /\ expiryJob' = "off"
  /\ UNCHANGED <<mode, rows, suspender, ran, lead, since>>

FailSuspension ==
  /\ suspender # Off /\ Fails(suspender.do \in {"suspend", "delete"})
  /\ told' \in {told, told \cup SuspensionMail}
  /\ suspender' = Off
  /\ UNCHANGED <<mode, rows, expiryJob, ran, lead, since>>

Later(n) == IF n < MaxIdle THEN n + 1 ELSE MaxIdle

(* Bound: a job ends on the day it starts.                                 *)
NewDay ==
  /\ expiryJob = "off" /\ suspender = Off
  /\ mode.punctual => ran = {"expiry", "suspension"}
  /\ ran' = {}
  /\ left' = IF left # Never /\ left > MinLeft THEN left - 1 ELSE left
  /\ idle' = Later(idle) /\ since' = IF since = Never THEN Never ELSE Later(since)
  /\ UNCHANGED <<mode, status, expiryJob, suspender, told, lead, failures>>

-----------------------------------------------------------------------------
Request ==
  /\ status # "deleted"
  /\ mode.overlap \/ (expiryJob = "off" /\ suspender = Off)
  /\ since' = Never
  /\ UNCHANGED <<mode, expiryJob, suspender, ran, failures>>

MakeActive == status' = "active" /\ idle' = 0 /\ told' = {} /\ lead' = left'

Unsuspend == Request /\ UNCHANGED left /\ MakeActive

Activate == Request /\ left' = Never /\ MakeActive

(* The date is compared with the clock, which passes midnight between two  *)
(* hours of the jobs.                                                      *)
MayBePast(d) == d # Never /\ d <= 1
MayBeFuture(d) == d # Never => d >= 1

(* update_collaboration.  A client that sends the status it read leaves an *)
(* expired collaboration expired if the date has passed; the web client    *)
(* sends none.                                                             *)
Update(d) ==
  /\ ~PastDates => MayBeFuture(d)
  /\ Request
  /\ left' = d
  /\ \/ MakeActive
     \/ /\ status = "expired" /\ MayBePast(d)
        /\ idle' = 0
        /\ UNCHANGED <<status, told, lead>>

Used == Request /\ idle' = 0 /\ UNCHANGED <<status, left, told, lead>>

(* An authorized login, through this collaboration, or through another one *)
(* that is connected to the same service.                                  *)
Login == MayBeFuture(left) /\ (status = "active" \/ Elsewhere) /\ Used

(* check_pin asks for a membership, whatever the status and the date.      *)
PinLogin == Used

(* A new short name of the organisation changes global_urn, and with it    *)
(* last_activity_date.                                                     *)
RenameOrganisation == Used

DeleteCollaboration ==
  Request /\ status' = "deleted" /\ UNCHANGED <<left, idle, told, lead>>

Requests ==
  \/ Unsuspend \/ Activate
  \/ \E d \in Days \cup {Never} : Update(d)
  \/ Login \/ PinLogin \/ RenameOrganisation
  \/ DeleteCollaboration

EndExpiry == CommitExpiry \/ FailExpiry
EndSuspension == CommitSuspension \/ FailSuspension

Next ==
  \/ StartExpiry \/ EndExpiry \/ StartSuspension \/ EndSuspension
  \/ NewDay
  \/ Requests

Spec == Init /\ [][Next]_vars

(* The scheduler starts both jobs every day and they end; days pass.       *)
FairSpec ==
  /\ Spec
  /\ WF_vars(StartExpiry) /\ WF_vars(EndExpiry)
  /\ WF_vars(StartSuspension) /\ WF_vars(EndSuspension)
  /\ WF_vars(NewDay)

-----------------------------------------------------------------------------
(* The types; and an expired collaboration has a date, from which its      *)
(* deletion is counted, unless a request falls in a run of the job.        *)
TypeOK ==
  /\ mode \in Modes
  /\ status \in Statuses /\ left \in Days \cup {Never} /\ idle \in 0..MaxIdle
  /\ expiryJob \in {"off", "none", "warn", "expire", "delete"}
  /\ suspender \in [do : {"off", "none", "warn", "suspend", "delete"}, idle : 0..MaxIdle]
  /\ ran \subseteq {"expiry", "suspension"}
  /\ told \subseteq Mails
  /\ lead \in Days \cup {Never} /\ since \in 0..MaxIdle \cup {Never}
  /\ failures \in 0..mode.failures
  /\ ~mode.overlap /\ status = "expired" => left # Never

JobDeletes == /\ status # "deleted" /\ status' = "deleted"
              /\ <<expiryJob, suspender>>' # <<expiryJob, suspender>>
JobExpires == status = "active" /\ status' = "expired"
JobSuspends == status = "active" /\ status' = "suspended"

(* A job deletes no collaboration whose members did not get, in an earlier *)
(* run and after the last time somebody made it active, the mail that it   *)
(* has expired or is suspended: whichever of the two jobs comes first,     *)
(* whatever runs failed.  A request between the queries of a job and its   *)
(* commit is left out: it is lost.                                         *)
DeletionAnnounced ==
  [][JobDeletes /\ ~mode.overlap => told \cap {"expired", "suspended"} # {}]_vars

(* If the jobs run every day, a collaboration whose date was set early     *)
(* enough does not expire, and none is suspended, without the warning.     *)
WarnedInTime ==
  [][mode.punctual /\ ~mode.overlap =>
       /\ JobExpires /\ lead # Never /\ lead > WarnExpiry
            => "expiryWarning" \in told
       /\ JobSuspends => "suspensionWarning" \in told]_vars

(* "After how many days after suspension do we actually delete the         *)
(* collaboration" (config/test_config.yml): if the jobs run every day, a   *)
(* collaboration that nobody touches stays suspended that long, and a day. *)
SuspensionBounded ==
  mode.punctual /\ ~mode.overlap /\ status = "suspended" /\ since # Never
    => since <= KeepSuspended + 1

(* A collaboration that nobody touches any more is deleted, whatever state *)
(* it is in, whatever days the jobs miss.                                  *)
AbandonedAreDeleted ==
  ~mode.overlap /\ <>[](idle = MaxIdle) => <>(status = "deleted")
=============================================================================
