------------------------------- MODULE JobsProofs -------------------------------
(***************************************************************************)
(* The jobs of the server, for any users, groups, thresholds and periods.  *)
(* The two jobs of CollaborationLifecycle delete nothing unannounced; run  *)
(* every day, they warn in time and leave nothing suspended for longer     *)
(* than is set.  The job of UserRetention does nothing unannounced and, run*)
(* every day, keeps the date of its last mail.  A sweep without failure    *)
(* leaves a mirror of what it read, and a sweep of a mirror writes nothing.*)
(* The tasks of ScimProvision, in any order and with any failures, show the*)
(* service no user in a group who was never its member.                    *)
(***************************************************************************)
EXTENDS CollaborationLifecycle, UserRetention, ScimSweep, ScimProvision, FiniteSetTheorems,
        WellFoundedInduction, TLAPS

-----------------------------------------------------------------------------
(* Collaborations.  The first invariant: one that is expired or suspended, *)
(* and one that a job is about to delete, had the mail of it since it was  *)
(* last made active.                                                       *)
Announced ==
  /\ status = "expired" => "expired" \in told
  /\ status = "suspended" => "suspended" \in told
  /\ expiryJob = "delete" => "expired" \in told
  /\ suspender.do = "delete" => "suspended" \in told

HasDate == expiryJob = "expire" => left # Never

IInv == TypeOK /\ (~mode.overlap => Announced /\ HasDate)

LEMMA InitIInv == Init => IInv
<1> SUFFICES ASSUME Init PROVE IInv
  OBVIOUS
<1>1. TypeOK
  BY LifecycleAssumption, ModeAssumption DEF Init, TypeOK, Days, Statuses, Off, Mails
<1> QED BY <1>1 DEF Init, IInv, Announced, HasDate, Off

(* A count of days stays within its bound.                                 *)
LEMMA LaterIsBounded ==
  ASSUME NEW n \in 0..MaxIdle
  PROVE  Later(n) \in 0..MaxIdle
BY LifecycleAssumption DEF Later

(* A request forgets the mails when it makes the collaboration active, and *)
(* then the collaboration is neither expired nor suspended.                *)
LEMMA RequestKeepsIInv ==
  ASSUME IInv, Requests
  PROVE  IInv'
<1> USE LifecycleAssumption DEF IInv, TypeOK, Statuses
<1>1. /\ UNCHANGED <<mode, expiryJob, suspender, ran, failures>> /\ since' = Never
      /\ mode.overlap \/ (expiryJob = "off" /\ suspender = Off)
  BY DEF Requests, Unsuspend, Activate, Update, Login, PinLogin, RenameOrganisation,
         DeleteCollaboration, Used, Request
<1>2. left' \in Days \cup {Never} /\ lead' \in Days \cup {Never} /\ idle' \in 0..MaxIdle
  BY DEF Requests, Unsuspend, Activate, Update, Login, PinLogin, RenameOrganisation,
         DeleteCollaboration, Used, MakeActive
<1>3. \/ status' = "active" /\ told' = {}
      \/ status' \in {status, "deleted"} /\ told' = told
  BY DEF Requests, Unsuspend, Activate, Update, Login, PinLogin, RenameOrganisation,
         DeleteCollaboration, Used, MakeActive
<1>4. status' = "expired" => status = "expired" /\ (left' = left \/ left' # Never)
  BY DEF Requests, Unsuspend, Activate, Update, Login, PinLogin, RenameOrganisation,
         DeleteCollaboration, Used, MakeActive, MayBePast
<1>5. TypeOK'
  BY <1>1, <1>2, <1>3, <1>4
<1>6. ~mode.overlap => expiryJob # "delete" /\ expiryJob # "expire" /\ suspender.do # "delete"
  BY <1>1 DEF Off
<1> QED BY <1>1, <1>3, <1>5, <1>6 DEF Announced, HasDate

LEMMA NextIInv == IInv /\ [Next]_vars => IInv'
<1> SUFFICES ASSUME IInv, [Next]_vars PROVE IInv'
  OBVIOUS
<1> USE LifecycleAssumption DEF IInv, TypeOK, Announced, HasDate
<1>1. CASE UNCHANGED vars
  BY <1>1 DEF vars, rows, history
<1>2. CASE StartExpiry
  <2>1. /\ expiryJob' \in {"none", "warn", "expire", "delete"}
        /\ expiryJob' = "delete" => status = "expired"
        /\ expiryJob' = "expire" => left # Never
    BY <1>2 DEF StartExpiry, ExpiryDecision, DeletesExpired, Expires
  <2> QED BY <1>2, <2>1 DEF StartExpiry, rows, history
<1>3. CASE StartSuspension
  <2>1. /\ suspender' = [do |-> SuspensionDecision, idle |-> idle]
        /\ SuspensionDecision \in {"none", "warn", "suspend", "delete"}
        /\ SuspensionDecision = "delete" => status = "suspended"
    BY <1>3 DEF StartSuspension, SuspensionDecision, DeletesSuspended
  <2> QED BY <1>3, <2>1 DEF StartSuspension, rows, history
<1>4. CASE CommitExpiry
  <2>1. told' = told \cup ExpiryMail /\ ExpiryMail \subseteq Mails
    BY <1>4 DEF CommitExpiry, ExpiryMail, Mails
  <2>2. expiryJob = "expire" => "expired" \in told'
    BY <1>4 DEF CommitExpiry, ExpiryMail
  <2>3. /\ idle' \in 0..MaxIdle
        /\ status' \in Statuses
        /\ status' = "expired" => status = "expired" \/ expiryJob = "expire"
        /\ status' = "suspended" => status = "suspended"
    BY <1>4 DEF CommitExpiry, Statuses
  <2> QED BY <1>4, <2>1, <2>2, <2>3 DEF CommitExpiry
<1>5. CASE CommitSuspension
  <2>1. told' = told \cup SuspensionMail /\ SuspensionMail \subseteq Mails
    BY <1>5 DEF CommitSuspension, SuspensionMail, Mails
  <2>2. suspender.do = "suspend" => "suspended" \in told'
    BY <1>5 DEF CommitSuspension, SuspensionMail
  <2>3. /\ idle' \in 0..MaxIdle /\ since' \in 0..MaxIdle \cup {Never}
        /\ status' \in Statuses
        /\ status' = "suspended" => status = "suspended" \/ suspender.do = "suspend"
        /\ status' = "expired" => status = "expired"
    BY <1>5 DEF CommitSuspension, Statuses
  <2> QED BY <1>5, <2>1, <2>2, <2>3 DEF CommitSuspension, Off
<1>6. CASE FailExpiry
  <2>1. told \subseteq told' /\ told' \subseteq Mails
    BY <1>6 DEF FailExpiry, ExpiryMail, Mails
  <2>2. failures' \in 0..mode.failures
    BY <1>6, ModeAssumption DEF FailExpiry, Fails
  <2> QED BY <1>6, <2>1, <2>2 DEF FailExpiry, rows
<1>7. CASE FailSuspension
  <2>1. told \subseteq told' /\ told' \subseteq Mails
    BY <1>7 DEF FailSuspension, SuspensionMail, Mails
  <2>2. failures' \in 0..mode.failures
    BY <1>7, ModeAssumption DEF FailSuspension, Fails
  <2> QED BY <1>7, <2>1, <2>2 DEF FailSuspension, rows, Off
<1>8. CASE NewDay
  <2>1. idle' \in 0..MaxIdle /\ since' \in 0..MaxIdle \cup {Never}
    BY <1>8, LaterIsBounded DEF NewDay
  <2>2. left' \in Days \cup {Never} /\ (left' = Never <=> left = Never)
    BY <1>8 DEF NewDay, Days
  <2> QED BY <1>8, <2>1, <2>2 DEF NewDay, Off
<1>9. CASE Requests
  BY <1>9, RequestKeepsIInv
<1> QED BY <1>1, <1>2, <1>3, <1>4, <1>5, <1>6, <1>7, <1>8, <1>9 DEF Next, EndExpiry, EndSuspension

(* The types, and the date of an expired collaboration, for any thresholds.*)
THEOREM TypeCorrect == Spec => []TypeOK
<1>1. IInv => TypeOK
  BY DEF IInv
<1> QED BY <1>1, InitIInv, NextIInv, PTL DEF Spec

(* Only a commit ends the run of a job and deletes.                        *)
LEMMA JobDeletesAnnounced ==
  ASSUME IInv, [Next]_vars, JobDeletes, ~mode.overlap
  PROVE  told \cap {"expired", "suspended"} # {}
<1>1. CASE CommitExpiry
  BY <1>1 DEF CommitExpiry, JobDeletes, IInv, Announced
<1>2. CASE CommitSuspension
  BY <1>2 DEF CommitSuspension, JobDeletes, IInv, Announced
<1>3. ASSUME ~CommitExpiry, ~CommitSuspension PROVE FALSE
  BY <1>3 DEF JobDeletes, Next, vars, rows, history, EndExpiry, EndSuspension, StartExpiry,
              StartSuspension, FailExpiry, FailSuspension, NewDay, Requests, Unsuspend,
              Activate, Update, Login, PinLogin, RenameOrganisation, DeleteCollaboration,
              Used, Request
<1> QED BY <1>1, <1>2, <1>3

(* A job deletes no collaboration whose members got no mail of it in an    *)
(* earlier run, for any thresholds and any failures.                       *)
THEOREM JobsAnnounce == Spec => DeletionAnnounced
<1>1. IInv /\ [Next]_vars =>
        [JobDeletes /\ ~mode.overlap => told \cap {"expired", "suspended"} # {}]_vars
  BY JobDeletesAnnounced
<1> QED BY <1>1, InitIInv, NextIInv, PTL DEF Spec, DeletionAnnounced

-----------------------------------------------------------------------------
(* When both jobs run every day and no request falls in a run.             *)
Undisturbed == mode.punctual /\ ~mode.overlap

(* A suspension that no request has touched: the row counts the days from  *)
(* the inactivity that led to it, and a job that has left it there found   *)
(* that it was not due.                                                    *)
SuspendedInv ==
  /\ suspender.do = "suspend" => suspender.idle >= Inactivity
  /\ status = "suspended" /\ since # Never =>
       /\ idle >= Inactivity + since \/ idle = MaxIdle
       /\ since <= KeepSuspended + 1
       /\ suspender.do # "suspend"
       /\ suspender.do \in {"none", "warn"} => idle <= Inactivity + KeepSuspended
       /\ "suspension" \in ran => since = 0 \/ idle <= Inactivity + KeepSuspended
BoundInv == Undisturbed => SuspendedInv

LEMMA NextSuspended ==
  ASSUME IInv, IInv', BoundInv, [Next]_vars
  PROVE  BoundInv'
<1> SUFFICES ASSUME mode.punctual, ~mode.overlap PROVE SuspendedInv'
  <2>1. mode' = mode
    BY DEF Next, vars, StartExpiry, EndExpiry, CommitExpiry, FailExpiry, StartSuspension, EndSuspension,
           CommitSuspension, FailSuspension, NewDay, Requests, Unsuspend, Activate, Update, Login, PinLogin,
           RenameOrganisation, DeleteCollaboration, Used, Request
  <2> QED BY <2>1 DEF BoundInv, Undisturbed
<1>0. SuspendedInv
  BY DEF BoundInv, Undisturbed
<1>t. /\ idle \in 0..MaxIdle /\ since \in 0..MaxIdle \cup {Never} /\ suspender.idle \in 0..MaxIdle
      /\ Inactivity \in Nat /\ KeepSuspended \in Nat /\ MaxIdle \in Nat /\ Inactivity + KeepSuspended < MaxIdle
      /\ Never \notin Int /\ suspender.do \in {"off", "none", "warn", "suspend", "delete"}
  BY LifecycleAssumption, ThresholdAssumption DEF IInv, TypeOK
<1>1. CASE UNCHANGED vars
  BY <1>0, <1>1 DEF vars, rows, history, SuspendedInv
<1>2. CASE StartExpiry \/ FailExpiry
  BY <1>0, <1>2 DEF StartExpiry, FailExpiry, rows, history, SuspendedInv
<1>3. CASE CommitExpiry
  <2>1. /\ UNCHANGED <<suspender, since>> /\ ("suspension" \in ran' <=> "suspension" \in ran)
        /\ status' = "suspended" => status = "suspended" /\ idle' = idle
    BY <1>3 DEF CommitExpiry
  <2> QED BY <1>0, <2>1 DEF SuspendedInv
<1>4. CASE StartSuspension
  <2>1. /\ suspender'.do = SuspensionDecision /\ suspender'.idle = idle /\ "suspension" \notin ran
        /\ UNCHANGED <<status, idle, since, ran>>
    BY <1>4 DEF StartSuspension, rows, history
  <2>2. /\ SuspensionDecision = "suspend" => status = "active" /\ idle >= Inactivity
        /\ SuspensionDecision \in {"none", "warn"} /\ status = "suspended" => ~(idle > Inactivity + KeepSuspended)
    BY DEF SuspensionDecision, DeletesSuspended, Suspends
  <2> QED BY <1>0, <1>t, <2>1, <2>2 DEF SuspendedInv
<1>5. CASE FailSuspension
  BY <1>0, <1>5 DEF FailSuspension, Off, rows, SuspendedInv
<1>6. CASE CommitSuspension
  <2>1. suspender'.do = "off" /\ suspender.do # "off"
    BY <1>6 DEF CommitSuspension, Off
  <2>2. CASE suspender.do = "suspend"
    <3>1. idle' = suspender.idle /\ since' = 0
      BY <1>6, <2>2 DEF CommitSuspension
    <3> QED BY <1>0, <1>t, <2>1, <2>2, <3>1 DEF SuspendedInv
  <2>3. CASE suspender.do = "delete"
    BY <1>6, <2>1, <2>3 DEF CommitSuspension, SuspendedInv
  <2>4. CASE suspender.do \in {"none", "warn"}
    <3>1. UNCHANGED <<status, idle, since>>
      BY <1>6, <2>4 DEF CommitSuspension
    <3> QED BY <1>0, <2>1, <2>4, <3>1 DEF SuspendedInv
  <2> QED BY <1>t, <2>1, <2>2, <2>3, <2>4
<1>7. CASE NewDay
  <2>1. /\ UNCHANGED <<status, suspender>> /\ suspender.do = "off" /\ ran' = {} /\ "suspension" \in ran
        /\ idle' = Later(idle) /\ since' = IF since = Never THEN Never ELSE Later(since)
    BY <1>7 DEF NewDay, Off
  <2> SUFFICES ASSUME status = "suspended", since # Never
               PROVE  (idle' >= Inactivity + since' \/ idle' = MaxIdle) /\ since' <= KeepSuspended + 1
    BY <1>t, <2>1 DEF SuspendedInv
  <2>2. since' <= since + 1 /\ since \in 0..MaxIdle
    BY <1>t, <2>1 DEF Later
  <2>3. (idle < MaxIdle /\ idle' = idle + 1) \/ idle' = MaxIdle
    BY <1>t, <2>1 DEF Later
  <2>4. /\ idle >= Inactivity + since \/ idle = MaxIdle
        /\ since = 0 \/ idle <= Inactivity + KeepSuspended
    BY <1>0, <2>1 DEF SuspendedInv
  <2>5. since' \in Nat
    BY <1>t, <2>1, <2>2 DEF Later
  <2> QED BY <1>t, <2>2, <2>3, <2>4, <2>5
<1>8. CASE Requests
  <2>1. since' = Never /\ suspender' = suspender
    BY <1>8 DEF Requests, Unsuspend, Activate, Update, Login, PinLogin,
                RenameOrganisation, DeleteCollaboration, Used, Request
  <2> QED BY <1>0, <2>1 DEF SuspendedInv
<1> QED BY <1>1, <1>2, <1>3, <1>4, <1>5, <1>6, <1>7, <1>8 DEF Next, EndExpiry, EndSuspension

(* A suspended collaboration that nobody touches is deleted in time, for   *)
(* any thresholds, if both jobs run every day.                             *)
THEOREM SuspensionsEnd == Spec => []SuspensionBounded
<1>1. Init => BoundInv
  BY DEF Init, BoundInv, SuspendedInv, Off
<1>2. BoundInv => SuspensionBounded
  BY DEF BoundInv, Undisturbed, SuspendedInv, SuspensionBounded
<1> QED BY <1>1, <1>2, InitIInv, NextIInv, NextSuspended, PTL DEF Spec

-----------------------------------------------------------------------------
(* An active collaboration: the day of a warning is not left without it,   *)
(* and a job that is to warn of it, or to act, knows where it stands.      *)
ExpiryWarned == lead > WarnExpiry => "expiryWarning" \in told
DateInv ==
  /\ left # Never =>
       /\ lead # Never /\ left <= lead
       /\ left < WarnExpiry \/ (left = WarnExpiry /\ "expiry" \in ran) => ExpiryWarned
  /\ left = WarnExpiry => expiryJob \in {"off", "warn"}
  /\ expiryJob = "expire" => left # Never /\ left <= 0
IdleInv ==
  /\ idle + WarnInactive > Inactivity \/ (idle + WarnInactive = Inactivity /\ "suspension" \in ran)
       => "suspensionWarning" \in told
  /\ idle + WarnInactive = Inactivity => suspender.do \in {"off", "warn"}
  /\ suspender.do = "suspend" => idle >= Inactivity
WarnedInv == Undisturbed /\ status = "active" => DateInv /\ IdleInv

(* Numbers of the days that are compared.                                  *)
LEMMA Numbers ==
  ASSUME TypeOK
  PROVE  /\ idle \in Nat /\ WarnInactive \in Nat /\ Inactivity \in Nat /\ MaxIdle \in Nat /\ WarnExpiry \in Nat
         /\ Never \notin Int /\ (left # Never => left \in Int) /\ (lead # Never => lead \in Int)
         /\ 0 < WarnExpiry /\ 0 < WarnInactive /\ WarnInactive < Inactivity /\ Inactivity < MaxIdle
         /\ MinLeft \in Int /\ MinLeft <= 0
BY LifecycleAssumption, ThresholdAssumption DEF TypeOK, Days

LEMMA NextWarned ==
  ASSUME IInv, WarnedInv, [Next]_vars
  PROVE  WarnedInv'
<1> SUFFICES ASSUME mode.punctual, ~mode.overlap, status' = "active"  PROVE DateInv' /\ IdleInv'
  <2>1. mode' = mode
    BY DEF Next, vars, StartExpiry, EndExpiry, CommitExpiry, FailExpiry, StartSuspension, EndSuspension,
           CommitSuspension, FailSuspension, NewDay, Requests, Unsuspend, Activate, Update, Login, PinLogin,
           RenameOrganisation, DeleteCollaboration, Used, Request
  <2> QED BY <2>1 DEF WarnedInv, Undisturbed
<1>0. status = "active" => DateInv /\ IdleInv
  BY DEF WarnedInv, Undisturbed
<1>t. TypeOK
  BY DEF IInv
<1>1. CASE UNCHANGED vars
  BY <1>0, <1>1 DEF vars, rows, history, DateInv, IdleInv, ExpiryWarned
<1>2. CASE StartExpiry
  <2>1. /\ UNCHANGED <<status, left, idle, lead, told, ran, suspender>> /\ expiryJob' = ExpiryDecision
    BY <1>2 DEF StartExpiry, rows, history
  <2>2. status = "active" =>
          /\ left = WarnExpiry => ExpiryDecision = "warn"
          /\ ExpiryDecision = "expire" => left # Never /\ left <= 0
    BY <1>t, Numbers DEF ExpiryDecision, DeletesExpired, WarnsOfExpiry, Expires
  <2> QED BY <1>0, <2>1, <2>2 DEF DateInv, IdleInv, ExpiryWarned
<1>3. CASE StartSuspension
  <2>1. /\ UNCHANGED <<status, left, idle, lead, told, ran, expiryJob>> /\ suspender'.do = SuspensionDecision
    BY <1>3 DEF StartSuspension, rows, history
  <2>2. status = "active" =>
          /\ idle + WarnInactive = Inactivity => SuspensionDecision = "warn"
          /\ SuspensionDecision = "suspend" => idle >= Inactivity
    BY <1>t, Numbers DEF SuspensionDecision, DeletesSuspended, WarnsOfSuspension, Suspends
  <2> QED BY <1>0, <2>1, <2>2 DEF DateInv, IdleInv, ExpiryWarned
<1>4. CASE CommitExpiry
  <2>1. /\ status = "active" /\ UNCHANGED <<left, idle, lead, suspender>> /\ expiryJob' = "off"
        /\ told' = told \cup ExpiryMail /\ ran' = ran \cup {"expiry"} /\ expiryJob # "off"
    BY <1>4 DEF CommitExpiry
  <2>2. left = WarnExpiry => "expiryWarning" \in told'
    BY <1>0, <2>1 DEF DateInv, ExpiryMail
  <2>3. DateInv'
    BY <1>0, <2>1, <2>2 DEF DateInv, ExpiryWarned
  <2> QED BY <1>0, <2>1, <2>3 DEF IdleInv
<1>5. CASE CommitSuspension
  <2>1. /\ status = "active" /\ UNCHANGED <<left, idle, lead, expiryJob>> /\ suspender'.do = "off"
        /\ told' = told \cup SuspensionMail /\ ran' = ran \cup {"suspension"} /\ suspender.do # "off"
    BY <1>5 DEF CommitSuspension, Off
  <2>2. idle + WarnInactive = Inactivity => "suspensionWarning" \in told'
    BY <1>0, <2>1 DEF IdleInv, SuspensionMail
  <2>3. IdleInv'
    BY <1>0, <2>1, <2>2 DEF IdleInv
  <2> QED BY <1>0, <2>1, <2>3 DEF DateInv, ExpiryWarned
<1>6. CASE FailExpiry \/ FailSuspension
  <2>1. /\ UNCHANGED <<status, left, idle, lead, ran>> /\ told \subseteq told'
        /\ expiryJob' \in {expiryJob, "off"} /\ suspender'.do \in {suspender.do, "off"}
    BY <1>6 DEF FailExpiry, FailSuspension, Off, rows
  <2> QED BY <1>0, <2>1 DEF DateInv, IdleInv, ExpiryWarned
<1>7. CASE NewDay
  <2>1. /\ UNCHANGED <<status, lead, told, expiryJob, suspender>> /\ expiryJob = "off" /\ suspender.do = "off"
        /\ "expiry" \in ran /\ "suspension" \in ran /\ ran' = {}
        /\ left' = IF left # Never /\ left > MinLeft THEN left - 1 ELSE left
        /\ idle' = Later(idle)
    BY <1>7 DEF NewDay, Off
  <2>2. DateInv'
    <3>1. CASE left = Never
      BY <1>t, <2>1, <3>1, Numbers DEF DateInv
    <3>2. CASE left # Never
      <4>1. /\ left \in Int /\ lead \in Int /\ left <= lead /\ lead # Never
            /\ left <= WarnExpiry => ExpiryWarned
        BY <1>0, <1>t, <2>1, <3>2, Numbers DEF DateInv
      <4>2. left' \in Int /\ left' <= left /\ (left' < left => left' = left - 1) /\ left' # Never
        BY <1>t, <2>1, <4>1, Numbers
      <4>3. left' < WarnExpiry => left <= WarnExpiry
        BY <1>t, <4>1, <4>2, Numbers
      <4>4. left' <= lead
        BY <4>1, <4>2
      <4> QED BY <2>1, <4>1, <4>2, <4>3, <4>4 DEF DateInv, ExpiryWarned
    <3> QED BY <3>1, <3>2
  <2>3. IdleInv'
    <3>1. idle' \in Nat /\ (idle' = idle + 1 \/ (idle' = idle /\ idle = MaxIdle))
      <4>1. idle \in Nat /\ MaxIdle \in Nat /\ idle <= MaxIdle
        BY <1>t, LifecycleAssumption DEF TypeOK
      <4>2. idle' = IF idle < MaxIdle THEN idle + 1 ELSE MaxIdle
        BY <2>1 DEF Later
      <4>3. CASE idle < MaxIdle
        BY <4>1, <4>2, <4>3
      <4>4. CASE idle = MaxIdle
        BY <4>1, <4>2, <4>4
      <4> QED BY <4>1, <4>3, <4>4
    <3>2. idle' + WarnInactive > Inactivity => idle + WarnInactive >= Inactivity
      BY <1>t, <3>1, Numbers
    <3>3. idle + WarnInactive >= Inactivity => "suspensionWarning" \in told
      BY <1>0, <1>t, <2>1, Numbers DEF IdleInv
    <3> QED BY <2>1, <3>2, <3>3 DEF IdleInv
  <2> QED BY <2>2, <2>3
<1>8. CASE Requests
  <2>1. expiryJob = "off" /\ suspender.do = "off" /\ expiryJob' = "off" /\ suspender'.do = "off" /\ ran' = ran
    BY <1>8 DEF Requests, Unsuspend, Activate, Update, Login, PinLogin, RenameOrganisation,
                DeleteCollaboration, Used, Request, Off
  <2>2. /\ idle' = 0
        /\ lead' = left' \/ (status = "active" /\ UNCHANGED <<left, lead, told>>)
    BY <1>8 DEF Requests, Unsuspend, Activate, Update, Login, PinLogin, RenameOrganisation,
                DeleteCollaboration, Used, MakeActive
  <2>3. IdleInv'
    BY <1>t, <2>1, <2>2, Numbers DEF IdleInv
  <2>4. DateInv'
    <3>1. CASE lead' = left'
      <4>1. left' # Never => left' \in Int
        BY NextIInv DEF IInv, TypeOK, Days
      <4> QED BY <1>t, <2>1, <3>1, <4>1, Numbers DEF DateInv, ExpiryWarned
    <3>2. CASE status = "active" /\ UNCHANGED <<left, lead, told>>
      BY <1>0, <2>1, <3>2 DEF DateInv, ExpiryWarned
    <3> QED BY <2>2, <3>1, <3>2
  <2> QED BY <2>3, <2>4
<1> QED BY <1>1, <1>2, <1>3, <1>4, <1>5, <1>6, <1>7, <1>8 DEF Next, EndExpiry, EndSuspension

(* A collaboration neither expires nor is suspended without the warning,   *)
(* for any thresholds, if both jobs run every day.                         *)
InTime ==
  mode.punctual /\ ~mode.overlap =>
    /\ JobExpires /\ lead # Never /\ lead > WarnExpiry => "expiryWarning" \in told
    /\ JobSuspends => "suspensionWarning" \in told
THEOREM WarningsComeInTime == Spec => WarnedInTime
<1>1. Init => WarnedInv
  <2> SUFFICES ASSUME Init  PROVE DateInv /\ IdleInv
    BY DEF WarnedInv
  <2>1. TypeOK
    BY InitIInv DEF IInv
  <2> QED BY <2>1, Numbers DEF Init, DateInv, IdleInv, ExpiryWarned, Off
<1>2. IInv /\ WarnedInv /\ [Next]_vars => [InTime]_vars
  <2> SUFFICES ASSUME IInv, WarnedInv, Next, mode.punctual, ~mode.overlap
               PROVE  InTime
    BY DEF InTime
  <2>1. ASSUME JobExpires, lead # Never, lead > WarnExpiry  PROVE "expiryWarning" \in told
    <3>1. CommitExpiry /\ expiryJob = "expire" /\ status = "active"
      BY <2>1 DEF JobExpires, Next, EndExpiry, EndSuspension, StartExpiry, CommitExpiry, FailExpiry,
                  StartSuspension, CommitSuspension, FailSuspension, NewDay, Requests, Unsuspend, Activate,
                  Update, Login, PinLogin, RenameOrganisation, DeleteCollaboration, Used, MakeActive, rows
    <3>2. left # Never /\ left <= 0 /\ (left < WarnExpiry => ExpiryWarned)
      BY <3>1 DEF WarnedInv, Undisturbed, DateInv
    <3> QED BY <2>1, <3>2, Numbers DEF IInv, ExpiryWarned
  <2>2. ASSUME JobSuspends  PROVE "suspensionWarning" \in told
    <3>1. CommitSuspension /\ suspender.do = "suspend" /\ status = "active"
      BY <2>2 DEF JobSuspends, Next, EndExpiry, EndSuspension, StartExpiry, CommitExpiry, FailExpiry,
                  StartSuspension, CommitSuspension, FailSuspension, NewDay, Requests, Unsuspend, Activate,
                  Update, Login, PinLogin, RenameOrganisation, DeleteCollaboration, Used, MakeActive, rows
    <3>2. idle >= Inactivity /\ (idle + WarnInactive > Inactivity => "suspensionWarning" \in told)
      BY <3>1 DEF WarnedInv, Undisturbed, IdleInv
    <3> QED BY <3>2, Numbers DEF IInv
  <2> QED BY <2>1, <2>2 DEF InTime
<1>3. WarnedInTime <=> [][InTime]_vars
  BY DEF WarnedInTime, InTime
<1> QED BY <1>1, <1>2, <1>3, InitIInv, NextIInv, NextWarned, PTL DEF Spec

-----------------------------------------------------------------------------
(* Users.  The first invariant: what the table of notifications holds, and *)
(* what the job read of it, went out as a mail.                            *)
Mailed ==
  \A u \in AllUsers : sent[u] \subseteq mailed[u] /\ seen.sent[u] \subseteq mailed[u]

UserInv == UserTypeOK /\ Mailed

LEMMA NewAreNotifications ==
  ASSUME NEW r, NEW u
  PROVE  NewNotifications(r, u) \subseteq Notifications
BY DEF NewNotifications, Notifications

(* The day a mail promises is a number of days.                            *)
LEMMA PromiseIsDays ==
  ASSUME UserTypeOK, NEW u \in AllUsers
  PROVE  Promise(seen, u) \in Nat
<1>1. promised[u] \in Nat /\ seen.idle[u] \in Nat
  BY RetentionAssumption DEF UserTypeOK, Rows
<1>2. DeletionDays(LastMail(seen, u)) \in Nat
  BY RetentionAssumption DEF DeletionDays, LastMail
<1> QED BY <1>1, <1>2 DEF Promise

LEMMA NoRowsIsRows == NoRows \in Rows /\ \A u \in AllUsers : NoRows.sent[u] = {}
BY RetentionAssumption DEF NoRows, Rows, UserStatuses

LEMMA InitUserInv == UserInit => UserInv
<1> SUFFICES ASSUME UserInit PROVE UserInv
  OBVIOUS
<1>1. [status |-> userStatus, idle |-> userIdle, sent |-> sent] \in Rows
  BY RetentionAssumption DEF UserInit, Rows, UserStatuses
<1>2. seen \in Rows /\ \A u \in AllUsers : seen.sent[u] = {} /\ sent[u] = {}
  BY NoRowsIsRows DEF UserInit
<1>3. running \in BOOLEAN /\ userRan \in BOOLEAN
  BY DEF UserInit
<1>5. userMode \in UserModes /\ userFailures \in 0..userMode.failures
  BY UserModeAssumption DEF UserInit
<1>4. mailed \in [AllUsers -> SUBSET Notifications] /\ promised \in [AllUsers -> Nat]
  BY DEF UserInit
<1> QED BY <1>1, <1>2, <1>3, <1>4, <1>5 DEF UserInv, UserTypeOK, Mailed

(* One case per action.                                                    *)
LEMMA NextUserInv == UserInv /\ [UserNext]_userVars => UserInv'
<1> SUFFICES ASSUME UserInv, [UserNext]_userVars PROVE UserInv'
  OBVIOUS
<1> USE RetentionAssumption DEF UserInv, Mailed
<1>1. CASE UNCHANGED userVars
  BY <1>1 DEF userVars, UserTypeOK, Rows
<1>2. CASE StartJob
  BY <1>2 DEF StartJob, UserTypeOK, Rows
<1>3. CASE CommitJob
  <2>1. /\ userStatus' \in [AllUsers -> UserStatuses] /\ userIdle' \in [AllUsers -> 0..MaxUserIdle]
        /\ sent' \in [AllUsers -> SUBSET Notifications]
    BY <1>3, NewAreNotifications DEF CommitJob, UserTypeOK, Rows, UserStatuses
  <2>2. \A u \in AllUsers : userStatus'[u] = "deleted" => sent'[u] = {}
    <3> SUFFICES ASSUME NEW u \in AllUsers, userStatus'[u] = "deleted", ~Deletes(seen, u)
                 PROVE  sent'[u] = {}
      BY <1>3 DEF CommitJob
    <3>1. userStatus[u] = "deleted" /\ ~SuspendsUser(seen, u)
      BY <1>3 DEF CommitJob
    <3>2. NewNotifications(seen, u) = {}
      BY <1>3, <3>1 DEF CommitJob, Touched
    <3> QED BY <1>3, <3>1, <3>2 DEF CommitJob, UserTypeOK
  <2>3. /\ mailed' \in [AllUsers -> SUBSET Notifications]
        /\ \A u \in AllUsers : mailed'[u] = mailed[u] \cup NewNotifications(seen, u)
    BY <1>3, NewAreNotifications DEF CommitJob, Mail, UserTypeOK
  <2>4. promised' \in [AllUsers -> Nat]
    BY <1>3, PromiseIsDays DEF CommitJob
  <2>5. seen' = NoRows /\ running' = FALSE /\ userRan' = TRUE /\ UNCHANGED <<userMode, userFailures>>
    BY <1>3 DEF CommitJob, EndJob
  <2>6. Mailed'
    BY <1>3, <2>3, <2>5, NoRowsIsRows DEF CommitJob
  <2> QED BY <2>1, <2>2, <2>3, <2>4, <2>5, <2>6, NoRowsIsRows DEF UserTypeOK, Rows
<1>4. CASE FailJob
  <2>1. PICK S \in SUBSET Touched(seen) :
          /\ Mail(S)
          /\ promised' = [u \in AllUsers |-> IF u \in S THEN Promise(seen, u) ELSE promised[u]]
    BY <1>4 DEF FailJob
  <2>2. /\ mailed' \in [AllUsers -> SUBSET Notifications]
        /\ \A u \in AllUsers : mailed[u] \subseteq mailed'[u]
    BY <2>1, NewAreNotifications DEF Mail, UserTypeOK
  <2>3. promised' \in [AllUsers -> Nat]
    BY <2>1, PromiseIsDays DEF UserTypeOK
  <2>4. /\ seen' = NoRows /\ running' = FALSE /\ userFailures' \in 0..userMode.failures
        /\ UNCHANGED <<userMode, userStatus, userIdle, sent, userRan>>
    BY <1>4, UserModeAssumption DEF FailJob, EndJob, UserTypeOK
  <2> QED BY <2>2, <2>3, <2>4, NoRowsIsRows DEF UserTypeOK, Rows
<1>5. CASE NewUserDay
  <2>1. userIdle' \in [AllUsers -> 0..MaxUserIdle]
    BY <1>5 DEF NewUserDay, UserTypeOK, Rows
  <2> QED BY <1>5, <2>1 DEF NewUserDay, UserTypeOK, Rows
<1>6. ASSUME NEW u \in AllUsers, UserStep(u) PROVE UserInv'
  <2>1. /\ UNCHANGED <<userMode, running, seen, userRan, mailed, userFailures>>
    BY <1>6 DEF UserStep, UserLogin, Me, ServiceLogin, ActivateUser, TooManyGuesses,
                DeleteAccount, UserRequest
  <2>2. /\ userIdle' \in [AllUsers -> 0..MaxUserIdle] /\ promised' \in [AllUsers -> Nat]
    BY <1>6 DEF UserStep, UserLogin, Me, ServiceLogin, ActivateUser, TooManyGuesses,
                DeleteAccount, Reset, UserTypeOK, Rows
  <2>3. /\ userStatus' \in [AllUsers -> UserStatuses] /\ sent' \in [AllUsers -> SUBSET Notifications]
    BY <1>6 DEF UserStep, UserLogin, Me, ServiceLogin, ActivateUser, TooManyGuesses,
                DeleteAccount, UserTypeOK, Rows, UserStatuses
  <2>4. \A v \in AllUsers : /\ sent'[v] \subseteq sent[v]
                            /\ userStatus'[v] = "deleted" => sent'[v] = {}
    BY <1>6 DEF UserStep, UserLogin, Me, ServiceLogin, ActivateUser, TooManyGuesses,
                DeleteAccount, UserTypeOK, Rows
  <2> QED BY <2>1, <2>2, <2>3, <2>4 DEF UserTypeOK, Rows
<1> QED BY <1>1, <1>2, <1>3, <1>4, <1>5, <1>6 DEF UserNext

(* The types of every variable, for any users and periods.                 *)
THEOREM UserTypeCorrect == UserSpec => []UserTypeOK
<1>1. UserInv => UserTypeOK
  BY DEF UserInv
<1> QED BY <1>1, InitUserInv, NextUserInv, PTL DEF UserSpec

(* Only the commit of the job ends a run and changes the status of a user. *)
LEMMA CommitIsAnnounced ==
  ASSUME UserInv, [UserNext]_userVars, NEW u \in AllUsers
  PROVE  /\ JobDeletesUsers(u) => "deletionWarning" \in mailed[u]
         /\ JobSuspendsUsers(u) => mailed[u] # {}
<1> SUFFICES ASSUME JobDeletesUsers(u) \/ JobSuspendsUsers(u)
             PROVE  /\ JobDeletesUsers(u) => "deletionWarning" \in mailed[u]
                    /\ JobSuspendsUsers(u) => mailed[u] # {}
  OBVIOUS
<1>1. running /\ ~running' /\ userStatus' # userStatus
  BY DEF JobDeletesUsers, JobSuspendsUsers
<1>2. CommitJob
  BY <1>1 DEF UserNext, userVars, StartJob, FailJob, NewUserDay, UserStep, UserLogin, Me, ServiceLogin,
              ActivateUser, TooManyGuesses, DeleteAccount, UserRequest
<1>3. seen.sent[u] \subseteq mailed[u]
  BY DEF UserInv, Mailed
<1>4. JobDeletesUsers(u) => Deletes(seen, u)
  BY <1>2 DEF CommitJob, JobDeletesUsers
<1>5. JobSuspendsUsers(u) => SuspendsUser(seen, u)
  BY <1>2 DEF CommitJob, JobSuspendsUsers
<1> QED BY <1>3, <1>4, <1>5 DEF Deletes, SuspendsUser

(* The job deletes and suspends nobody who got no mail in an earlier run.  *)
THEOREM JobAnnounces == UserSpec => NothingUnannounced
<1>1. UserInv /\ [UserNext]_userVars =>
        [\A u \in AllUsers : /\ JobDeletesUsers(u) => "deletionWarning" \in mailed[u]
                             /\ JobSuspendsUsers(u) => mailed[u] # {}]_userVars
  BY CommitIsAnnounced
<1> QED BY <1>1, InitUserInv, NextUserInv, PTL DEF UserSpec, NothingUnannounced

-----------------------------------------------------------------------------
(* When the job runs every day and no request falls in a run.  Then what   *)
(* it read is what is stored, each user is warned, suspended and warned    *)
(* again on the first day that this is due, and the last mail names the    *)
(* day after which the job deletes.                                        *)
UndisturbedUser == userMode.punctual /\ ~userMode.overlap
UserBy(d) == IF userRan THEN d ELSE d + 1
Timely(u) ==
  /\ userStatus[u] = "active" =>
       /\ sent[u] = {} => userIdle[u] + ReminderSuspend <= UserBy(AllowedInactive)
       /\ sent[u] # {} => userIdle[u] <= UserBy(AllowedInactive)
  /\ userStatus[u] = "suspended" /\ "deletionWarning" \notin sent[u] =>
       userIdle[u] + ReminderExpiry <= UserBy(RemoveSuspended)
  /\ "deletionWarning" \in sent[u] => userStatus[u] = "suspended" /\ promised[u] <= RemoveSuspended + 1
SeenInv == running => seen.status = userStatus /\ seen.idle = userIdle /\ seen.sent = sent
DatesInv == UndisturbedUser => SeenInv /\ \A u \in AllUsers : Timely(u)

LEMMA UserNumbers ==
  ASSUME UserTypeOK, NEW u \in AllUsers
  PROVE  /\ userIdle[u] \in Nat /\ promised[u] \in Nat /\ AllowedInactive \in Nat /\ ReminderSuspend \in Nat
         /\ ReminderExpiry \in Nat /\ RemoveSuspended \in Nat /\ 0 < ReminderSuspend
         /\ ReminderSuspend < AllowedInactive /\ AllowedInactive + ReminderExpiry < RemoveSuspended
         /\ userStatus[u] \in UserStatuses /\ MaxUserIdle \in Nat
BY RetentionAssumption, PeriodsAssumption DEF UserTypeOK, Rows

LEMMA NextDates ==
  ASSUME UserInv, UserInv', DatesInv, [UserNext]_userVars
  PROVE  DatesInv'
<1> SUFFICES ASSUME userMode.punctual, ~userMode.overlap  PROVE SeenInv' /\ \A u \in AllUsers : Timely(u)'
  <2>1. userMode' = userMode
    BY DEF UserNext, userVars, StartJob, CommitJob, FailJob, NewUserDay, UserStep, UserLogin, Me, ServiceLogin, ActivateUser,
           TooManyGuesses, DeleteAccount, UserRequest
  <2> QED BY <2>1 DEF DatesInv, UndisturbedUser
<1>0. SeenInv /\ \A u \in AllUsers : Timely(u)
  BY DEF DatesInv, UndisturbedUser
<1>t. UserTypeOK /\ UserTypeOK'
  BY DEF UserInv
<1>1. CASE UNCHANGED userVars
  BY <1>0, <1>1 DEF userVars, SeenInv, Timely, UserBy
<1>2. CASE StartJob
  BY <1>0, <1>2 DEF StartJob, SeenInv, Timely, UserBy
<1>3. CASE CommitJob
  <2>1. running /\ ~running' /\ userRan' = TRUE /\ UNCHANGED userIdle
    BY <1>3 DEF CommitJob, EndJob
  <2>2. seen.status = userStatus /\ seen.idle = userIdle /\ seen.sent = sent
    BY <1>0, <2>1 DEF SeenInv
  <2> SUFFICES ASSUME NEW u \in AllUsers  PROVE Timely(u)'
    BY <2>1 DEF SeenInv
  <2>3. /\ userStatus'[u] = IF Deletes(seen, u) THEN "deleted" ELSE IF SuspendsUser(seen, u) THEN "suspended" ELSE userStatus[u]
        /\ sent'[u] = IF Deletes(seen, u) THEN {} ELSE sent[u] \cup NewNotifications(seen, u)
        /\ promised'[u] = Promise(seen, u)
    BY <1>3 DEF CommitJob
  <2>4. Timely(u)
    BY <1>0
  <2>5. CASE Deletes(seen, u)
    BY <2>3, <2>5 DEF Timely
  <2>6. CASE SuspendsUser(seen, u)
    <3>1. userStatus[u] = "active" /\ sent[u] # {}
      BY <2>2, <2>6 DEF SuspendsUser
    <3>2. userIdle[u] <= AllowedInactive + 1 /\ "deletionWarning" \notin sent[u]
      BY <2>4, <3>1, UserNumbers, <1>t DEF Timely, UserBy
    <3>3. ~WarnsDeletion(seen, u) /\ ~Deletes(seen, u) /\ ~Warns(seen, u)
      BY <1>t, <2>2, <3>1, <3>2, UserNumbers DEF WarnsDeletion, Deletes, Warns
    <3>4. userStatus'[u] = "suspended" /\ sent'[u] = sent[u] \cup {"suspended"}
      BY <2>3, <2>6, <3>3 DEF NewNotifications
    <3>5. userIdle'[u] + ReminderExpiry <= RemoveSuspended
      BY <1>t, <2>1, <3>2, UserNumbers
    <3> QED BY <2>1, <3>2, <3>4, <3>5 DEF Timely, UserBy
  <2>7. CASE ~Deletes(seen, u) /\ ~SuspendsUser(seen, u) /\ userStatus[u] = "active"
    <3>1. ~WarnsDeletion(seen, u) /\ "deletionWarning" \notin sent[u]
      BY <2>2, <2>4, <2>7 DEF WarnsDeletion, Suspended, Timely
    <3>2. userStatus'[u] = "active" /\ sent'[u] = sent[u] \cup IF Warns(seen, u) THEN {"suspendWarning"} ELSE {}
      BY <2>3, <2>7, <3>1 DEF NewNotifications
    <3>3. CASE sent[u] # {}
      <4>1. ~(userIdle[u] > AllowedInactive) /\ sent'[u] # {} /\ "deletionWarning" \notin sent'[u]
        BY <2>2, <2>7, <3>1, <3>2, <3>3 DEF SuspendsUser
      <4> QED BY <1>t, <2>1, <3>2, <4>1, UserNumbers DEF Timely, UserBy
    <3>4. CASE sent[u] = {} /\ Warns(seen, u)
      <4>1. sent'[u] = {"suspendWarning"} /\ userIdle[u] <= AllowedInactive
        <5>1. userIdle[u] + ReminderSuspend <= AllowedInactive + 1
          BY <1>t, <2>4, <2>7, <3>4, UserNumbers DEF Timely, UserBy
        <5> QED BY <1>t, <3>2, <3>4, <5>1, UserNumbers
      <4> QED BY <2>1, <3>2, <4>1 DEF Timely, UserBy
    <3>5. CASE sent[u] = {} /\ ~Warns(seen, u)
      <4>1. sent'[u] = {} /\ ~(userIdle[u] + ReminderSuspend > AllowedInactive)
        BY <2>2, <2>7, <3>2, <3>5 DEF Warns
      <4>2. userIdle[u] + ReminderSuspend <= AllowedInactive
        BY <1>t, <4>1, UserNumbers
      <4> QED BY <2>1, <3>2, <4>1, <4>2 DEF Timely, UserBy
    <3> QED BY <3>3, <3>4, <3>5
  <2>8. CASE ~Deletes(seen, u) /\ ~SuspendsUser(seen, u) /\ userStatus[u] = "suspended"
    <3>1. userStatus'[u] = "suspended" /\ sent'[u] = sent[u] \cup NewNotifications(seen, u) /\ ~Warns(seen, u)
      BY <2>2, <2>3, <2>8 DEF Warns
    <3>2. CASE "deletionWarning" \in sent[u]
      <4>1. NewNotifications(seen, u) = {}
        BY <2>2, <2>8, <3>2 DEF NewNotifications, Warns, WarnsDeletion
      <4>2. promised'[u] = promised[u]
        BY <2>3, <4>1 DEF Promise
      <4> QED BY <2>1, <2>4, <3>1, <3>2, <4>2 DEF Timely
    <3>3. CASE "deletionWarning" \notin sent[u] /\ WarnsDeletion(seen, u)
      <4>1. userIdle[u] + ReminderExpiry <= RemoveSuspended + 1
        BY <1>t, <2>4, <2>8, <3>3, UserNumbers DEF Timely, UserBy
      <4>2. Promise(seen, u) = userIdle[u] + ReminderExpiry
        <5>1. NewNotifications(seen, u) # {}
          BY <3>3 DEF NewNotifications
        <5>2. DeletionDays(LastMail(seen, u)) = ReminderExpiry
          BY <3>3 DEF LastMail, DeletionDays
        <5> QED BY <1>t, <2>2, <5>1, <5>2, UserNumbers DEF Promise
      <4>3. "deletionWarning" \in sent'[u]
        BY <3>1, <3>3 DEF NewNotifications
      <4> QED BY <2>1, <2>3, <3>1, <4>1, <4>2, <4>3 DEF Timely
    <3>4. CASE "deletionWarning" \notin sent[u] /\ ~WarnsDeletion(seen, u)
      <4>1. NewNotifications(seen, u) = {} /\ ~(userIdle[u] + ReminderExpiry > RemoveSuspended)
        BY <2>2, <2>8, <3>1, <3>4 DEF NewNotifications, WarnsDeletion, Suspended
      <4>2. userIdle[u] + ReminderExpiry <= RemoveSuspended /\ sent'[u] = sent[u]
        BY <1>t, <3>1, <4>1, UserNumbers
      <4> QED BY <2>1, <3>1, <3>4, <4>2 DEF Timely, UserBy
    <3> QED BY <3>2, <3>3, <3>4
  <2>9. CASE ~Deletes(seen, u) /\ ~SuspendsUser(seen, u) /\ userStatus[u] = "deleted"
    <3>1. userStatus'[u] = "deleted" /\ sent'[u] = {}
      BY <1>t, <2>3, <2>9 DEF UserTypeOK
    <3> QED BY <3>1 DEF Timely
  <2> QED BY <1>t, <2>5, <2>6, <2>7, <2>8, <2>9, UserNumbers DEF UserStatuses
<1>4. CASE FailJob
  <2>1. PICK S \in SUBSET Touched(seen) :
          promised' = [u \in AllUsers |-> IF u \in S THEN Promise(seen, u) ELSE promised[u]]
    BY <1>4 DEF FailJob
  <2>2. running /\ ~running' /\ UNCHANGED <<userStatus, userIdle, sent, userRan>>
    BY <1>4 DEF FailJob, EndJob
  <2>3. seen.status = userStatus /\ seen.idle = userIdle /\ seen.sent = sent
    BY <1>0, <2>2 DEF SeenInv
  <2> SUFFICES ASSUME NEW u \in AllUsers  PROVE Timely(u)'
    BY <2>2 DEF SeenInv
  <2>4. ASSUME "deletionWarning" \in sent[u]  PROVE promised'[u] = promised[u]
    <3>1. userStatus[u] = "suspended"
      BY <1>0, <2>4 DEF Timely
    <3>2. NewNotifications(seen, u) = {}
      BY <2>3, <2>4, <3>1 DEF NewNotifications, Warns, SuspendsUser, WarnsDeletion
    <3> QED BY <2>1, <3>2 DEF Promise
  <2> QED BY <1>0, <2>2, <2>4 DEF Timely, UserBy
<1>5. CASE NewUserDay
  <2>1. /\ UNCHANGED <<userStatus, sent, running, seen, promised>> /\ userRan /\ ~userRan' /\ ~running
        /\ userIdle' = [u \in AllUsers |-> IF userIdle[u] < MaxUserIdle THEN userIdle[u] + 1 ELSE MaxUserIdle]
    BY <1>5 DEF NewUserDay
  <2> SUFFICES ASSUME NEW u \in AllUsers  PROVE Timely(u)'
    BY <2>1 DEF SeenInv
  <2>2. userIdle'[u] <= userIdle[u] + 1 /\ userIdle'[u] \in Nat
    <3>1. userIdle[u] \in Nat /\ MaxUserIdle \in Nat /\ userIdle[u] <= MaxUserIdle
      BY <1>t, RetentionAssumption DEF UserTypeOK, Rows
    <3>2. userIdle'[u] = IF userIdle[u] < MaxUserIdle THEN userIdle[u] + 1 ELSE MaxUserIdle
      BY <2>1
    <3> QED BY <3>1, <3>2
  <2> QED BY <1>0, <1>t, <2>1, <2>2, UserNumbers DEF Timely, UserBy
<1>6. ASSUME NEW u \in AllUsers, UserStep(u)  PROVE SeenInv' /\ \A v \in AllUsers : Timely(v)'
  <2>1. ~running /\ ~running' /\ userRan' = userRan
    BY <1>6 DEF UserStep, UserLogin, Me, ServiceLogin, ActivateUser, TooManyGuesses, DeleteAccount, UserRequest
  <2>2. \A v \in AllUsers : v # u => /\ userStatus'[v] = userStatus[v] /\ userIdle'[v] = userIdle[v] /\ sent'[v] = sent[v]
                                     /\ promised'[v] = promised[v]
    BY <1>6, <1>t DEF UserStep, UserLogin, Me, ServiceLogin, ActivateUser, TooManyGuesses, DeleteAccount, Reset,
                      UserTypeOK, Rows
  <2>3. ASSUME NEW v \in AllUsers, v # u  PROVE Timely(v)'
    BY <1>0, <2>1, <2>2, <2>3 DEF Timely, UserBy
  <2>4. Timely(u)'
    <3>1. CASE UserLogin(u)
      <4>1. userStatus'[u] = userStatus[u] /\ sent'[u] = sent[u] /\ userIdle'[u] = 0 /\ promised'[u] = 0
        BY <1>t, <3>1 DEF UserLogin, Reset, UserTypeOK, Rows
      <4> QED BY <1>0, <1>t, <2>1, <4>1, UserNumbers DEF Timely, UserBy
    <3>2. CASE Me(u)
      <4>1. userStatus[u] = "active" /\ userStatus'[u] = "active" /\ sent'[u] = {} /\ userIdle'[u] = userIdle[u] /\ userIdle[u] <= 1
        BY <1>t, <3>2 DEF Me, UserTypeOK, Rows
      <4>2. userIdle[u] + ReminderSuspend <= AllowedInactive
        BY <1>t, <4>1, UserNumbers
      <4> QED BY <1>t, <2>1, <4>1, <4>2, UserNumbers DEF Timely, UserBy
    <3>3. CASE ServiceLogin(u) \/ ActivateUser(u)
      <4>1. userStatus'[u] \in {"active", "suspended"} /\ sent'[u] = {} /\ userIdle'[u] = 0
        BY <1>t, <3>3 DEF ServiceLogin, ActivateUser, Reset, UserTypeOK, Rows
      <4> QED BY <1>t, <2>1, <4>1, UserNumbers DEF Timely, UserBy
    <3>4. CASE TooManyGuesses(u)
      <4>1. /\ userStatus[u] \in {"active", "suspended"} /\ userStatus'[u] = "suspended"
            /\ UNCHANGED <<userIdle, sent, promised>>
        BY <1>t, <3>4, UserNumbers DEF TooManyGuesses, UserTypeOK, Rows, UserStatuses
      <4>2. CASE userStatus[u] = "suspended"
        BY <1>0, <2>1, <4>1, <4>2 DEF Timely, UserBy
      <4>3. CASE userStatus[u] = "active"
        <5>1. "deletionWarning" \notin sent[u] /\ userIdle[u] <= AllowedInactive + 1
          <6>1. userIdle[u] <= AllowedInactive \/ userIdle[u] <= AllowedInactive + 1
                \/ userIdle[u] + ReminderSuspend <= AllowedInactive \/ userIdle[u] + ReminderSuspend <= AllowedInactive + 1
            BY <1>0, <4>3 DEF Timely, UserBy
          <6>2. "deletionWarning" \notin sent[u]
            BY <1>0, <4>3 DEF Timely
          <6> QED BY <1>t, <6>1, <6>2, UserNumbers
        <5>2. userRan => userIdle[u] <= AllowedInactive
          <6>1. userRan => userIdle[u] <= AllowedInactive \/ userIdle[u] + ReminderSuspend <= AllowedInactive
            BY <1>0, <4>3 DEF Timely, UserBy
          <6> QED BY <1>t, <6>1, UserNumbers
        <5>3. userIdle[u] + ReminderExpiry <= UserBy(RemoveSuspended)
          BY <1>t, <5>1, <5>2, UserNumbers DEF UserBy
        <5> QED BY <2>1, <4>1, <5>1, <5>3 DEF Timely, UserBy
      <4> QED BY <4>1, <4>2, <4>3
    <3>5. CASE DeleteAccount(u)
      <4>1. userStatus'[u] = "deleted" /\ sent'[u] = {}
        BY <1>t, <3>5 DEF DeleteAccount, UserTypeOK, Rows
      <4> QED BY <4>1 DEF Timely
    <3> QED BY <1>6, <3>1, <3>2, <3>3, <3>4, <3>5 DEF UserStep
  <2> QED BY <2>1, <2>3, <2>4 DEF SeenInv
<1> QED BY <1>1, <1>2, <1>3, <1>4, <1>5, <1>6 DEF UserNext

(* The job deletes nobody before the day that the last mail named, for any *)
(* users and periods, if it runs every day.                                *)
DateKept ==
  \A u \in AllUsers : JobDeletesUsers(u) /\ userMode.punctual /\ ~userMode.overlap => userIdle[u] >= promised[u]
THEOREM DatesAreKept == UserSpec => LastDateKept
<1>1. UserInit => DatesInv
  <2> SUFFICES ASSUME UserInit, NEW u \in AllUsers  PROVE SeenInv /\ Timely(u)
    BY DEF DatesInv, UserInit, SeenInv
  <2>1. UserTypeOK
    BY InitUserInv DEF UserInv
  <2>2. /\ ~running /\ ~userRan /\ userStatus[u] = "active" /\ sent[u] = {} /\ userIdle[u] = 0
    BY DEF UserInit
  <2> QED BY <2>1, <2>2, UserNumbers DEF SeenInv, Timely, UserBy
<1>2. UserInv /\ DatesInv /\ [UserNext]_userVars => [DateKept]_userVars
  <2> SUFFICES ASSUME UserInv, DatesInv, UserNext, NEW u \in AllUsers, JobDeletesUsers(u), userMode.punctual, ~userMode.overlap
               PROVE  userIdle[u] >= promised[u]
    BY DEF DateKept
  <2>1. CommitJob
    BY DEF JobDeletesUsers, UserNext, StartJob, FailJob, NewUserDay, UserStep, UserLogin, Me, ServiceLogin,
           ActivateUser, TooManyGuesses, DeleteAccount, UserRequest
  <2>2. seen.status = userStatus /\ seen.idle = userIdle /\ seen.sent = sent /\ Timely(u)
    BY DEF DatesInv, UndisturbedUser, SeenInv, JobDeletesUsers
  <2>3. Deletes(seen, u)
    BY <2>1 DEF CommitJob, JobDeletesUsers
  <2>4. "deletionWarning" \in sent[u] /\ userIdle[u] > RemoveSuspended
    BY <2>2, <2>3 DEF Deletes
  <2>5. promised[u] <= RemoveSuspended + 1
    BY <2>2, <2>4 DEF Timely
  <2> QED BY <2>4, <2>5, UserNumbers DEF UserInv
<1>3. LastDateKept <=> [][DateKept]_userVars
  BY DEF LastDateKept, DateKept
<1> QED BY <1>1, <1>2, <1>3, InitUserInv, NextUserInv, NextDates, PTL DEF UserSpec

-----------------------------------------------------------------------------
(***************************************************************************)
(* The inductive invariant behind SweepMirrors and SyncedSweepIsSilent.    *)
(* Ids are handed out once; and in a sweep that is not "other" each phase  *)
(* leaves what the next one relies on.                                     *)
(***************************************************************************)
UsedInv ==
  /\ RefsUsed(ru, rg)
  /\ RefsUsed(ru, lg)
  /\ \A i \in Ids : lu[i] # Unused => ru[i] # Unused
  /\ \A i \in Ids : lg[i] # Unused => rg[i] # Unused
  /\ \A u \in Users : ubx[u] # None => ru[ubx[u]] # Unused

(* The remote collection r is the listing l without the objects of S.      *)
Without(r, l, S) == \A i \in Ids : r[i] = IF i \in S THEN Gone ELSE l[i]

UbxIsListing == \A u \in Users : ubx[u] = LastWith(lu, u)

ListInv ==
  /\ pc \in {"listGroups", "listUsers"} => Unique(ru) /\ Unique(rg)
  /\ pc = "listUsers" => lg = rg

DelGroupsInv ==
  pc = "delGroups" =>
    /\ Unique(lu) /\ Unique(lg) /\ UbxIsListing
    /\ lu = ru
    /\ todo \subseteq UnknownGroups
    /\ Without(rg, lg, UnknownGroups \ todo)

DelUsersInv ==
  pc = "delUsers" =>
    /\ Unique(lu) /\ Unique(lg) /\ UbxIsListing
    /\ todo \subseteq UnknownUsers
    /\ Without(rg, lg, UnknownGroups)
    /\ Without(ru, lu, UnknownUsers \ todo)

(* remote_users_by_external_id is the inverse of the externalId on what    *)
(* the remote server holds; users outside U have the right attributes.     *)
UsersDone(U) ==
  /\ \A i \in Live(ru) : ru[i].ext \in ScimUsers(snap) /\ ubx[ru[i].ext] = i
  /\ \A u \in ScimUsers(snap) :
       ubx[u] # None => ubx[u] \in Live(ru) /\ ru[ubx[u]].ext = u
  /\ \A u \in ScimUsers(snap) \ U :
       ubx[u] # None /\ ru[ubx[u]].attr = snap.uattr[u]
  /\ \A u \in U : ubx[u] # None => lu[ubx[u]] = ru[ubx[u]]
  /\ \A i \in Live(lu) :
       lu[i].ext \in ScimUsers(snap) => i \in Live(ru) /\ ru[i].ext = lu[i].ext
  /\ \A j \in Live(lg) : lg[j].members \cap Live(ru) \subseteq Live(lu)

UsersInv ==
  pc = "users" =>
    /\ Unique(lg)
    /\ todo \subseteq ScimUsers(snap)
    /\ Without(rg, lg, UnknownGroups)
    /\ UsersDone(todo)

(* Groups still to visit are as listed, the others are as they should be.  *)
GroupsInv ==
  pc = "groups" =>
    /\ Unique(lg) /\ Unique(rg)
    /\ todo \subseteq snap.groups
    /\ UsersDone({})
    /\ \A i \in Live(lg) : lg[i].ext \in todo => rg[i] = lg[i]
    /\ \A i \in Live(rg) :
         IF rg[i].ext \in todo THEN rg[i] = lg[i] ELSE GroupMirrors(snap, ru, rg[i])
    /\ \A g \in Groups \ todo : Wanted(snap, g) => \E i \in Live(rg) : rg[i].ext = g

DoneInv == pc = "done" => Mirrored(snap, ru, rg)

CleanInv == base # "other" =>
  ListInv /\ DelGroupsInv /\ DelUsersInv /\ UsersInv /\ GroupsInv /\ DoneInv

(* A sweep that began in sync has nothing to do in any phase.              *)
SyncedInv ==
  base = "mirrored" =>
    /\ ~wrote
    /\ Mirrored(snap, ru, rg)
    /\ pc \notin {"idle", "listGroups"} => lg = rg
    /\ pc \notin {"idle", "listGroups", "listUsers"} => lu = ru /\ UbxIsListing
    /\ pc \in {"delGroups", "delUsers"} => todo = {}
    /\ pc = "users" => todo \subseteq ScimUsers(snap)
    /\ pc = "groups" => todo \subseteq snap.groups

IdleSweepInv == pc = "idle" => base = "other" /\ ~wrote

SweepInv == SweepTypeOK /\ UsedInv /\ CleanInv /\ SyncedInv /\ IdleSweepInv

-----------------------------------------------------------------------------
(* Facts about listings.                                                   *)

(* The last object of an externalId is one of its objects; there is none   *)
(* exactly when no object carries the externalId.                          *)
LEMMA LastWithIs ==
  ASSUME NEW r, NEW x
  PROVE  /\ LastWith(r, x) \in With(r, x) \cup {None}
         /\ LastWith(r, x) = None <=> With(r, x) = {}
<1>1. With(r, x) \subseteq Ids
  BY DEF With, Live
<1>2. CASE With(r, x) = {}
  BY <1>1, <1>2 DEF LastWith
<1>3. CASE With(r, x) # {}
  <2>1. \E i \in With(r, x) : \A j \in With(r, x) : j <= i
    BY <1>1, <1>3, RemoteAssumption
  <2>2. LastWith(r, x) \in With(r, x)
    BY <1>3, <2>1 DEF LastWith
  <2> QED
    BY <1>1, <1>3, <2>2, RemoteAssumption
<1> QED
  BY <1>2, <1>3

(* Without duplicates it is the only one.                                  *)
LEMMA LastWithUnique ==
  ASSUME NEW r, Unique(r), NEW i \in Live(r)
  PROVE  LastWith(r, r[i].ext) = i
<1>1. i \in With(r, r[i].ext)
  BY DEF With
<1>2. LastWith(r, r[i].ext) \in With(r, r[i].ext)
  BY <1>1, LastWithIs
<1> QED
  BY <1>1, <1>2 DEF With, Unique

(* What POST, PUT and DELETE do to the set of live objects.                *)
LEMMA PostLive ==
  ASSUME NEW T, Unused \notin T, Gone \notin T,
         NEW r \in [Ids -> T \cup {Unused, Gone}], NEW i \in Ids, IsFresh(r, i), NEW obj \in T
  PROVE  /\ Post(r, i, obj) \in [Ids -> T \cup {Unused, Gone}]
         /\ Live(Post(r, i, obj)) = Live(r) \cup {i}
         /\ i \notin Live(r)
         /\ Post(r, i, obj)[i] = obj
         /\ \A j \in Ids \ {i} : Post(r, i, obj)[j] = r[j]
  BY DEF Post, IsFresh, Live

LEMMA PutLive ==
  ASSUME NEW T, Unused \notin T, Gone \notin T,
         NEW r \in [Ids -> T \cup {Unused, Gone}], NEW i \in Ids, NEW obj \in T
  PROVE  /\ Put(r, i, obj) \in [Ids -> T \cup {Unused, Gone}]
         /\ Live(Put(r, i, obj)) = Live(r)
         /\ i \in Live(r) => Put(r, i, obj)[i] = obj
         /\ \A j \in Ids \ {i} : Put(r, i, obj)[j] = r[j]
         /\ i \notin Live(r) => Put(r, i, obj) = r
  BY DEF Put, Live

LEMMA DeleteLive ==
  ASSUME NEW T, Unused \notin T, Gone \notin T,
         NEW r \in [Ids -> T \cup {Unused, Gone}], NEW i \in Ids
  PROVE  /\ Delete(r, i) \in [Ids -> T \cup {Unused, Gone}]
         /\ Live(Delete(r, i)) = Live(r) \ {i}
         /\ i \in Live(r) => Delete(r, i)[i] = Gone
         /\ i \notin Live(r) => Delete(r, i) = r
         /\ \A j \in Ids \ {i} : Delete(r, i)[j] = r[j]
  BY DEF Delete, Live

-----------------------------------------------------------------------------
(* Every reachable state has the types of TypeOK.                          *)
LEMMA EmptyTypes ==
  EmptyDb \in Database /\ NoObjects \in RemoteUsers /\ NoObjects \in RemoteGroups
<1>1. (CHOOSE a \in Attrs : TRUE) \in Attrs
  BY RemoteAssumption
<1> QED
  BY <1>1 DEF EmptyDb, Database, NoObjects, RemoteUsers, RemoteGroups

LEMMA UserTemplateType ==
  ASSUME SweepTypeOK, NEW u \in Users
  PROVE  UserTemplate(u) \in UserObject
  BY DEF SweepTypeOK, Database, UserTemplate, UserObject

LEMMA GroupTemplateType ==
  ASSUME SweepTypeOK, NEW g \in Groups
  PROVE  GroupTemplate(g) \in GroupObject
<1>1. Memberships(g) \in SUBSET (Ids \cup Users)
  BY DEF SweepTypeOK, Database, Memberships
<1> QED
  BY <1>1 DEF SweepTypeOK, Database, GroupTemplate, GroupObject

(* Objects are not the marks of an empty slot, and ids are not users.      *)
LEMMA Distinct ==
  /\ Unused \notin UserObject /\ Gone \notin UserObject
  /\ Unused \notin GroupObject /\ Gone \notin GroupObject
  /\ Unused # Gone /\ None \notin Ids /\ Ids \cap Users = {}
  BY RemoteAssumption

LEMMA Bounds ==
  MaxFailures \in Nat /\ MaxChanges \in Nat /\ DbStates \subseteq Database
  BY SweepAssumption

(* The types of every variable, for any groups, users and contents.        *)
THEOREM SweepTypeCorrect == SweepSpec => []SweepTypeOK
<1>1. SweepInit => SweepTypeOK
  <2> SUFFICES ASSUME SweepInit PROVE SweepTypeOK
    OBVIOUS
  <2>1. db \in Database /\ ru \in RemoteUsers /\ rg \in RemoteGroups
    BY SweepAssumption DEF SweepInit
  <2>2. pc \in Phases /\ base \in Base
    BY DEF SweepInit, Phases, Base
  <2>3. ubx \in [Users -> Ids \cup {None}] /\ todo = {} /\ wrote \in BOOLEAN
    BY DEF SweepInit
  <2>4. sweepFailures \in 0..MaxFailures /\ changes \in 0..MaxChanges
    BY Bounds DEF SweepInit
  <2>5. snap = EmptyDb /\ lu = NoObjects /\ lg = NoObjects
    BY DEF SweepInit
  <2> QED
    BY <2>1, <2>2, <2>3, <2>4, <2>5, EmptyTypes DEF SweepTypeOK
<1>2. SweepTypeOK /\ [SweepNext]_scimVars => SweepTypeOK'
  <2> SUFFICES ASSUME SweepTypeOK, [SweepNext]_scimVars PROVE SweepTypeOK'
    OBVIOUS
  <2>1. CASE StartSweep
    BY <2>1 DEF StartSweep, SweepTypeOK, Phases, Base, BaseOf
  <2>2. ASSUME NEW ok \in BOOLEAN, ListGroups(ok) PROVE SweepTypeOK'
    BY <2>2, EmptyTypes, Bounds DEF ListGroups, Answer, SweepTypeOK, Phases, Base
  <2>3. ASSUME NEW ok \in BOOLEAN, ListUsers(ok) PROVE SweepTypeOK'
    <3>1. lu' \in RemoteUsers
      BY <2>3, EmptyTypes DEF ListUsers, SweepTypeOK
    <3>2. ubx' \in [Users -> Ids \cup {None}]
      <4>1. \A u \in Users : LastWith(lu', u) \in Ids \cup {None}
        BY LastWithIs DEF With, Live
      <4> QED
        BY <2>3, <4>1, Bounds DEF ListUsers
    <3>3. todo' \subseteq Ids \cup Users \cup Groups
      BY <2>3 DEF ListUsers, UnknownGroups, Live
    <3> QED
      BY <2>3, <3>1, <3>2, <3>3, Bounds DEF ListUsers, Answer, SweepTypeOK, Phases, Base
  <2>4. ASSUME NEW i \in Ids, NEW ok \in BOOLEAN, DeleteGroup(i, ok) PROVE SweepTypeOK'
    <3>1. rg' \in RemoteGroups
      BY <2>4, Distinct, DeleteLive DEF DeleteGroup, SweepTypeOK, RemoteGroups
    <3> QED
      BY <2>4, <3>1, Bounds DEF DeleteGroup, Answer, SweepTypeOK, Base
  <2>5. ASSUME NEW i \in Ids, NEW ok \in BOOLEAN, DeleteUser(i, ok) PROVE SweepTypeOK'
    <3>1. ru' \in RemoteUsers
      BY <2>5, Distinct, DeleteLive DEF DeleteUser, SweepTypeOK, RemoteUsers
    <3> QED
      BY <2>5, <3>1, Bounds DEF DeleteUser, Answer, SweepTypeOK, Base
  <2>6. CASE EndDelGroups
    BY <2>6 DEF EndDelGroups, NextLoop, UnknownUsers, Live, SweepTypeOK, Phases
  <2>7. CASE EndDelUsers
    BY <2>7 DEF EndDelUsers, NextLoop, ScimUsers, SweepTypeOK, Phases, Database
  <2>8. CASE EndUsers
    BY <2>8 DEF EndUsers, NextLoop, SweepTypeOK, Phases, Database
  <2>9. CASE EndGroups
    BY <2>9 DEF EndGroups, NextLoop, SweepTypeOK, Phases
  <2>10. ASSUME NEW u \in Users, UserLoopStep(u) PROVE SweepTypeOK'
    <3>1. ASSUME NEW ok \in BOOLEAN, PostUser(u, ok) PROVE SweepTypeOK'
      <4>1. ru' \in RemoteUsers /\ ubx' \in [Users -> Ids \cup {None}]
        <5>1. CASE ok
          <6>1. PICK i \in Ids : /\ IsFresh(ru, i)
                                /\ ru' = Post(ru, i, UserTemplate(u))
                                /\ ubx' = [ubx EXCEPT ![u] = i]
            BY <3>1, <5>1 DEF PostUser
          <6>2. ru' \in RemoteUsers
            BY <6>1, Distinct, PostLive, UserTemplateType DEF SweepTypeOK, RemoteUsers
          <6> QED
            BY <6>1, <6>2 DEF SweepTypeOK
        <5> QED
          BY <3>1, <5>1 DEF PostUser, SweepTypeOK
      <4> QED
        BY <3>1, <4>1, Bounds DEF PostUser, Answer, SweepTypeOK, Base
    <3>2. ASSUME NEW ok \in BOOLEAN, PutUser(u, ok) PROVE SweepTypeOK'
      <4>1. ru' \in RemoteUsers
        BY <3>2, Distinct, PutLive, UserTemplateType DEF PutUser, SweepTypeOK, RemoteUsers
      <4> QED
        BY <3>2, <4>1, Bounds DEF PutUser, Answer, SweepTypeOK, Base
    <3>3. CASE KeepUser(u)
      BY <3>3 DEF KeepUser, SweepTypeOK
    <3> QED
      BY <2>10, <3>1, <3>2, <3>3 DEF UserLoopStep
  <2>11. ASSUME NEW g \in Groups, GroupStep(g) PROVE SweepTypeOK'
    <3> LastWith(lg, g) # None => LastWith(lg, g) \in Ids
      BY LastWithIs DEF With, Live
    <3>1. ASSUME NEW ok \in BOOLEAN, DropGroup(g, ok) PROVE SweepTypeOK'
      <4>1. rg' \in RemoteGroups
        BY <3>1, Distinct, DeleteLive DEF DropGroup, SweepTypeOK, RemoteGroups
      <4> QED
        BY <3>1, <4>1, Bounds DEF DropGroup, Answer, SweepTypeOK, Base
    <3>2. ASSUME NEW ok \in BOOLEAN, PostGroup(g, ok) PROVE SweepTypeOK'
      <4>1. rg' \in RemoteGroups
        BY <3>2, Distinct, PostLive, GroupTemplateType DEF PostGroup, SweepTypeOK, RemoteGroups
      <4> QED
        BY <3>2, <4>1, Bounds DEF PostGroup, Answer, SweepTypeOK, Base
    <3>3. ASSUME NEW ok \in BOOLEAN, PutGroup(g, ok) PROVE SweepTypeOK'
      <4>1. rg' \in RemoteGroups
        BY <3>3, Distinct, PutLive, GroupTemplateType DEF PutGroup, SweepTypeOK, RemoteGroups
      <4> QED
        BY <3>3, <4>1, Bounds DEF PutGroup, Answer, SweepTypeOK, Base
    <3>4. CASE KeepGroup(g)
      BY <3>4 DEF KeepGroup, SweepTypeOK
    <3> QED
      BY <2>11, <3>1, <3>2, <3>3, <3>4 DEF GroupStep
  <2>12. CASE Finish
    BY <2>12, EmptyTypes DEF Finish, Return, SweepTypeOK, Phases, Base
  <2>13. CASE Abort
    <3>1. sweepFailures' \in 0..MaxFailures
      BY <2>13, Bounds DEF Abort, SweepTypeOK
    <3> QED
      BY <2>13, <3>1, EmptyTypes DEF Abort, Return, SweepTypeOK, Phases, Base
  <2>14. CASE DbChange
    BY <2>14, Bounds DEF DbChange, sweepVars, SweepTypeOK
  <2>15. CASE UNCHANGED scimVars
    BY <2>15 DEF scimVars, sweepVars, SweepTypeOK
  <2> QED
    BY <2>1, <2>2, <2>3, <2>4, <2>5, <2>6, <2>7, <2>8, <2>9, <2>10, <2>11, <2>12,
       <2>13, <2>14, <2>15 DEF SweepNext, SweepStep
<1> QED
  BY <1>1, <1>2, PTL DEF SweepSpec

-----------------------------------------------------------------------------
(* Ids are handed out once.                                                *)
LEMMA RefsGrow ==
  ASSUME NEW users, NEW users2, NEW groups, RefsUsed(users, groups),
         \A j \in Ids : users[j] # Unused => users2[j] # Unused
  PROVE  RefsUsed(users2, groups)
  BY DEF RefsUsed

LEMMA NoObjectsUsed ==
  /\ \A i \in Ids : NoObjects[i] = Unused
  /\ Live(NoObjects) = {}
  /\ \A users : RefsUsed(users, NoObjects)
  BY DEF NoObjects, Live, RefsUsed

(* Writing a group whose members were handed out.                          *)
LEMMA RefsWrite ==
  ASSUME NEW users, NEW groups \in RemoteGroups, RefsUsed(users, groups),
         NEW groups2, NEW obj \in GroupObject, NEW i \in Ids,
         \A j \in obj.members \cap Ids : users[j] # Unused,
         groups2[i] = obj \/ groups2[i] = groups[i] \/ groups2[i] = Gone,
         \A j \in Ids \ {i} : groups2[j] = groups[j]
  PROVE  RefsUsed(users, groups2)
  BY DEF RefsUsed, Live

LEMMA MembershipsUsed ==
  ASSUME SweepTypeOK, UsedInv, NEW g \in Groups
  PROVE  \A j \in GroupTemplate(g).members \cap Ids : ru[j] # Unused
<1>1. GroupTemplate(g).members = Memberships(g)
  BY DEF GroupTemplate
<1>2. snap.member[g] \subseteq Users
  BY DEF SweepTypeOK, Database
<1> QED
  BY <1>1, <1>2, Distinct DEF Memberships, UsedInv

LEMMA UserWriteUsed ==
  ASSUME SweepTypeOK, UsedInv, \A j \in Ids : ru[j] # Unused => ru'[j] # Unused,
         UNCHANGED <<rg, lg, lu>>,
         \A u \in Users : ubx'[u] = ubx[u] \/ (ubx'[u] \in Ids /\ ru'[ubx'[u]] # Unused)
  PROVE  UsedInv'
<1>1. RefsUsed(ru', rg') /\ RefsUsed(ru', lg')
  BY RefsGrow DEF UsedInv
<1>2. \A u \in Users : ubx'[u] # None => ru'[ubx'[u]] # Unused
  BY DEF UsedInv, SweepTypeOK
<1> QED
  BY <1>1, <1>2 DEF UsedInv

LEMMA GroupWriteUsed ==
  ASSUME SweepTypeOK, UsedInv, UNCHANGED <<ru, lg, lu, ubx>>,
         NEW i \in Ids, NEW g \in Groups,
         \/ rg'[i] = GroupTemplate(g)
         \/ rg'[i] = rg[i]
         \/ rg'[i] = Gone,
         \A j \in Ids \ {i} : rg'[j] = rg[j]
  PROVE  UsedInv'
<1>1. GroupTemplate(g) \in GroupObject
  BY GroupTemplateType
<1>2. RefsUsed(ru, rg')
  BY <1>1, MembershipsUsed, RefsWrite DEF UsedInv, SweepTypeOK
<1>3. \A j \in Ids : lg[j] # Unused => rg'[j] # Unused
  BY <1>1, Distinct DEF UsedInv
<1> QED
  BY <1>2, <1>3 DEF UsedInv

LEMMA UsedStep ==
  ASSUME SweepTypeOK, UsedInv, [SweepNext]_scimVars
  PROVE  UsedInv'
<1>1. ASSUME UNCHANGED <<ru, rg, lg, lu, ubx>> PROVE UsedInv'
  BY <1>1 DEF UsedInv
<1>2. CASE StartSweep \/ EndDelGroups \/ EndDelUsers \/ EndUsers \/ EndGroups \/ DbChange
           \/ UNCHANGED scimVars
  BY <1>1, <1>2 DEF StartSweep, EndDelGroups, EndDelUsers, EndUsers, EndGroups,
                    NextLoop, DbChange, scimVars, sweepVars
<1>3. ASSUME NEW ok \in BOOLEAN, ListGroups(ok) PROVE UsedInv'
  BY <1>3, NoObjectsUsed DEF ListGroups, UsedInv
<1>4. ASSUME NEW ok \in BOOLEAN, ListUsers(ok) PROVE UsedInv'
  <2>1. UNCHANGED <<ru, rg, lg>>
    BY <1>4 DEF ListUsers
  <2>2. \A i \in Ids : lu'[i] # Unused => ru[i] # Unused
    BY <1>4, NoObjectsUsed DEF ListUsers
  <2>3. \A u \in Users : ubx'[u] # None => lu'[ubx'[u]] # Unused /\ ubx'[u] \in Ids
    BY <1>4, LastWithIs DEF ListUsers, With, Live
  <2> QED
    BY <2>1, <2>2, <2>3 DEF UsedInv
<1>5. ASSUME NEW i \in Ids, NEW ok \in BOOLEAN, DeleteGroup(i, ok) PROVE UsedInv'
  <2>1. \A j \in Ids : rg'[j] = rg[j] \/ rg'[j] = Gone
    BY <1>5 DEF DeleteGroup, Delete, SweepTypeOK, RemoteGroups
  <2>2. RefsUsed(ru, rg')
    BY <2>1 DEF UsedInv, RefsUsed, Live
  <2> QED
    BY <1>5, <2>1, <2>2, Distinct DEF DeleteGroup, UsedInv
<1>6. ASSUME NEW i \in Ids, NEW ok \in BOOLEAN, DeleteUser(i, ok) PROVE UsedInv'
  <2>1. \A j \in Ids : ru'[j] = ru[j] \/ ru'[j] = Gone
    BY <1>6 DEF DeleteUser, Delete, SweepTypeOK, RemoteUsers
  <2> QED
    BY <1>6, <2>1, Distinct, UserWriteUsed DEF DeleteUser
<1>7. ASSUME NEW u \in Users, UserLoopStep(u) PROVE UsedInv'
  <2> UserTemplate(u) \in UserObject
    BY UserTemplateType
  <2>1. ASSUME NEW ok \in BOOLEAN, PostUser(u, ok) PROVE UsedInv'
    <3>1. CASE ok
      <4>1. PICK i \in Ids : /\ IsFresh(ru, i)
                            /\ ru' = Post(ru, i, UserTemplate(u))
                            /\ ubx' = [ubx EXCEPT ![u] = i]
        BY <2>1, <3>1 DEF PostUser
      <4>2. ru'[i] # Unused /\ \A j \in Ids \ {i} : ru'[j] = ru[j]
        BY <4>1, Distinct, PostLive DEF SweepTypeOK, RemoteUsers
      <4>3. \A v \in Users : ubx'[v] = ubx[v] \/ ubx'[v] = i
        BY <4>1 DEF SweepTypeOK
      <4> QED
        BY <2>1, <4>2, <4>3, UserWriteUsed DEF PostUser
    <3> QED
      BY <1>1, <2>1, <3>1 DEF PostUser
  <2>2. ASSUME NEW ok \in BOOLEAN, PutUser(u, ok) PROVE UsedInv'
    <3>1. \A j \in Ids : ru[j] # Unused => ru'[j] # Unused
      BY <2>2, Distinct DEF PutUser, Put, SweepTypeOK, RemoteUsers
    <3> QED
      BY <2>2, <3>1, UserWriteUsed DEF PutUser
  <2>3. CASE KeepUser(u)
    BY <1>1, <2>3 DEF KeepUser
  <2> QED
    BY <1>7, <2>1, <2>2, <2>3 DEF UserLoopStep
<1>8. ASSUME NEW g \in Groups, GroupStep(g) PROVE UsedInv'
  <2> GroupTemplate(g) \in GroupObject
    BY GroupTemplateType
  <2> LastWith(lg, g) # None => LastWith(lg, g) \in Ids
    BY LastWithIs DEF With, Live
  <2>1. ASSUME NEW ok \in BOOLEAN, DropGroup(g, ok) PROVE UsedInv'
    <3> DEFINE i == LastWith(lg, g)
    <3>1. /\ i \in Ids
          /\ rg'[i] = rg[i] \/ rg'[i] = Gone
          /\ \A j \in Ids \ {i} : rg'[j] = rg[j]
      BY <2>1, Distinct, DeleteLive DEF DropGroup, SweepTypeOK, RemoteGroups
    <3> QED
      BY <2>1, <3>1, GroupWriteUsed DEF DropGroup
  <2>2. ASSUME NEW ok \in BOOLEAN, PostGroup(g, ok) PROVE UsedInv'
    <3>1. CASE ok
      <4>1. PICK i \in Ids : IsFresh(rg, i) /\ rg' = Post(rg, i, GroupTemplate(g))
        BY <2>2, <3>1 DEF PostGroup
      <4>2. rg'[i] = GroupTemplate(g) /\ \A j \in Ids \ {i} : rg'[j] = rg[j]
        BY <4>1, Distinct, PostLive DEF SweepTypeOK, RemoteGroups
      <4> QED
        BY <2>2, <4>2, GroupWriteUsed DEF PostGroup
    <3> QED
      BY <1>1, <2>2, <3>1 DEF PostGroup
  <2>3. ASSUME NEW ok \in BOOLEAN, PutGroup(g, ok) PROVE UsedInv'
    <3> DEFINE i == LastWith(lg, g)
    <3>1. /\ i \in Ids
          /\ rg'[i] = rg[i] \/ rg'[i] = GroupTemplate(g)
          /\ \A j \in Ids \ {i} : rg'[j] = rg[j]
      BY <2>3, Distinct, PutLive DEF PutGroup, SweepTypeOK, RemoteGroups
    <3> QED
      BY <2>3, <3>1, GroupWriteUsed DEF PutGroup
  <2>4. CASE KeepGroup(g)
    BY <1>1, <2>4 DEF KeepGroup
  <2> QED
    BY <1>8, <2>1, <2>2, <2>3, <2>4 DEF GroupStep
<1>9. ASSUME Return, UNCHANGED <<ru, rg>> PROVE UsedInv'
  <2>1. \A u \in Users : ubx'[u] = None
    BY <1>9 DEF Return
  <2> QED
    BY <1>9, <2>1, NoObjectsUsed DEF Return, UsedInv
<1>10. CASE Finish \/ Abort
  BY <1>9, <1>10 DEF Finish, Abort
<1> QED
  BY <1>2, <1>3, <1>4, <1>5, <1>6, <1>7, <1>8, <1>10 DEF SweepNext, SweepStep

-----------------------------------------------------------------------------
(* Listing and deleting.                                                   *)
LEMMA StartClean ==
  ASSUME StartSweep PROVE CleanInv'
<1>1. pc' = "listGroups" /\ UNCHANGED <<ru, rg>> /\ base' = BaseOf(db, ru, rg)
  BY DEF StartSweep
<1>2. base' # "other" => Unique(ru) /\ Unique(rg)
  BY <1>1 DEF BaseOf, Mirrored, UsersMirror, GroupsMirror
<1> QED
  BY <1>1, <1>2 DEF CleanInv, ListInv, DelGroupsInv, DelUsersInv, UsersInv, GroupsInv, DoneInv

LEMMA ListGroupsClean ==
  ASSUME CleanInv, NEW ok \in BOOLEAN, ListGroups(ok) PROVE CleanInv'
<1> SUFFICES ASSUME base' # "other" PROVE CleanInv'
  BY DEF CleanInv
<1>1. pc = "listGroups" /\ pc' = "listUsers" /\ lg' = rg /\ UNCHANGED <<ru, rg>>
      /\ base # "other"
  BY DEF ListGroups, Answer
<1> QED
  BY <1>1 DEF CleanInv, ListInv, DelGroupsInv, DelUsersInv, UsersInv, GroupsInv, DoneInv

LEMMA ListUsersClean ==
  ASSUME CleanInv, NEW ok \in BOOLEAN, ListUsers(ok) PROVE CleanInv'
<1> SUFFICES ASSUME base' # "other" PROVE CleanInv'
  BY DEF CleanInv
<1>1. pc = "listUsers" /\ pc' = "delGroups" /\ UNCHANGED <<ru, rg, lg, snap>>
      /\ lu' = ru /\ todo' = UnknownGroups /\ base # "other"
  BY DEF ListUsers, Answer
<1>2. Unique(ru) /\ Unique(rg) /\ lg = rg
  BY <1>1 DEF CleanInv, ListInv
<1>3. UbxIsListing'
  BY DEF ListUsers, UbxIsListing
<1>4. UnknownGroups' = UnknownGroups
  BY <1>1 DEF UnknownGroups
<1>5. DelGroupsInv'
  BY <1>1, <1>2, <1>3, <1>4 DEF DelGroupsInv, Without
<1> QED
  BY <1>1, <1>5 DEF CleanInv, ListInv, DelUsersInv, UsersInv, GroupsInv, DoneInv

LEMMA DeleteGroupClean ==
  ASSUME SweepTypeOK, CleanInv, NEW i \in Ids, NEW ok \in BOOLEAN, DeleteGroup(i, ok)
  PROVE  CleanInv'
<1> SUFFICES ASSUME base' # "other" PROVE CleanInv'
  BY DEF CleanInv
<1>1. /\ pc = "delGroups" /\ pc' = "delGroups" /\ i \in todo /\ todo' = todo \ {i}
      /\ rg' = Delete(rg, i) /\ base # "other"
      /\ UNCHANGED <<ru, snap, lg, lu, ubx>>
  BY DEF DeleteGroup, Answer
<1>2. DelGroupsInv
  BY <1>1 DEF CleanInv
<1>3. UnknownGroups' = UnknownGroups /\ UbxIsListing'
  BY <1>1, <1>2 DEF UnknownGroups, UbxIsListing, DelGroupsInv
<1>4. Without(rg', lg', UnknownGroups' \ todo')
  <2>1. rg[i] = lg[i] /\ i \in Live(lg) /\ i \in UnknownGroups
    BY <1>1, <1>2 DEF DelGroupsInv, Without, UnknownGroups
  <2>2. rg' = [rg EXCEPT ![i] = Gone]
    BY <1>1, <2>1 DEF Delete, Live
  <2> QED
    BY <1>1, <1>2, <1>3, <2>1, <2>2 DEF DelGroupsInv, Without, SweepTypeOK, RemoteGroups
<1>5. DelGroupsInv'
  BY <1>1, <1>2, <1>3, <1>4 DEF DelGroupsInv
<1> QED
  BY <1>1, <1>5 DEF CleanInv, ListInv, DelUsersInv, UsersInv, GroupsInv, DoneInv

LEMMA DeleteUserClean ==
  ASSUME SweepTypeOK, CleanInv, NEW i \in Ids, NEW ok \in BOOLEAN, DeleteUser(i, ok)
  PROVE  CleanInv'
<1> SUFFICES ASSUME base' # "other" PROVE CleanInv'
  BY DEF CleanInv
<1>1. /\ pc = "delUsers" /\ pc' = "delUsers" /\ i \in todo /\ todo' = todo \ {i}
      /\ ru' = Delete(ru, i) /\ base # "other"
      /\ UNCHANGED <<rg, snap, lg, lu, ubx>>
  BY DEF DeleteUser, Answer
<1>2. DelUsersInv
  BY <1>1 DEF CleanInv
<1>3. UnknownUsers' = UnknownUsers /\ UnknownGroups' = UnknownGroups /\ UbxIsListing'
  BY <1>1, <1>2 DEF UnknownUsers, UnknownGroups, UbxIsListing, DelUsersInv
<1>4. Without(ru', lu', UnknownUsers' \ todo')
  <2>1. ru[i] = lu[i] /\ i \in Live(lu) /\ i \in UnknownUsers
    BY <1>1, <1>2 DEF DelUsersInv, Without, UnknownUsers
  <2>2. ru' = [ru EXCEPT ![i] = Gone]
    BY <1>1, <2>1 DEF Delete, Live
  <2> QED
    BY <1>1, <1>2, <1>3, <2>1, <2>2 DEF DelUsersInv, Without, SweepTypeOK, RemoteUsers
<1>5. DelUsersInv'
  BY <1>1, <1>2, <1>3, <1>4 DEF DelUsersInv
<1> QED
  BY <1>1, <1>5 DEF CleanInv, ListInv, DelGroupsInv, UsersInv, GroupsInv, DoneInv

LEMMA EndDelGroupsClean ==
  ASSUME CleanInv, EndDelGroups PROVE CleanInv'
<1> SUFFICES ASSUME base' # "other" PROVE CleanInv'
  BY DEF CleanInv
<1>1. /\ pc = "delGroups" /\ pc' = "delUsers" /\ todo = {} /\ todo' = UnknownUsers
      /\ base # "other" /\ UNCHANGED <<ru, rg, snap, lg, lu, ubx>>
  BY DEF EndDelGroups, NextLoop
<1>2. DelGroupsInv
  BY <1>1 DEF CleanInv
<1>3. UnknownUsers' = UnknownUsers /\ UnknownGroups' = UnknownGroups /\ UbxIsListing'
  BY <1>1, <1>2 DEF UnknownUsers, UnknownGroups, UbxIsListing, DelGroupsInv
<1>4. DelUsersInv'
  BY <1>1, <1>2, <1>3 DEF DelGroupsInv, DelUsersInv, Without
<1> QED
  BY <1>1, <1>4 DEF CleanInv, ListInv, DelGroupsInv, UsersInv, GroupsInv, DoneInv

LEMMA EndDelUsersClean ==
  ASSUME SweepTypeOK, CleanInv, EndDelUsers PROVE CleanInv'
<1> SUFFICES ASSUME base' # "other" PROVE CleanInv'
  BY DEF CleanInv
<1>1. /\ pc = "delUsers" /\ pc' = "users" /\ todo = {} /\ todo' = ScimUsers(snap)
      /\ base # "other" /\ UNCHANGED <<ru, rg, snap, lg, lu, ubx>>
  BY DEF EndDelUsers, NextLoop
<1>2. DelUsersInv
  BY <1>1 DEF CleanInv
<1>3. Without(ru, lu, UnknownUsers) /\ Unique(lu) /\ UbxIsListing
  BY <1>1, <1>2 DEF DelUsersInv, Without
<1>4. ScimUsers(snap) \subseteq Users
  BY DEF ScimUsers, SweepTypeOK, Database
<1>5. ASSUME NEW i \in Live(ru)
      PROVE  i \in Live(lu) /\ ru[i] = lu[i] /\ lu[i].ext \in ScimUsers(snap)
  <2>1. i \in Ids /\ i \notin UnknownUsers /\ ru[i] = lu[i]
    BY <1>3 DEF Live, Without
  <2> QED
    BY <2>1 DEF Live, UnknownUsers
<1>6. ASSUME NEW i \in Live(lu), lu[i].ext \in ScimUsers(snap)
      PROVE  i \in Live(ru) /\ ru[i] = lu[i]
  BY <1>3, <1>6 DEF Live, Without, UnknownUsers
<1>7. ASSUME NEW i \in Live(ru) PROVE ubx[ru[i].ext] = i
  BY <1>3, <1>4, <1>5, LastWithUnique DEF UbxIsListing
<1>8. ASSUME NEW u \in ScimUsers(snap), ubx[u] # None
      PROVE  ubx[u] \in Live(lu) /\ lu[ubx[u]].ext = u
  <2>1. ubx[u] \in With(lu, u)
    BY <1>3, <1>4, <1>8, LastWithIs DEF UbxIsListing
  <2> QED
    BY <2>1 DEF With
<1>9. UsersDone(ScimUsers(snap))
  BY <1>5, <1>6, <1>7, <1>8 DEF UsersDone
<1>10. UsersDone(todo)'
  BY <1>1, <1>9 DEF UsersDone
<1>11. UsersInv'
  BY <1>1, <1>2, <1>10 DEF UsersInv, DelUsersInv, UnknownGroups, Without
<1> QED
  BY <1>1, <1>11 DEF CleanInv, ListInv, DelGroupsInv, DelUsersInv, GroupsInv, DoneInv

-----------------------------------------------------------------------------
(* The loop over the users.                                                *)
LEMMA ScimUsersAreUsers == ASSUME SweepTypeOK PROVE ScimUsers(snap) \subseteq Users
  BY DEF ScimUsers, SweepTypeOK, Database

LEMMA UserPhase ==
  ASSUME CleanInv, base # "other", pc = "users", pc' = "users", NEW u \in todo,
         todo' = todo \ {u}, UNCHANGED <<rg, snap, lg, lu>>, UsersDone(todo)'
  PROVE  CleanInv'
<1>1. UsersInv
  BY DEF CleanInv
<1>2. UsersInv'
  BY <1>1 DEF UsersInv, UnknownGroups, Without
<1> QED
  BY <1>2 DEF CleanInv, ListInv, DelGroupsInv, DelUsersInv, GroupsInv, DoneInv

LEMMA PostUserClean ==
  ASSUME SweepTypeOK, UsedInv, CleanInv, NEW u \in Users, NEW ok \in BOOLEAN, PostUser(u, ok)
  PROVE  CleanInv'
<1> SUFFICES ASSUME base' # "other" PROVE CleanInv'
  BY DEF CleanInv
<1>1. /\ pc = "users" /\ pc' = "users" /\ u \in todo /\ todo' = todo \ {u}
      /\ base # "other" /\ ok /\ ubx[u] = None
      /\ UNCHANGED <<rg, snap, lg, lu>>
  BY DEF PostUser, Answer
<1>2. UsersDone(todo) /\ todo \subseteq ScimUsers(snap) /\ todo \subseteq Users
  BY <1>1, ScimUsersAreUsers DEF CleanInv, UsersInv
<1>3. PICK i \in Ids : /\ IsFresh(ru, i)
                      /\ ru' = Post(ru, i, UserTemplate(u))
                      /\ ubx' = [ubx EXCEPT ![u] = i]
  BY <1>1 DEF PostUser
<1>4. /\ Live(ru') = Live(ru) \cup {i} /\ i \notin Live(ru)
      /\ ru'[i] = UserTemplate(u) /\ \A j \in Ids \ {i} : ru'[j] = ru[j]
  BY <1>3, Distinct, PostLive, UserTemplateType DEF SweepTypeOK, RemoteUsers
<1>5. ubx'[u] = i /\ \A v \in Users \ {u} : ubx'[v] = ubx[v]
  BY <1>3 DEF SweepTypeOK
<1>6. ru'[i].ext = u /\ ru'[i].attr = snap.uattr[u]
  BY <1>4 DEF UserTemplate
<1>7. Live(ru) \subseteq Ids \ {i} /\ i \in Ids /\ None \notin Ids
  BY <1>4, Distinct DEF Live
<1>8. \A j \in Live(lg) : i \notin lg[j].members
  BY <1>3 DEF UsedInv, RefsUsed, IsFresh
<1>9. \A j \in Live(ru') :
         ru'[j].ext \in ScimUsers(snap) /\ ubx'[ru'[j].ext] = j
  <2>1. ASSUME NEW j \in Live(ru)
        PROVE  ru'[j].ext \in ScimUsers(snap) /\ ubx'[ru'[j].ext] = j
    <3>1. ru'[j] = ru[j] /\ ru[j].ext \in ScimUsers(snap) /\ ubx[ru[j].ext] = j
      BY <1>2, <1>4, <1>7 DEF UsersDone
    <3>2. ru[j].ext # u
      BY <1>1, <1>7, <3>1
    <3> QED
      BY <1>5, <3>1, <3>2, ScimUsersAreUsers
  <2> QED
    BY <1>1, <1>2, <1>4, <1>5, <1>6, <2>1
<1>10. \A v \in ScimUsers(snap) :
         ubx'[v] # None => ubx'[v] \in Live(ru') /\ ru'[ubx'[v]].ext = v
  BY <1>2, <1>4, <1>5, <1>6, <1>7, ScimUsersAreUsers DEF UsersDone
<1>11. \A v \in ScimUsers(snap) \ todo' :
         ubx'[v] # None /\ ru'[ubx'[v]].attr = snap.uattr[v]
  <2>1. ASSUME NEW v \in ScimUsers(snap) \ todo', v # u
        PROVE  ubx'[v] # None /\ ru'[ubx'[v]].attr = snap.uattr[v]
    <3>1. ubx[v] # None /\ ru[ubx[v]].attr = snap.uattr[v] /\ ubx[v] \in Live(ru)
      BY <1>1, <1>2, <2>1 DEF UsersDone
    <3> QED
      BY <1>4, <1>5, <1>7, <2>1, <3>1, ScimUsersAreUsers
  <2> QED
    BY <1>5, <1>6, <1>7, <2>1
<1>12. \A v \in todo' : ubx'[v] # None => lu[ubx'[v]] = ru'[ubx'[v]]
  BY <1>1, <1>2, <1>4, <1>5, <1>7 DEF UsersDone
<1>13. UsersDone(todo)'
  BY <1>1, <1>2, <1>4, <1>7, <1>8, <1>9, <1>10, <1>11, <1>12 DEF UsersDone
<1> QED
  BY <1>1, <1>13, UserPhase

LEMMA PutUserClean ==
  ASSUME SweepTypeOK, CleanInv, NEW u \in Users, NEW ok \in BOOLEAN, PutUser(u, ok)
  PROVE  CleanInv'
<1> SUFFICES ASSUME base' # "other" PROVE CleanInv'
  BY DEF CleanInv
<1> DEFINE i == ubx[u]
<1>1. /\ pc = "users" /\ pc' = "users" /\ u \in todo /\ todo' = todo \ {u}
      /\ base # "other" /\ i # None /\ ru' = Put(ru, i, UserTemplate(u))
      /\ UNCHANGED <<rg, snap, lg, lu, ubx>>
  BY DEF PutUser, Answer
<1>2. UsersDone(todo) /\ todo \subseteq ScimUsers(snap)
  BY <1>1 DEF CleanInv, UsersInv
<1>3. i \in Live(ru) /\ ru[i].ext = u
  BY <1>1, <1>2 DEF UsersDone
<1>4. /\ Live(ru') = Live(ru) /\ ru'[i] = UserTemplate(u)
      /\ \A j \in Ids \ {i} : ru'[j] = ru[j]
  <2>1. i \in Ids /\ ru \in [Ids -> UserObject \cup {Unused, Gone}]
    BY <1>3 DEF Live, SweepTypeOK, RemoteUsers
  <2>2. UserTemplate(u) \in UserObject
    BY UserTemplateType
  <2> QED
    BY <1>1, <1>3, <2>1, <2>2, Distinct, PutLive
<1>5. ru'[i].ext = u /\ ru'[i].attr = snap.uattr[u]
  BY <1>4 DEF UserTemplate
<1>6. \A j \in Live(ru) : ru'[j].ext = ru[j].ext
  BY <1>3, <1>4, <1>5 DEF Live
<1>7. \A v \in ScimUsers(snap) \ {u} : ubx[v] # None => ubx[v] \in Ids \ {i}
  BY <1>2, <1>3 DEF UsersDone, Live
<1>8. \A v \in ScimUsers(snap) \ todo' :
         ubx[v] # None /\ ru'[ubx[v]].attr = snap.uattr[v]
  BY <1>1, <1>2, <1>4, <1>5, <1>7 DEF UsersDone
<1>9. \A v \in todo' : ubx[v] # None => lu[ubx[v]] = ru'[ubx[v]]
  BY <1>1, <1>2, <1>4, <1>7 DEF UsersDone
<1>10. UsersDone(todo)'
  BY <1>1, <1>2, <1>4, <1>6, <1>8, <1>9 DEF UsersDone
<1> QED
  BY <1>1, <1>10, UserPhase

LEMMA KeepUserClean ==
  ASSUME SweepTypeOK, CleanInv, NEW u \in Users, KeepUser(u)
  PROVE  CleanInv'
<1> SUFFICES ASSUME base' # "other" PROVE CleanInv'
  BY DEF CleanInv
<1>1. /\ pc = "users" /\ pc' = "users" /\ u \in todo /\ todo' = todo \ {u}
      /\ base # "other" /\ ubx[u] # None /\ lu[ubx[u]].attr = snap.uattr[u]
      /\ UNCHANGED <<ru, rg, snap, lg, lu, ubx>>
  BY DEF KeepUser, UserChanged
<1>2. UsersDone(todo)
  BY <1>1 DEF CleanInv, UsersInv
<1>3. UsersDone(todo)'
  BY <1>1, <1>2 DEF UsersDone
<1> QED
  BY <1>1, <1>3, UserPhase

LEMMA EndUsersClean ==
  ASSUME SweepTypeOK, CleanInv, EndUsers PROVE CleanInv'
<1> SUFFICES ASSUME base' # "other" PROVE CleanInv'
  BY DEF CleanInv
<1>1. /\ pc = "users" /\ pc' = "groups" /\ todo = {} /\ todo' = snap.groups
      /\ base # "other" /\ UNCHANGED <<ru, rg, snap, lg, lu, ubx>>
  BY DEF EndUsers, NextLoop
<1>2. UsersInv
  BY <1>1 DEF CleanInv
<1>3. UsersDone({})
  BY <1>1, <1>2 DEF UsersInv
<1>4. UsersDone({})'
  BY <1>1, <1>3 DEF UsersDone
<1>5. Without(rg, lg, UnknownGroups) /\ Unique(lg)
  BY <1>1, <1>2 DEF UsersInv
<1>6. \A i \in Live(rg) : i \in Live(lg) /\ rg[i] = lg[i] /\ lg[i].ext \in snap.groups
  <2> SUFFICES ASSUME NEW i \in Live(rg)
               PROVE  i \in Live(lg) /\ rg[i] = lg[i] /\ lg[i].ext \in snap.groups
    OBVIOUS
  <2>1. i \in Ids /\ i \notin UnknownGroups /\ rg[i] = lg[i]
    BY <1>5 DEF Live, Without
  <2> QED
    BY <2>1 DEF Live, UnknownGroups
<1>7. \A i \in Live(lg) : lg[i].ext \in snap.groups => rg[i] = lg[i]
  BY <1>5 DEF Live, Without, UnknownGroups
<1>8. Unique(rg)
  BY <1>5, <1>6 DEF Unique
<1>9. GroupsInv'
  BY <1>1, <1>4, <1>5, <1>6, <1>7, <1>8 DEF GroupsInv, Wanted
<1> QED
  BY <1>1, <1>9 DEF CleanInv, ListInv, DelGroupsInv, DelUsersInv, UsersInv, DoneInv

-----------------------------------------------------------------------------
(* The loop over the groups.                                               *)
LEMMA TemplateMirrors ==
  ASSUME SweepTypeOK, UsersDone({}), NEW g \in snap.groups, ~IsOrphan(g)
  PROVE  GroupMirrors(snap, ru, GroupTemplate(g))
<1>1. g \in Groups /\ snap.member[g] \subseteq ScimUsers(snap) /\ snap.member[g] \subseteq Users
  BY DEF SweepTypeOK, Database, ScimUsers
<1>2. \A u \in snap.member[g] : ubx[u] # None /\ ubx[u] \in Live(ru) /\ ru[ubx[u]].ext = u
  BY <1>1 DEF UsersDone
<1>3. Memberships(g) = {ubx[u] : u \in snap.member[g]}
  BY <1>2 DEF Memberships
<1>4. Resolve(ru, Memberships(g)) = snap.member[g]
  BY <1>2, <1>3 DEF Resolve
<1>5. Wanted(snap, g)
  BY <1>3 DEF IsOrphan, Wanted
<1> QED
  BY <1>4, <1>5 DEF GroupTemplate, GroupMirrors

LEMMA KeptMirrors ==
  ASSUME SweepTypeOK, UsersDone({}), NEW i \in Live(lg), lg[i].ext \in snap.groups,
         ~IsOrphan(lg[i].ext), ~GroupChanged(lg[i].ext, lg[i])
  PROVE  GroupMirrors(snap, ru, lg[i])
<1> DEFINE g == lg[i].ext
           m == lg[i].members
<1>1. lg[i].attr = snap.gattr[g] /\ Resolve(lu, m) = snap.member[g]
  BY DEF GroupChanged, MembersChanged
<1>2. snap.member[g] \subseteq ScimUsers(snap)
  BY DEF ScimUsers
<1>3. ASSUME NEW j \in m \cap Live(lu) PROVE j \in Live(ru) /\ ru[j].ext = lu[j].ext
  <2>1. lu[j].ext \in Resolve(lu, m)
    BY DEF Resolve
  <2> QED
    BY <1>1, <1>2, <2>1 DEF UsersDone
<1>4. m \cap Live(ru) \subseteq Live(lu)
  BY DEF UsersDone
<1>5. Resolve(ru, m) = Resolve(lu, m)
  BY <1>3, <1>4 DEF Resolve
<1>6. g \in Groups /\ snap.member[g] \subseteq Users
  BY DEF SweepTypeOK, Database
<1>7. snap.member[g] = {} => Memberships(g) = {}
  BY DEF Memberships
<1>8. Wanted(snap, g)
  BY <1>7 DEF IsOrphan, Wanted
<1> QED
  BY <1>1, <1>5, <1>8 DEF GroupMirrors

(* What the listing says of a group still to visit.                        *)
LEMMA ListedGroup ==
  ASSUME SweepTypeOK, GroupsInv, pc = "groups", NEW g \in todo
  PROVE  LET i == LastWith(lg, g) IN
         /\ i # None => /\ i \in Ids /\ i \in Live(lg) /\ lg[i].ext = g
                        /\ i \in Live(rg) /\ rg[i] = lg[i]
         /\ \A j \in Live(rg) : rg[j].ext = g => j = i
<1> DEFINE i == LastWith(lg, g)
<1>1. i # None => i \in With(lg, g)
  BY LastWithIs
<1>2. i # None => i \in Ids /\ i \in Live(lg) /\ lg[i].ext = g
  BY <1>1 DEF With, Live
<1>3. i # None => i \in Live(rg) /\ rg[i] = lg[i]
  BY <1>2 DEF GroupsInv, Live
<1>4. ASSUME NEW j \in Live(rg), rg[j].ext = g PROVE j = i
  <2>1. rg[j] = lg[j] /\ j \in Live(lg)
    BY <1>4 DEF GroupsInv, Live
  <2> QED
    BY <1>4, <2>1, LastWithUnique DEF GroupsInv
<1> QED
  BY <1>2, <1>3, <1>4

LEMMA GroupPhase ==
  ASSUME CleanInv, base # "other", pc = "groups", pc' = "groups", NEW g \in todo,
         todo' = todo \ {g}, UNCHANGED <<ru, snap, lg, lu, ubx>>,
         Unique(rg'),
         \A i \in Live(lg) : lg[i].ext \in todo' => rg'[i] = lg[i],
         \A i \in Live(rg') :
           IF rg'[i].ext \in todo' THEN rg'[i] = lg[i] ELSE GroupMirrors(snap, ru, rg'[i]),
         \A h \in Groups \ todo' : Wanted(snap, h) => \E i \in Live(rg') : rg'[i].ext = h
  PROVE  CleanInv'
<1>1. GroupsInv
  BY DEF CleanInv
<1>2. UsersDone({})'
  BY <1>1 DEF GroupsInv, UsersDone
<1>3. GroupsInv'
  BY <1>1, <1>2 DEF GroupsInv
<1> QED
  BY <1>3 DEF CleanInv, ListInv, DelGroupsInv, DelUsersInv, UsersInv, DoneInv

LEMMA DropGroupClean ==
  ASSUME SweepTypeOK, CleanInv, NEW g \in Groups, NEW ok \in BOOLEAN, DropGroup(g, ok)
  PROVE  CleanInv'
<1> SUFFICES ASSUME base' # "other" PROVE CleanInv'
  BY DEF CleanInv
<1> DEFINE i == LastWith(lg, g)
<1>1. /\ pc = "groups" /\ pc' = "groups" /\ g \in todo /\ todo' = todo \ {g}
      /\ base # "other" /\ IsOrphan(g) /\ i # None /\ rg' = Delete(rg, i)
      /\ UNCHANGED <<ru, snap, lg, lu, ubx>>
  BY DEF DropGroup, Answer
<1>2. GroupsInv
  BY <1>1 DEF CleanInv
<1>3. /\ i \in Ids /\ i \in Live(lg) /\ lg[i].ext = g /\ i \in Live(rg) /\ rg[i] = lg[i]
      /\ \A j \in Live(rg) : rg[j].ext = g => j = i
  BY <1>1, <1>2, ListedGroup
<1>4. Live(rg') = Live(rg) \ {i} /\ \A j \in Ids \ {i} : rg'[j] = rg[j]
  BY <1>1, <1>3, Distinct, DeleteLive DEF SweepTypeOK, RemoteGroups
<1>5. \A j \in Live(rg) \ {i} : rg'[j] = rg[j] /\ rg[j].ext # g
  BY <1>3, <1>4 DEF Live
<1>6. ~Wanted(snap, g)
  <2>1. snap.member[g] = {} /\ RemoveOrphans
    BY <1>1 DEF IsOrphan, Memberships
  <2> QED
    BY <2>1 DEF Wanted
<1>7. Unique(rg')
  BY <1>2, <1>1, <1>4, <1>5 DEF Unique, GroupsInv
<1>8. \A j \in Live(lg) : lg[j].ext \in todo' => rg'[j] = lg[j]
  BY <1>1, <1>2, <1>3, <1>4 DEF GroupsInv, Live
<1>9. \A j \in Live(rg') :
        IF rg'[j].ext \in todo' THEN rg'[j] = lg[j] ELSE GroupMirrors(snap, ru, rg'[j])
  BY <1>1, <1>2, <1>4, <1>5 DEF GroupsInv
<1>10. \A h \in Groups \ todo' : Wanted(snap, h) => \E j \in Live(rg') : rg'[j].ext = h
  <2> SUFFICES ASSUME NEW h \in Groups \ todo', Wanted(snap, h)
               PROVE  \E j \in Live(rg') : rg'[j].ext = h
    OBVIOUS
  <2>1. h # g /\ h \notin todo
    BY <1>1, <1>6
  <2>2. PICK j \in Live(rg) : rg[j].ext = h
    BY <1>1, <1>2, <2>1 DEF GroupsInv
  <2>3. j # i
    BY <1>3, <2>1, <2>2
  <2> QED
    BY <1>4, <1>5, <2>2, <2>3
<1> QED
  BY <1>1, <1>7, <1>8, <1>9, <1>10, GroupPhase

LEMMA PostGroupClean ==
  ASSUME SweepTypeOK, UsedInv, CleanInv, NEW g \in Groups, NEW ok \in BOOLEAN, PostGroup(g, ok)
  PROVE  CleanInv'
<1> SUFFICES ASSUME base' # "other" PROVE CleanInv'
  BY DEF CleanInv
<1>1. /\ pc = "groups" /\ pc' = "groups" /\ g \in todo /\ todo' = todo \ {g}
      /\ base # "other" /\ ok /\ ~IsOrphan(g) /\ LastWith(lg, g) = None
      /\ UNCHANGED <<ru, snap, lg, lu, ubx>>
  BY DEF PostGroup, Answer
<1>2. GroupsInv
  BY <1>1 DEF CleanInv
<1>3. \A j \in Live(rg) : rg[j].ext # g
  <2>1. \A j \in Live(rg) : rg[j].ext = g => j = LastWith(lg, g)
    BY <1>1, <1>2, ListedGroup
  <2> QED
    BY <1>1, <2>1, Distinct DEF Live
<1>4. PICK i \in Ids : IsFresh(rg, i) /\ rg' = Post(rg, i, GroupTemplate(g))
  BY <1>1 DEF PostGroup
<1>5. /\ Live(rg') = Live(rg) \cup {i} /\ i \notin Live(rg)
      /\ rg'[i] = GroupTemplate(g) /\ \A j \in Ids \ {i} : rg'[j] = rg[j]
  BY <1>4, Distinct, PostLive, GroupTemplateType DEF SweepTypeOK, RemoteGroups
<1>6. rg'[i].ext = g /\ \A j \in Live(rg) : rg'[j] = rg[j] /\ j # i
  BY <1>5 DEF GroupTemplate, Live
<1>7. Unique(rg')
  BY <1>2, <1>1, <1>3, <1>5, <1>6 DEF Unique, GroupsInv
<1>8. GroupMirrors(snap, ru, rg'[i])
  BY <1>1, <1>2, <1>5, TemplateMirrors DEF GroupsInv
<1>9. \A j \in Live(lg) : lg[j].ext \in todo' => rg'[j] = lg[j]
  <2>1. i \notin Live(lg)
    BY <1>4 DEF UsedInv, IsFresh, Live
  <2> QED
    BY <1>1, <1>2, <1>5, <2>1 DEF GroupsInv, Live
<1>10. \A j \in Live(rg') :
         IF rg'[j].ext \in todo' THEN rg'[j] = lg[j] ELSE GroupMirrors(snap, ru, rg'[j])
  BY <1>1, <1>2, <1>3, <1>5, <1>6, <1>8 DEF GroupsInv
<1>11. \A h \in Groups \ todo' : Wanted(snap, h) => \E j \in Live(rg') : rg'[j].ext = h
  BY <1>1, <1>2, <1>5, <1>6 DEF GroupsInv
<1> QED
  BY <1>1, <1>7, <1>9, <1>10, <1>11, GroupPhase

LEMMA PutGroupClean ==
  ASSUME SweepTypeOK, CleanInv, NEW g \in Groups, NEW ok \in BOOLEAN, PutGroup(g, ok)
  PROVE  CleanInv'
<1> SUFFICES ASSUME base' # "other" PROVE CleanInv'
  BY DEF CleanInv
<1> DEFINE i == LastWith(lg, g)
<1>1. /\ pc = "groups" /\ pc' = "groups" /\ g \in todo /\ todo' = todo \ {g}
      /\ base # "other" /\ ~IsOrphan(g) /\ i # None
      /\ rg' = Put(rg, i, GroupTemplate(g))
      /\ UNCHANGED <<ru, snap, lg, lu, ubx>>
  BY DEF PutGroup, Answer
<1>2. GroupsInv
  BY <1>1 DEF CleanInv
<1>3. /\ i \in Ids /\ i \in Live(lg) /\ lg[i].ext = g /\ i \in Live(rg) /\ rg[i] = lg[i]
      /\ \A j \in Live(rg) : rg[j].ext = g => j = i
  BY <1>1, <1>2, ListedGroup
<1>4. /\ Live(rg') = Live(rg) /\ rg'[i] = GroupTemplate(g)
      /\ \A j \in Ids \ {i} : rg'[j] = rg[j]
  <2>1. rg \in [Ids -> GroupObject \cup {Unused, Gone}] /\ GroupTemplate(g) \in GroupObject
    BY GroupTemplateType DEF SweepTypeOK, RemoteGroups
  <2> QED
    BY <1>1, <1>3, <2>1, Distinct, PutLive
<1>5. rg'[i].ext = g /\ \A j \in Live(rg) \ {i} : rg'[j] = rg[j]
  BY <1>4 DEF GroupTemplate, Live
<1>6. GroupMirrors(snap, ru, rg'[i])
  BY <1>1, <1>2, <1>4, TemplateMirrors DEF GroupsInv
<1>7. \A j \in Live(rg) : rg'[j].ext = rg[j].ext
  BY <1>3, <1>5
<1>8. Unique(rg')
  BY <1>2, <1>1, <1>4, <1>7 DEF Unique, GroupsInv
<1>9. \A j \in Live(lg) : lg[j].ext \in todo' => rg'[j] = lg[j]
  BY <1>1, <1>2, <1>3, <1>4 DEF GroupsInv, Live
<1>10. \A j \in Live(rg') :
         IF rg'[j].ext \in todo' THEN rg'[j] = lg[j] ELSE GroupMirrors(snap, ru, rg'[j])
  BY <1>1, <1>2, <1>3, <1>4, <1>5, <1>6 DEF GroupsInv
<1>11. \A h \in Groups \ todo' : Wanted(snap, h) => \E j \in Live(rg') : rg'[j].ext = h
  BY <1>1, <1>2, <1>3, <1>4, <1>5, <1>7 DEF GroupsInv
<1> QED
  BY <1>1, <1>8, <1>9, <1>10, <1>11, GroupPhase

LEMMA KeepGroupClean ==
  ASSUME SweepTypeOK, CleanInv, NEW g \in Groups, KeepGroup(g)
  PROVE  CleanInv'
<1> SUFFICES ASSUME base' # "other" PROVE CleanInv'
  BY DEF CleanInv
<1> DEFINE i == LastWith(lg, g)
<1>1. /\ pc = "groups" /\ pc' = "groups" /\ g \in todo /\ todo' = todo \ {g}
      /\ base # "other"
      /\ UNCHANGED <<ru, rg, snap, lg, lu, ubx>>
  BY DEF KeepGroup
<1>2. GroupsInv
  BY <1>1 DEF CleanInv
<1>3. /\ i # None => /\ i \in Ids /\ i \in Live(lg) /\ lg[i].ext = g
                     /\ i \in Live(rg) /\ rg[i] = lg[i]
      /\ \A j \in Live(rg) : rg[j].ext = g => j = i
  BY <1>1, <1>2, ListedGroup
<1>4. \A j \in Live(rg) : rg[j].ext = g => GroupMirrors(snap, ru, rg[j])
  <2> SUFFICES ASSUME NEW j \in Live(rg), rg[j].ext = g
               PROVE  GroupMirrors(snap, ru, rg[j])
    OBVIOUS
  <2>1. j = i /\ i # None
    BY <1>3, Distinct DEF Live
  <2>2. ~IsOrphan(g) /\ ~GroupChanged(g, lg[i])
    BY <2>1 DEF KeepGroup
  <2> QED
    BY <1>1, <1>2, <1>3, <2>1, <2>2, KeptMirrors DEF GroupsInv
<1>5. Wanted(snap, g) => \E j \in Live(rg) : rg[j].ext = g
  <2>1. CASE IsOrphan(g)
    <3>1. snap.member[g] = {} /\ RemoveOrphans
      BY <2>1 DEF IsOrphan, Memberships
    <3> QED
      BY <3>1 DEF Wanted
  <2>2. CASE ~IsOrphan(g)
    BY <1>3, <2>2 DEF KeepGroup
  <2> QED
    BY <2>1, <2>2
<1>6. \A j \in Live(lg) : lg[j].ext \in todo' => rg'[j] = lg[j]
  BY <1>1, <1>2 DEF GroupsInv
<1>7. \A j \in Live(rg') :
        IF rg'[j].ext \in todo' THEN rg'[j] = lg[j] ELSE GroupMirrors(snap, ru, rg'[j])
  BY <1>1, <1>2, <1>4 DEF GroupsInv
<1>8. \A h \in Groups \ todo' : Wanted(snap, h) => \E j \in Live(rg') : rg'[j].ext = h
  BY <1>1, <1>2, <1>5 DEF GroupsInv
<1>9. Unique(rg')
  BY <1>1, <1>2 DEF GroupsInv
<1> QED
  BY <1>1, <1>6, <1>7, <1>8, <1>9, GroupPhase

LEMMA EndGroupsClean ==
  ASSUME SweepTypeOK, CleanInv, EndGroups PROVE CleanInv'
<1> SUFFICES ASSUME base' # "other" PROVE CleanInv'
  BY DEF CleanInv
<1>1. /\ pc = "groups" /\ pc' = "done" /\ todo = {}
      /\ base # "other" /\ UNCHANGED <<ru, rg, snap>>
  BY DEF EndGroups, NextLoop
<1>2. GroupsInv /\ UsersDone({}) /\ Unique(rg)
  BY <1>1 DEF CleanInv, GroupsInv
<1>3. UsersMirror(snap, ru)
  <2>1. Unique(ru)
    BY <1>2 DEF UsersDone, Unique
  <2>2. ASSUME NEW u \in ScimUsers(snap)
        PROVE  \E i \in Live(ru) : ru[i] = [ext |-> u, attr |-> snap.uattr[u]]
    <3>1. ubx[u] \in Live(ru) /\ ru[ubx[u]].ext = u /\ ru[ubx[u]].attr = snap.uattr[u]
      BY <1>2 DEF UsersDone
    <3>2. ru[ubx[u]] \in UserObject
      BY <3>1 DEF SweepTypeOK, RemoteUsers, Live
    <3>3. ru[ubx[u]] = [ext |-> u, attr |-> snap.uattr[u]]
      BY <3>1, <3>2 DEF UserObject
    <3> QED
      BY <3>1, <3>3
  <2> QED
    BY <1>2, <2>1, <2>2 DEF UsersMirror, UsersDone
<1>4. GroupsMirror(snap, ru, rg)
  BY <1>1, <1>2 DEF GroupsMirror, GroupsInv
<1>5. DoneInv'
  BY <1>1, <1>3, <1>4 DEF DoneInv, Mirrored
<1> QED
  BY <1>1, <1>5 DEF CleanInv, ListInv, DelGroupsInv, DelUsersInv, UsersInv, GroupsInv

LEMMA QuietClean ==
  ASSUME CleanInv, UNCHANGED <<ru, rg, sweepVars>>
  PROVE  CleanInv'
  BY DEF CleanInv, sweepVars, ListInv, DelGroupsInv, DelUsersInv, UsersInv, GroupsInv, DoneInv,
         UbxIsListing, UnknownGroups, UnknownUsers, Without, UsersDone

LEMMA CleanStep ==
  ASSUME SweepTypeOK, UsedInv, CleanInv, [SweepNext]_scimVars
  PROVE  CleanInv'
<1>1. ASSUME NEW ok \in BOOLEAN, ListGroups(ok) \/ ListUsers(ok) PROVE CleanInv'
  BY <1>1, ListGroupsClean, ListUsersClean
<1>2. ASSUME NEW i \in Ids, NEW ok \in BOOLEAN, DeleteGroup(i, ok) \/ DeleteUser(i, ok)
      PROVE  CleanInv'
  BY <1>2, DeleteGroupClean, DeleteUserClean
<1>3. ASSUME NEW u \in Users, UserLoopStep(u) PROVE CleanInv'
  BY <1>3, PostUserClean, PutUserClean, KeepUserClean DEF UserLoopStep
<1>4. ASSUME NEW g \in Groups, GroupStep(g) PROVE CleanInv'
  BY <1>4, DropGroupClean, PostGroupClean, PutGroupClean, KeepGroupClean DEF GroupStep
<1>5. CASE EndDelGroups \/ EndDelUsers \/ EndUsers \/ EndGroups \/ StartSweep
  BY <1>5, EndDelGroupsClean, EndDelUsersClean, EndUsersClean, EndGroupsClean, StartClean
<1>6. CASE Finish \/ Abort
  BY <1>6 DEF Finish, Abort, Return, CleanInv
<1>7. CASE DbChange \/ UNCHANGED scimVars
  BY <1>7, QuietClean DEF DbChange, scimVars
<1> QED
  BY <1>1, <1>2, <1>3, <1>4, <1>5, <1>6, <1>7 DEF SweepNext, SweepStep

-----------------------------------------------------------------------------
(* A sweep of a mirror.                                                    *)
LEMMA MirrorFacts ==
  ASSUME SweepTypeOK, Mirrored(snap, ru, rg)
  PROVE  /\ \A i \in Live(rg) : GroupMirrors(snap, ru, rg[i]) /\ rg[i].ext \in snap.groups
         /\ \A i \in Live(ru) : /\ ru[i].ext \in ScimUsers(snap)
                               /\ ru[i].attr = snap.uattr[ru[i].ext]
         /\ \A u \in ScimUsers(snap) : With(ru, u) # {}
         /\ \A g \in Groups : Wanted(snap, g) => With(rg, g) # {}
         /\ Unique(ru) /\ Unique(rg)
<1>1. UsersMirror(snap, ru) /\ GroupsMirror(snap, ru, rg)
  BY DEF Mirrored
<1>2. \A i \in Live(ru) : ru[i].ext \in ScimUsers(snap) /\ ru[i].attr = snap.uattr[ru[i].ext]
  <2> SUFFICES ASSUME NEW i \in Live(ru)
               PROVE  ru[i].ext \in ScimUsers(snap) /\ ru[i].attr = snap.uattr[ru[i].ext]
    OBVIOUS
  <2>1. PICK j \in Live(ru) : ru[j] = [ext |-> ru[i].ext, attr |-> snap.uattr[ru[i].ext]]
    BY <1>1 DEF UsersMirror
  <2>2. j = i
    BY <1>1, <2>1 DEF UsersMirror, Unique
  <2> QED
    BY <1>1, <2>1, <2>2 DEF UsersMirror
<1>3. ASSUME NEW u \in ScimUsers(snap) PROVE With(ru, u) # {}
  <2>1. PICK i \in Live(ru) : ru[i] = [ext |-> u, attr |-> snap.uattr[u]]
    BY <1>1 DEF UsersMirror
  <2> QED
    BY <2>1 DEF With
<1>4. \A g \in Groups : Wanted(snap, g) => With(rg, g) # {}
  BY <1>1 DEF GroupsMirror, With
<1> QED
  BY <1>1, <1>2, <1>3, <1>4 DEF UsersMirror, GroupsMirror, GroupMirrors, Wanted

LEMMA UserKept ==
  ASSUME SweepTypeOK, SyncedInv, base = "mirrored", pc = "users", NEW u \in todo
  PROVE  ubx[u] # None /\ ~UserChanged(u)
<1>1. /\ u \in ScimUsers(snap) /\ u \in Users /\ lu = ru /\ UbxIsListing
      /\ Mirrored(snap, ru, rg)
  BY ScimUsersAreUsers DEF SyncedInv
<1>2. ubx[u] \in With(ru, u)
  BY <1>1, MirrorFacts, LastWithIs DEF UbxIsListing
<1>3. ubx[u] \in Live(ru) /\ ru[ubx[u]].ext = u
  BY <1>2 DEF With
<1> QED
  BY <1>1, <1>3, MirrorFacts, Distinct DEF UserChanged, Live

LEMMA GroupKept ==
  ASSUME SweepTypeOK, SyncedInv, base = "mirrored", pc = "groups", NEW g \in todo
  PROVE  IF IsOrphan(g) THEN LastWith(lg, g) = None
         ELSE LastWith(lg, g) # None /\ ~GroupChanged(g, lg[LastWith(lg, g)])
<1> DEFINE i == LastWith(lg, g)
<1>1. /\ g \in snap.groups /\ g \in Groups /\ lu = ru /\ lg = rg
      /\ Mirrored(snap, ru, rg)
  BY DEF SyncedInv, SweepTypeOK, Database
<1>2. i # None => i \in Live(rg) /\ rg[i].ext = g /\ GroupMirrors(snap, ru, rg[i])
  BY <1>1, LastWithIs, MirrorFacts DEF With
<1>3. IsOrphan(g) <=> RemoveOrphans /\ snap.member[g] = {}
  BY DEF IsOrphan, Memberships
<1>4. IsOrphan(g) => i = None
  BY <1>2, <1>3 DEF GroupMirrors, Wanted
<1>5. ~IsOrphan(g) => i # None
  BY <1>1, <1>3, LastWithIs, MirrorFacts DEF Wanted
<1>6. ASSUME i # None PROVE ~GroupChanged(g, lg[i])
  BY <1>1, <1>2, <1>6, MirrorFacts DEF GroupMirrors, GroupChanged, MembersChanged, Unique
<1> QED
  BY <1>4, <1>5, <1>6

LEMMA SyncedStep ==
  ASSUME SweepTypeOK, SyncedInv, IdleSweepInv, [SweepNext]_scimVars
  PROVE  SyncedInv' /\ IdleSweepInv'
<1>1. CASE StartSweep
  <2>1. IdleSweepInv' /\ pc' = "listGroups" /\ snap' = db /\ UNCHANGED <<ru, rg, wrote>> /\ ~wrote
    BY <1>1 DEF StartSweep, IdleSweepInv
  <2>2. base' = "mirrored" => Mirrored(snap', ru, rg)
    BY <1>1, <2>1 DEF StartSweep, BaseOf
  <2> QED
    BY <2>1, <2>2 DEF SyncedInv
<1>2. ASSUME NEW ok \in BOOLEAN, ListGroups(ok) PROVE SyncedInv' /\ IdleSweepInv'
  <2>1. pc = "listGroups" /\ pc' = "listUsers" /\ UNCHANGED <<ru, rg, snap, wrote>>
    BY <1>2 DEF ListGroups
  <2>2. base' = "mirrored" => base = "mirrored" /\ lg' = rg
    BY <1>2 DEF ListGroups, Answer
  <2> QED
    BY <2>1, <2>2 DEF SyncedInv, IdleSweepInv
<1>3. ASSUME NEW ok \in BOOLEAN, ListUsers(ok) PROVE SyncedInv' /\ IdleSweepInv'
  <2>1. /\ pc = "listUsers" /\ pc' = "delGroups" /\ UNCHANGED <<ru, rg, snap, wrote, lg>>
        /\ todo' = UnknownGroups
    BY <1>3 DEF ListUsers
  <2>2. base' = "mirrored" => base = "mirrored" /\ lu' = ru
    BY <1>3 DEF ListUsers, Answer
  <2>3. UbxIsListing'
    BY <1>3 DEF ListUsers, UbxIsListing
  <2>4. base = "mirrored" => UnknownGroups = {}
    BY <2>1, MirrorFacts DEF UnknownGroups, SyncedInv
  <2> QED
    BY <2>1, <2>2, <2>3, <2>4 DEF SyncedInv, IdleSweepInv
<1>4. ASSUME NEW i \in Ids, NEW ok \in BOOLEAN, DeleteGroup(i, ok) \/ DeleteUser(i, ok)
      PROVE  SyncedInv' /\ IdleSweepInv'
  <2>1. pc \in {"delGroups", "delUsers"} /\ pc' = pc /\ i \in todo
    BY <1>4 DEF DeleteGroup, DeleteUser
  <2>2. base' = "mirrored" => base = "mirrored"
    BY <1>4 DEF DeleteGroup, DeleteUser, Answer
  <2> QED
    BY <2>1, <2>2 DEF SyncedInv, IdleSweepInv
<1>5. ASSUME NEW from, NEW to, NEW visits, NextLoop(from, to, visits), from # "idle",
             from \notin {"listGroups", "listUsers"}, to \notin {"idle", "delGroups"},
             to = "delUsers" => visits = UnknownUsers,
             to = "users" => visits = ScimUsers(snap),
             to = "groups" => visits = snap.groups
      PROVE  SyncedInv' /\ IdleSweepInv'
  <2>1. /\ pc = from /\ pc' = to /\ todo' = visits
        /\ UNCHANGED <<ru, rg, snap, lg, lu, ubx, wrote, base>>
    BY <1>5 DEF NextLoop
  <2>2. base = "mirrored" => lg = rg /\ lu = ru /\ UbxIsListing /\ Mirrored(snap, ru, rg)
    BY <1>5, <2>1 DEF SyncedInv
  <2>3. base = "mirrored" => UnknownUsers = {}
    BY <2>2, MirrorFacts DEF UnknownUsers
  <2>4. UbxIsListing <=> UbxIsListing'
    BY <2>1 DEF UbxIsListing
  <2> QED
    BY <1>5, <2>1, <2>2, <2>3, <2>4 DEF SyncedInv, IdleSweepInv
<1>6. CASE EndDelGroups \/ EndDelUsers \/ EndUsers \/ EndGroups
  <2>1. ASSUME EndDelGroups PROVE SyncedInv' /\ IdleSweepInv'
    BY <2>1, <1>5 DEF EndDelGroups
  <2>2. ASSUME EndDelUsers PROVE SyncedInv' /\ IdleSweepInv'
    BY <2>2, <1>5 DEF EndDelUsers
  <2>3. ASSUME EndUsers PROVE SyncedInv' /\ IdleSweepInv'
    BY <2>3, <1>5 DEF EndUsers
  <2>4. ASSUME EndGroups PROVE SyncedInv' /\ IdleSweepInv'
    BY <2>4, <1>5 DEF EndGroups
  <2> QED
    BY <1>6, <2>1, <2>2, <2>3, <2>4
<1>7. ASSUME NEW u \in Users, UserLoopStep(u) PROVE SyncedInv' /\ IdleSweepInv'
  <2>1. base' = "mirrored" => base = "mirrored"
    BY <1>7 DEF UserLoopStep, PostUser, PutUser, KeepUser, Answer
  <2>2. pc = "users" /\ pc' = "users" /\ u \in todo /\ todo' = todo \ {u}
    BY <1>7 DEF UserLoopStep, PostUser, PutUser, KeepUser
  <2>3. base = "mirrored" => KeepUser(u)
    BY <1>7, <2>2, UserKept DEF UserLoopStep, PostUser, PutUser
  <2>4. base = "mirrored" => UNCHANGED <<ru, rg, snap, lg, lu, ubx, wrote>>
    BY <2>3 DEF KeepUser
  <2>5. base = "mirrored" => (UbxIsListing <=> UbxIsListing')
    BY <2>4 DEF UbxIsListing
  <2> QED
    BY <2>1, <2>2, <2>4, <2>5 DEF SyncedInv, IdleSweepInv
<1>8. ASSUME NEW g \in Groups, GroupStep(g) PROVE SyncedInv' /\ IdleSweepInv'
  <2>1. pc = "groups" /\ pc' = "groups" /\ g \in todo /\ todo' = todo \ {g}
    BY <1>8 DEF GroupStep, DropGroup, PostGroup, PutGroup, KeepGroup
  <2>2. base' = "mirrored" => base = "mirrored"
    BY <1>8 DEF GroupStep, DropGroup, PostGroup, PutGroup, KeepGroup, Answer
  <2>3. base = "mirrored" => KeepGroup(g)
    BY <1>8, <2>1, GroupKept DEF GroupStep, DropGroup, PostGroup, PutGroup
  <2>4. base = "mirrored" => UNCHANGED <<ru, rg, snap, lg, lu, ubx, wrote>>
    BY <2>3 DEF KeepGroup
  <2>5. base = "mirrored" => (UbxIsListing <=> UbxIsListing')
    BY <2>4 DEF UbxIsListing
  <2> QED
    BY <2>1, <2>2, <2>4, <2>5 DEF SyncedInv, IdleSweepInv
<1>9. CASE Finish \/ Abort
  BY <1>9 DEF Finish, Abort, Return, SyncedInv, IdleSweepInv
<1>10. CASE DbChange \/ UNCHANGED scimVars
  BY <1>10 DEF DbChange, scimVars, sweepVars, SyncedInv, IdleSweepInv, UbxIsListing
<1> QED
  BY <1>1, <1>2, <1>3, <1>4, <1>6, <1>7, <1>8, <1>9, <1>10 DEF SweepNext, SweepStep

-----------------------------------------------------------------------------
(* The inductive invariant, and what follows from it.                      *)
LEMMA InitInv == SweepInit => UsedInv /\ CleanInv /\ SyncedInv /\ IdleSweepInv
<1> SUFFICES ASSUME SweepInit PROVE UsedInv /\ CleanInv /\ SyncedInv /\ IdleSweepInv
  OBVIOUS
<1>1. RefsUsed(ru, rg)
  BY SweepAssumption DEF SweepInit
<1>2. lg = NoObjects /\ lu = NoObjects /\ \A u \in Users : ubx[u] = None
  BY DEF SweepInit
<1>3. UsedInv
  BY <1>1, <1>2, NoObjectsUsed DEF UsedInv
<1> QED
  BY <1>3 DEF SweepInit, CleanInv, SyncedInv, IdleSweepInv

LEMMA Inductive == SweepSpec => []SweepInv
<1>1. SweepInit => UsedInv /\ CleanInv /\ SyncedInv /\ IdleSweepInv
  BY InitInv
<1>2. SweepTypeOK /\ (UsedInv /\ CleanInv /\ SyncedInv /\ IdleSweepInv) /\ [SweepNext]_scimVars
        => (UsedInv /\ CleanInv /\ SyncedInv /\ IdleSweepInv)'
  BY UsedStep, CleanStep, SyncedStep
<1>3. SweepInv <=> SweepTypeOK /\ (UsedInv /\ CleanInv /\ SyncedInv /\ IdleSweepInv)
  BY DEF SweepInv
<1> QED
  BY <1>1, <1>2, <1>3, SweepTypeCorrect, PTL DEF SweepSpec

(* However the database changes meanwhile and whatever the remote server   *)
(* held, a sweep without an error answer, begun without duplicates, leaves *)
(* a mirror of the database it read.                                       *)
THEOREM SweepIsCorrect == SweepSpec => []SweepMirrors
<1>1. SweepInv => SweepMirrors
  BY DEF SweepInv, CleanInv, DoneInv, SweepMirrors
<1> QED
  BY <1>1, Inductive, PTL

(* A sweep of a server that is in sync sends no write.                     *)
THEOREM SweepIsIdempotent == SweepSpec => []SyncedSweepIsSilent
<1>1. SweepInv => SyncedSweepIsSilent
  BY DEF SweepInv, SyncedInv, SyncedSweepIsSilent
<1> QED
  BY <1>1, Inductive, PTL

(* Every id a group names was handed out by a POST of a user.              *)
THEOREM MembersExisted == SweepSpec => []MembersWereCreated
<1>1. SweepInv => MembersWereCreated
  BY DEF SweepInv, UsedInv, MembersWereCreated
<1> QED
  BY <1>1, Inductive, PTL

-----------------------------------------------------------------------------
(* Provisioning.  What the variables range over: a step is about a group   *)
(* or about a user, as it says.                                            *)
Args == Users \cup Groups \cup {None}
TaskKinds == {"none", "collaboration", "group", "user", "userDeleted", "serviceAdded",
              "serviceDeleted", "orgServiceAdded", "orgServiceDeleted", "groupDeleted",
              "collaborationDeleted", "organisationDeleted"}
Tasks == [kind : TaskKinds, x : Args, cos : SUBSET COs]
OnGroups == {"provisionGroup", "writeGroup"}
OnUsers == {"member", "postMember", "provisionUser", "writeUser"}
ToDelete == {"dropGroup", "dropCollaboration", "dropUser", "deleteGroup", "deleteUser"}
Steps == {s \in [do : OnGroups \cup OnUsers \cup ToDelete, x : Args] :
            /\ s.do \in OnGroups => s.x \in Groups
            /\ s.do \in OnUsers => s.x \in Users
            /\ s.do = "dropCollaboration" => s.x \in COs}
Threads == [task : Tasks, begun : BOOLEAN, snap : Tables, steps : Seq(Steps),
            id : Ids \cup {None}, ids : SUBSET Ids]

ProvisionTypeOK ==
  /\ load \in Loads
  /\ tables \in Tables
  /\ rUsers \in RemoteUsers /\ rGroups \in RemoteGroups
  /\ queue \in Seq(Tasks)
  /\ work \in [Actors -> Threads]
  /\ ever \in [Groups -> SUBSET Users]
  /\ ops \in Nat /\ errors \in Nat

(* What was posted under id i is or was for one of the users S.            *)
IsOf(r, i, S) == r[i] # Unused /\ (r[i] # Gone => r[i].ext \in S)

(* The members of rows were members.                                       *)
WereMembers(d, e) == \A g \in Groups : d.member[g] \subseteq e[g]

(* The list a thread is making of the members of a group is of users who   *)
(* were, and so are those it is still to look up; the object it is about to*)
(* replace is that of the user.                                            *)
Collects(w, r, e) ==
  \A k \in 1..Len(w.steps) : w.steps[k].do = "writeGroup" =>
    /\ \A j \in 1..(k - 1) : /\ w.steps[j].do \in {"member", "postMember"}
                             /\ w.steps[j].x \in e[w.steps[k].x]
    /\ \A i \in w.ids : IsOf(r, i, e[w.steps[k].x])
Replaces(w, r) ==
  \A k \in 1..Len(w.steps) : w.steps[k].do = "writeUser" =>
    k = 1 /\ (w.id # None => IsOf(r, w.id, {w.steps[k].x}))
Sound(w, r, e) == WereMembers(w.snap, e) /\ Collects(w, r, e) /\ Replaces(w, r)

(* What a remote group lists was posted for users who were its members.    *)
ListsMembers(r, s, e) ==
  \A i \in Live(s) : \A m \in s[i].members : m \in Ids /\ IsOf(r, m, e[s[i].ext])

ProvisionInv ==
  /\ ProvisionTypeOK
  /\ WereMembers(tables, ever)
  /\ \A w \in Actors : Sound(work[w], rUsers, ever)
  /\ ListsMembers(rUsers, rGroups, ever)

(* Induction over data without an operator for the statement: a set of     *)
(* numbers that is not empty has a least one, the first for which the      *)
(* statement fails.                                                        *)
LEMMA LeastNumber ==
  ASSUME NEW T, T \subseteq Nat, T # {}
  PROVE  \E n \in T : \A m \in T : n <= m
<1>1. IsWellFoundedOn(OpToRel(<, Nat), Nat)
  BY NatLessThanWellFounded
<1> DEFINE R == OpToRel(<, Nat)
<1>2. \A x, y \in Nat : y < x => <<y, x>> \in R
  BY DEF OpToRel
<1> HIDE DEF R
<1>3. IsWellFoundedOn(R, Nat)
  BY <1>1 DEF R
<1>4. \E x \in T : \A y \in T : ~ (<<y, x>> \in R)
  BY <1>3, WFMin
<1>5. PICK x \in T : \A y \in T : ~ (<<y, x>> \in R)
  BY <1>4
<1>6. \A y \in T : ~ (y < x)
  BY <1>2, <1>5, Zenon
<1>7. \A y \in T : x <= y
  BY <1>6
<1> QED BY <1>7

(* Lists of steps put together: first that the recursive function of       *)
(* FlattenSeq exists, then what it gives.                                  *)
LEMMA FlattenType ==
  ASSUME NEW S, NEW ss \in Seq(Seq(S))
  PROVE  FlattenSeq(ss) \in Seq(S)
<1> DEFINE n == Len(ss)
           Part(f, i) == IF i = 1 THEN ss[i] ELSE f[i - 1] \o ss[i]
           Up(k) == \E f \in [1 .. k -> Seq(S)] : \A i \in 1 .. k : f[i] = Part(f, i)
<1>1. n \in Nat /\ \A i \in 1 .. n : ss[i] \in Seq(S)
  OBVIOUS
<1>2. CASE n = 0
  <2>1. ss = << >>
    BY <1>2
  <2> QED BY <2>1, <1>2 DEF FlattenSeq
<1>3. CASE n # 0
  <2>1. Up(n)
    <3>1. SUFFICES ASSUME ~ Up(n) PROVE FALSE
      OBVIOUS
    <3> DEFINE T == {k \in Nat : k <= n /\ ~ Up(k)}
    <3>2. T \subseteq Nat /\ T # {}
      <4>1. n \in T
        <5> HIDE DEF Up
        <5> QED BY <1>1, <3>1
      <4>2. T \subseteq Nat
        <5> HIDE DEF Up
        <5> QED OBVIOUS
      <4> QED BY <4>1, <4>2, Zenon
    <3>3. PICK k \in T : \A m \in T : k <= m
      <4> HIDE DEF T
      <4> QED BY <3>2, LeastNumber
    <3>4. CASE k = 0
      <4>1. [i \in 1 .. 0 |-> << >>] \in [1 .. 0 -> Seq(S)]
        OBVIOUS
      <4>3. \A i \in 1 .. 0 : FALSE
        OBVIOUS
      <4>2. Up(0)
        BY <4>1, <4>3, Zenon
      <4> QED BY <3>4, <4>2
    <3>5. CASE k # 0
      <4>1. k - 1 \in Nat /\ k - 1 <= n /\ k \in 1 .. n
        BY <3>5, <1>1
      <4>2. Up(k - 1)
        <5>1. ~ (k <= k - 1) /\ k - 1 \notin T
          <6> HIDE DEF T, Up
          <6>1. ~ (k <= k - 1)
            BY <4>1
          <6> QED BY <6>1, <3>3
        <5> QED BY <5>1, <4>1
      <4>3. PICK f \in [1 .. (k - 1) -> Seq(S)] : \A i \in 1 .. (k - 1) : f[i] = Part(f, i)
        BY <4>2
      <4> DEFINE g == [i \in 1 .. k |-> IF i = k THEN Part(f, k) ELSE f[i]]
      <4>4. Part(f, k) \in Seq(S)
        <5>1. CASE k = 1
          BY <5>1, <1>1, <4>1
        <5>2. CASE k # 1
          <6>1. f[k - 1] \in Seq(S) /\ ss[k] \in Seq(S)
            BY <5>2, <1>1, <4>1, <4>3
          <6>2. f[k - 1] \o ss[k] \in Seq(S)
            BY <6>1
          <6> QED BY <6>2, <5>2
        <5> QED BY <5>1, <5>2
      <4>5. g \in [1 .. k -> Seq(S)]
        BY <4>1, <4>4, <4>3
      <4>6. ASSUME NEW i \in 1 .. k PROVE g[i] = Part(g, i)
        <5>1. CASE i = k
          <6>1. g[i] = Part(f, k)
            BY <5>1
          <6>2. CASE k = 1
            BY <6>1, <6>2, <5>1
          <6>3. CASE k # 1
            <7>1. k - 1 \in 1 .. k /\ k - 1 # k
              BY <6>3, <4>1
            <7>2. g[k - 1] = f[k - 1]
              BY <7>1
            <7> QED BY <6>1, <7>2, <5>1
          <6> QED BY <6>2, <6>3
        <5>2. CASE i # k
          <6>1. i \in 1 .. (k - 1)
            BY <5>2, <4>1
          <6>2. g[i] = f[i] /\ f[i] = Part(f, i)
            BY <5>2, <6>1, <4>3
          <6>3. CASE i = 1
            BY <6>2, <6>3
          <6>4. CASE i # 1
            <7>1. i - 1 \in 1 .. k /\ i - 1 # k
              BY <6>4, <6>1, <4>1
            <7>2. g[i - 1] = f[i - 1]
              BY <7>1
            <7> QED BY <6>2, <7>2
          <6> QED BY <6>3, <6>4
        <5> QED BY <5>1, <5>2
      <4>7. Up(k)
        <5> HIDE DEF Part, g
        <5> QED BY <4>5, <4>6
      <4> QED BY <4>7
    <3> QED BY <3>4, <3>5
  <2>2. PICK f \in [1 .. n -> Seq(S)] : \A i \in 1 .. n : f[i] = Part(f, i)
    BY <2>1
  <2>3. f = [i \in 1 .. n |-> Part(f, i)]
    BY <2>2
  <2> DEFINE flat == CHOOSE h : h = [i \in 1 .. n |-> IF i = 1 THEN ss[i] ELSE h[i - 1] \o ss[i]]
  <2>4. flat = [i \in 1 .. n |-> IF i = 1 THEN ss[i] ELSE flat[i - 1] \o ss[i]]
    BY <2>3
  <2>5. FlattenSeq(ss) = flat[n]
    BY <1>3 DEF FlattenSeq
  <2> HIDE DEF flat
  <2>6. ASSUME flat[n] \notin Seq(S) PROVE FALSE
    <3> DEFINE T == {k \in Nat : k \in 1 .. n /\ flat[k] \notin Seq(S)}
    <3>1. T \subseteq Nat /\ T # {}
      BY <1>1, <1>3, <2>6
    <3>2. PICK k \in T : \A m \in T : k <= m
      <4> HIDE DEF T
      <4> QED BY <3>1, LeastNumber
    <3>3. CASE k = 1
      BY <3>3, <2>4, <1>1
    <3>4. CASE k # 1
      <4>1. k - 1 \in 1 .. n /\ k \in 1 .. n
        BY <3>4
      <4>2. flat[k - 1] \in Seq(S)
        BY <4>1, <3>2
      <4>3. flat[k] = flat[k - 1] \o ss[k] /\ ss[k] \in Seq(S)
        BY <4>1, <3>4, <2>4, <1>1
      <4>4. flat[k] \in Seq(S)
        BY <4>2, <4>3
      <4> QED BY <4>4
    <3> QED BY <3>3, <3>4
  <2> QED BY <2>5, <2>6
<1> QED BY <1>2, <1>3

(* What a task begins with.                                                *)
TaskSteps == {s \in Steps : s.do \notin {"member", "postMember", "writeGroup", "writeUser"}}

LEMMA ListOfSet ==
  ASSUME NEW S, IsFiniteSet(S)
  PROVE  /\ Cardinality(S) \in Nat
         /\ SetToSeq(S) \in [1..Cardinality(S) -> S]
         /\ \A x \in S : \E i \in 1..Cardinality(S) : SetToSeq(S)[i] = x
<1>1. /\ Cardinality(S) \in Nat
      /\ ExistsBijection(1..Cardinality(S), S)
  BY FS_CardinalityType, FS_CountingElements, Zenon
<1>2. PICK f \in [1..Cardinality(S) -> S] :
             \A i, j \in 1..Cardinality(S) : f[i] = f[j] => i = j
  BY <1>1 DEF ExistsBijection, Bijection, Injection, IsInjective
<1>3. \E h \in [1..Cardinality(S) -> S] : IsInjective(h)
  BY <1>2 DEF IsInjective
<1>4. SetToSeq(S) \in [1..Cardinality(S) -> S] /\ IsInjective(SetToSeq(S))
  BY <1>3 DEF SetToSeq
<1> DEFINE n == Cardinality(S)
           q == SetToSeq(S)
<1>5. IsFiniteSet(1..n) /\ Cardinality(1..n) = n
  <2> HIDE DEF n
  <2>1. n \in Nat
    BY <1>1 DEF n
  <2> QED BY <2>1, FS_Interval
<1>6. q \in Injection(1..n, S)
  BY <1>4 DEF Injection, IsInjective
<1>7. q \in Surjection(1..n, S)
  BY <1>5, <1>6, FS_Injection
<1> QED BY <1>1, <1>4, <1>7 DEF Surjection

LEMMA FlattenList ==
  ASSUME NEW T, NEW n \in Nat, NEW ss \in [1..n -> Seq(T)]
  PROVE  FlattenSeq(ss) \in Seq(T)
<1>1. ss \in Seq(Seq(T))
  OBVIOUS
<1> QED BY <1>1, FlattenType

LEMMA FiniteSets ==
  ASSUME NEW d \in Tables
  PROVE  /\ IsFiniteSet(d.cos) /\ d.cos \subseteq COs
         /\ \A c : IsFiniteSet(GroupsOf(d, c)) /\ GroupsOf(d, c) \subseteq Subs
         /\ \A g \in Groups : IsFiniteSet(d.member[g]) /\ d.member[g] \subseteq Users
<1>1. IsFiniteSet(Users) /\ IsFiniteSet(Groups) /\ Groups = COs \cup Subs
  BY ProvisionAssumption
<1>2. d.cos \subseteq COs /\ d.subs \subseteq Subs /\ d.member \in [Groups -> SUBSET Users]
  BY DEF Tables
<1>3. /\ d.cos \subseteq Groups
      /\ \A c : GroupsOf(d, c) \subseteq Groups /\ GroupsOf(d, c) \subseteq Subs
      /\ \A g \in Groups : d.member[g] \subseteq Users
  BY <1>1, <1>2 DEF GroupsOf
<1>4. \A S : S \subseteq Groups => IsFiniteSet(S)
  BY <1>1, FS_Subset
<1>5. \A S : S \subseteq Users => IsFiniteSet(S)
  BY <1>1, FS_Subset
<1> QED BY <1>2, <1>3, <1>4, <1>5

LEMMA OneStep ==
  /\ \A g \in Groups : Provision(g) \in Seq(TaskSteps)
  /\ \A g \in Groups : Drop(g) \in Seq(TaskSteps)
  /\ \A u \in Args : <<Step("dropUser", u)>> \in Seq(TaskSteps)
<1>1. ASSUME NEW g \in Groups
      PROVE  Step("provisionGroup", g) \in TaskSteps
  <2>1. g \in Args
    BY DEF Args
  <2>2. Step("provisionGroup", g) \in [do : OnGroups \cup OnUsers \cup ToDelete, x : Args]
    BY <2>1 DEF Step, OnGroups
  <2> QED BY <2>2 DEF TaskSteps, Steps, Step, OnUsers
<1>2. ASSUME NEW g \in Args, NEW do \in {"dropCollaboration", "dropGroup", "dropUser"},
             do = "dropCollaboration" => g \in COs
      PROVE  Step(do, g) \in TaskSteps
  <2>1. do \in ToDelete /\ do \notin OnGroups /\ do \notin OnUsers
    BY DEF ToDelete, OnGroups, OnUsers
  <2>2. Step(do, g) \in [do : OnGroups \cup OnUsers \cup ToDelete, x : Args]
    BY <2>1 DEF Step
  <2> QED BY <1>2, <2>1, <2>2 DEF TaskSteps, Steps, Step, OnUsers, OnGroups
<1>3. \A s \in TaskSteps : <<s>> \in Seq(TaskSteps)
  OBVIOUS
<1>4. ASSUME NEW g \in Groups PROVE Provision(g) \in Seq(TaskSteps)
  BY <1>1, <1>3 DEF Provision
<1>5. ASSUME NEW g \in Groups PROVE Drop(g) \in Seq(TaskSteps)
  <2>1. g \in Args
    BY DEF Args
  <2>2. CASE g \in COs
    BY <2>1, <2>2, <1>2, <1>3 DEF Drop
  <2>3. CASE g \notin COs
    BY <2>1, <2>3, <1>2, <1>3 DEF Drop
  <2> QED BY <2>2, <2>3
<1>6. ASSUME NEW u \in Args PROVE <<Step("dropUser", u)>> \in Seq(TaskSteps)
  BY <1>2, <1>3
<1> QED BY <1>4, <1>5, <1>6

LEMMA AllGroups ==
  ASSUME NEW d \in Tables, NEW c \in COs
  PROVE  /\ GroupsThenCo(d, c, Provision) \in Seq(TaskSteps)
         /\ GroupsThenCo(d, c, Drop) \in Seq(TaskSteps)
         /\ CoThenGroups(d, c, Provision) \in Seq(TaskSteps)
         /\ EachOf(GroupsOf(d, c), Drop) \in Seq(TaskSteps)
<1> DEFINE S == GroupsOf(d, c)
           n == Cardinality(S)
<1>1. n \in Nat /\ SetToSeq(S) \in [1..n -> S] /\ S \subseteq Groups /\ c \in Groups
  BY FiniteSets, ListOfSet, ProvisionAssumption
<1> DEFINE ps == [i \in 1..n |-> Provision(SetToSeq(S)[i])]
           ds == [i \in 1..n |-> Drop(SetToSeq(S)[i])]
<1>2. ps \in [1..n -> Seq(TaskSteps)] /\ ds \in [1..n -> Seq(TaskSteps)]
  <2> HIDE DEF n, S
  <2> QED BY <1>1, OneStep
<1>3. FlattenSeq(ps) \in Seq(TaskSteps) /\ FlattenSeq(ds) \in Seq(TaskSteps)
  <2> HIDE DEF n, S, ps, ds
  <2> QED BY <1>1, <1>2, FlattenList
<1>4. EachOf(S, Provision) = FlattenSeq(ps) /\ EachOf(S, Drop) = FlattenSeq(ds)
  BY Zenon DEF EachOf
<1>5. Provision(c) \in Seq(TaskSteps) /\ Drop(c) \in Seq(TaskSteps)
  BY <1>1, OneStep
<1> HIDE DEF ps, ds
<1>6. /\ FlattenSeq(ps) \o Provision(c) \in Seq(TaskSteps)
      /\ FlattenSeq(ds) \o Drop(c) \in Seq(TaskSteps)
      /\ Provision(c) \o FlattenSeq(ps) \in Seq(TaskSteps)
  BY <1>3, <1>5
<1> QED BY <1>3, <1>4, <1>6, Zenon DEF GroupsThenCo, CoThenGroups

LEMMA AllCollaborations ==
  ASSUME NEW d \in Tables, NEW S, S \subseteq d.cos
  PROVE  /\ EachOf(S, LAMBDA c : GroupsThenCo(d, c, Provision)) \in Seq(TaskSteps)
         /\ EachOf(S, LAMBDA c : GroupsThenCo(d, c, Drop)) \in Seq(TaskSteps)
         /\ EachOf(S, LAMBDA c : CoThenGroups(d, c, Provision)) \in Seq(TaskSteps)
<1> DEFINE n == Cardinality(S)
           s == SetToSeq(S)
<1>1. IsFiniteSet(d.cos) /\ d.cos \subseteq COs
  BY FiniteSets
<1>2. n \in Nat /\ s \in [1..n -> S]
  BY <1>1, FS_Subset, ListOfSet
<1>3. \A i \in 1..n : s[i] \in COs
  BY <1>1, <1>2
<1> DEFINE ps == [i \in 1..n |-> GroupsThenCo(d, s[i], Provision)]
           ds == [i \in 1..n |-> GroupsThenCo(d, s[i], Drop)]
           cs == [i \in 1..n |-> CoThenGroups(d, s[i], Provision)]
<1>4. ASSUME NEW i \in 1..n
      PROVE  /\ GroupsThenCo(d, s[i], Provision) \in Seq(TaskSteps)
             /\ GroupsThenCo(d, s[i], Drop) \in Seq(TaskSteps)
             /\ CoThenGroups(d, s[i], Provision) \in Seq(TaskSteps)
  <2> HIDE DEF n, s
  <2> QED BY <1>3, AllGroups, Zenon
<1>5. /\ ps \in [1..n -> Seq(TaskSteps)]
      /\ ds \in [1..n -> Seq(TaskSteps)]
      /\ cs \in [1..n -> Seq(TaskSteps)]
  <2> HIDE DEF n, s
  <2> QED BY <1>4, Zenon
<1>6. /\ FlattenSeq(ps) \in Seq(TaskSteps)
      /\ FlattenSeq(ds) \in Seq(TaskSteps)
      /\ FlattenSeq(cs) \in Seq(TaskSteps)
  <2> HIDE DEF n, s, ps, ds, cs
  <2> QED BY <1>2, <1>5, FlattenList
<1> QED BY <1>6, Zenon DEF EachOf

LEMMA OrganisationSteps ==
  ASSUME NEW d \in Tables
  PROVE  OrganisationDeleted(d) \in Seq(TaskSteps)
<1> DEFINE n == Cardinality(d.cos)
           s == SetToSeq(d.cos)
           reached(i) == d.org = "connected" \/ \E j \in 1..i : s[j] \in d.direct
           ds == [i \in 1..Len(s) |-> IF reached(i) THEN GroupsThenCo(d, s[i], Drop) ELSE <<>>]
<1>1. IsFiniteSet(d.cos) /\ d.cos \subseteq COs
  BY FiniteSets
<1>2. n \in Nat /\ s \in [1..n -> d.cos]
  BY <1>1, ListOfSet
<1>3. Len(s) = n /\ \A i \in 1..n : s[i] \in COs
  BY <1>1, <1>2
<1>4. ASSUME NEW i \in 1..n
      PROVE  GroupsThenCo(d, s[i], Drop) \in Seq(TaskSteps)
  <2> HIDE DEF n, s
  <2> QED BY <1>3, AllGroups, Zenon
<1>5. << >> \in Seq(TaskSteps)
  OBVIOUS
<1>6. ds \in [1..n -> Seq(TaskSteps)]
  <2> HIDE DEF n, s, reached
  <2> QED BY <1>3, <1>4, <1>5, Zenon
<1>7. FlattenSeq(ds) \in Seq(TaskSteps)
  <2> HIDE DEF n, s, ds
  <2> QED BY <1>2, <1>6, FlattenList
<1> QED BY <1>7, Zenon DEF OrganisationDeleted

LEMMA CascadeSteps ==
  ASSUME NEW d \in Tables, NEW c \in COs
  PROVE  Cascade(d, c) \in Seq(TaskSteps)
<1> DEFINE S == {u \in d.member[c] : ~HasUserServiceAccess(d, u, c)}
           n == Cardinality(S)
           s == SetToSeq(S)
           us == [i \in 1..n |-> <<Step("dropUser", s[i])>>]
<1>1. IsFiniteSet(d.member[c]) /\ d.member[c] \subseteq Users
  BY FiniteSets, ProvisionAssumption
<1>2. IsFiniteSet(S) /\ S \subseteq Users
  BY <1>1, FS_Subset
<1> HIDE DEF S
<1>3. n \in Nat /\ s \in [1..n -> S]
  BY <1>2, ListOfSet
<1>4. \A i \in 1..n : s[i] \in Args
  BY <1>2, <1>3 DEF Args
<1>5. us \in [1..n -> Seq(TaskSteps)]
  <2> HIDE DEF n, s
  <2> QED BY <1>4, OneStep, Zenon
<1>6. FlattenSeq(us) \in Seq(TaskSteps)
  <2> HIDE DEF n, us
  <2> QED BY <1>3, <1>5, FlattenList
<1>7. EachOf(S, LAMBDA u : <<Step("dropUser", u)>>) = FlattenSeq(us)
  BY Zenon DEF EachOf
<1>8. EachOf(GroupsOf(d, c), Drop) \in Seq(TaskSteps)
  BY AllGroups
<1>9. Cascade(d, c) = EachOf(GroupsOf(d, c), Drop) \o FlattenSeq(us)
  BY <1>7, Zenon DEF Cascade, S
<1> DEFINE gs == EachOf(GroupsOf(d, c), Drop)
<1> HIDE DEF us, gs
<1>10. gs \in Seq(TaskSteps) /\ Cascade(d, c) = gs \o FlattenSeq(us)
  BY <1>8, <1>9, Zenon DEF gs
<1> QED BY <1>6, <1>10

LEMMA CallsType ==
  ASSUME NEW d \in Tables, NEW t \in Tasks
  PROVE  Calls(d, t) \in Seq(TaskSteps)
<1>1. d.cos \subseteq COs /\ d.subs \subseteq Groups /\ d.users \subseteq Users /\ t.x \in Args
  BY ProvisionAssumption DEF Tables, Tasks
<1> DEFINE Gone1 == {c \in t.cos \cap d.cos : Connected(d, c)}
           own == EachOf(Gone1, LAMBDA c : CoThenGroups(d, c, Provision))
           drop == <<Step("dropUser", t.x)>>
<1>2. own \in Seq(TaskSteps) /\ drop \in Seq(TaskSteps)
  <2>1. Gone1 \subseteq d.cos
    OBVIOUS
  <2> HIDE DEF Gone1
  <2> QED BY <2>1, <1>1, AllCollaborations, OneStep, Zenon
<1>3. drop \o own \in Seq(TaskSteps)
  <2> HIDE DEF own, drop
  <2> QED BY <1>2
<1>4. \A u \in Users : <<Step("provisionUser", u)>> \in Seq(TaskSteps)
  <2>1. ASSUME NEW u \in Users PROVE Step("provisionUser", u) \in TaskSteps
    <3>1. u \in Args
      BY DEF Args
    <3>2. Step("provisionUser", u) \in [do : OnGroups \cup OnUsers \cup ToDelete, x : Args]
      BY <3>1 DEF Step, OnUsers
    <3> QED BY <3>2 DEF TaskSteps, Steps, Step, OnGroups
  <2>2. \A s \in TaskSteps : <<s>> \in Seq(TaskSteps)
    OBVIOUS
  <2> QED BY <2>1, <2>2
<1>5. << >> \in Seq(TaskSteps)
  OBVIOUS
<1> DEFINE a1 == GroupsThenCo(d, t.x, Provision)
           a2 == Provision(t.x)
           a3 == <<Step("provisionUser", t.x)>>
           a4 == drop \o own
           a5 == GroupsThenCo(d, t.x, Drop)
           a6 == EachOf(d.cos, LAMBDA c : GroupsThenCo(d, c, Provision))
           a7 == EachOf(d.cos, LAMBDA c : GroupsThenCo(d, c, Drop))
           a8 == Drop(t.x)
           a9 == OrganisationDeleted(d)
<1>6. Calls(d, t) =
        CASE t.kind = "collaboration" /\ t.x \in d.cos /\ Connected(d, t.x) -> a1
          [] t.kind = "group" /\ t.x \in d.subs /\ Connected(d, Parent[t.x]) -> a2
          [] t.kind = "user" /\ t.x \in d.users
               /\ \E c \in CollaborationsOf(d, t.x) : Connected(d, c) -> a3
          [] t.kind = "userDeleted" /\ \E c \in t.cos \cap d.cos : Connected(d, c) -> a4
          [] t.kind = "serviceAdded" /\ t.x \in d.cos -> a1
          [] t.kind = "serviceDeleted" /\ t.x \in d.cos -> a5
          [] t.kind = "orgServiceAdded" -> a6
          [] t.kind = "orgServiceDeleted" -> a7
          [] t.kind = "groupDeleted" /\ t.x \in d.subs /\ Connected(d, Parent[t.x]) -> a8
          [] t.kind = "collaborationDeleted" /\ t.x \in d.cos /\ Connected(d, t.x) -> a5
          [] t.kind = "organisationDeleted" -> a9
          [] OTHER -> << >>
  BY Zenon DEF Calls
<1>7. t.x \in d.cos => a1 \in Seq(TaskSteps) /\ a5 \in Seq(TaskSteps)
  BY <1>1, AllGroups, Zenon
<1>8. t.x \in d.subs => a2 \in Seq(TaskSteps) /\ a8 \in Seq(TaskSteps)
  BY <1>1, OneStep, Zenon
<1>9. t.x \in d.users => a3 \in Seq(TaskSteps)
  BY <1>1, <1>4, Zenon
<1>10. a4 \in Seq(TaskSteps)
  BY <1>3, Zenon
<1>11. a6 \in Seq(TaskSteps) /\ a7 \in Seq(TaskSteps)
  BY AllCollaborations, Zenon
<1>12. a9 \in Seq(TaskSteps)
  BY OrganisationSteps, Zenon
<1> DEFINE Q == Seq(TaskSteps)
<1> HIDE DEF a1, a2, a3, a4, a5, a6, a7, a8, a9, Q
<1>13. /\ t.x \in d.cos => a1 \in Q /\ a5 \in Q
       /\ t.x \in d.subs => a2 \in Q /\ a8 \in Q
       /\ t.x \in d.users => a3 \in Q
       /\ a4 \in Q /\ a6 \in Q /\ a7 \in Q /\ a9 \in Q /\ << >> \in Q
  BY <1>5, <1>7, <1>8, <1>9, <1>10, <1>11, <1>12, Zenon DEF Q
<1>14. Calls(d, t) \in Q
  BY <1>6, <1>13, SMT
<1> QED BY <1>14, Zenon DEF Q

-----------------------------------------------------------------------------
(* The ids that are handed out stay with their users.                      *)
Older(r, q) == \A i \in Ids : r[i] # Unused =>
                 q[i] # Unused /\ (q[i] # Gone => r[i] # Gone /\ q[i].ext = r[i].ext)

LEMMA OlderIsOf ==
  ASSUME NEW r, NEW q, Older(r, q), NEW i \in Ids, NEW S, NEW T, S \subseteq T, IsOf(r, i, S)
  PROVE  IsOf(q, i, T)
BY DEF Older, IsOf

LEMMA SoundStays ==
  ASSUME NEW w \in Threads, NEW r, NEW q, Older(r, q), NEW e, NEW f,
         \A g \in Groups : e[g] \subseteq f[g], Sound(w, r, e)
  PROVE  Sound(w, q, f)
<1>1. /\ w.steps \in Seq(Steps) /\ w.ids \subseteq Ids /\ w.id \in Ids \cup {None}
      /\ w.snap \in Tables
  BY DEF Threads
<1>2. WereMembers(w.snap, f)
  BY DEF Sound, WereMembers
<1>3. Collects(w, q, f)
  <2>1. SUFFICES ASSUME NEW k \in 1..Len(w.steps), w.steps[k].do = "writeGroup"
                 PROVE  /\ \A j \in 1..(k - 1) : /\ w.steps[j].do \in {"member", "postMember"}
                                                 /\ w.steps[j].x \in f[w.steps[k].x]
                        /\ \A i \in w.ids : IsOf(q, i, f[w.steps[k].x])
    BY DEF Collects
  <2>2. w.steps[k] \in Steps
    BY <1>1
  <2>3. w.steps[k].x \in Groups
    BY <2>1, <2>2 DEF Steps, OnGroups
  <2> DEFINE g == w.steps[k].x
  <2>4. e[g] \subseteq f[g]
    BY <2>3
  <2>5. /\ \A j \in 1..(k - 1) : /\ w.steps[j].do \in {"member", "postMember"}
                                 /\ w.steps[j].x \in e[g]
        /\ \A i \in w.ids : IsOf(r, i, e[g])
    BY <2>1 DEF Sound, Collects
  <2> HIDE DEF g
  <2>6. \A i \in w.ids : IsOf(q, i, f[g])
    BY <1>1, <2>4, <2>5, OlderIsOf
  <2>7. \A j \in 1..(k - 1) : /\ w.steps[j].do \in {"member", "postMember"}
                              /\ w.steps[j].x \in f[g]
    BY <2>4, <2>5
  <2> QED BY <2>6, <2>7 DEF g
<1>4. Replaces(w, q)
  <2>1. SUFFICES ASSUME NEW k \in 1..Len(w.steps), w.steps[k].do = "writeUser"
                 PROVE  k = 1 /\ (w.id # None => IsOf(q, w.id, {w.steps[k].x}))
    BY DEF Replaces
  <2>2. k = 1 /\ (w.id # None => IsOf(r, w.id, {w.steps[k].x}))
    BY <2>1 DEF Sound, Replaces
  <2>3. w.id # None => w.id \in Ids
    BY <1>1
  <2> QED BY <2>2, <2>3, OlderIsOf
<1> QED BY <1>2, <1>3, <1>4 DEF Sound

LEMMA ListsStay ==
  ASSUME NEW r, NEW q, Older(r, q), NEW s \in RemoteGroups, NEW e, NEW f,
         \A g \in Groups : e[g] \subseteq f[g], ListsMembers(r, s, e)
  PROVE  ListsMembers(q, s, f)
<1> SUFFICES ASSUME NEW i \in Live(s), NEW m \in s[i].members
             PROVE  m \in Ids /\ IsOf(q, m, f[s[i].ext])
  BY DEF ListsMembers
<1>1. s[i].ext \in Groups
  BY DEF Live, RemoteGroups, GroupObject
<1>2. m \in Ids /\ IsOf(r, m, e[s[i].ext])
  BY DEF ListsMembers
<1> QED BY <1>1, <1>2, OlderIsOf

LEMMA OlderSame == \A r : Older(r, r)
BY DEF Older

(* What has neither group nor user to write.                               *)
PlainSteps == {s \in Steps : s.do \notin {"writeGroup", "writeUser"}}

LEMMA PlainIsSound ==
  ASSUME NEW v \in Threads, NEW r, NEW e, WereMembers(v.snap, e), v.steps \in Seq(PlainSteps)
  PROVE  Sound(v, r, e)
<1>1. \A k \in 1..Len(v.steps) : v.steps[k] \in PlainSteps
  OBVIOUS
<1>2. \A k \in 1..Len(v.steps) : v.steps[k].do \notin {"writeGroup", "writeUser"}
  BY <1>1 DEF PlainSteps
<1> QED BY <1>2 DEF Sound, Collects, Replaces

(* After a step that is not about a member of a list, nothing is left to   *)
(* write.                                                                  *)
LEMMA RestIsPlain ==
  ASSUME NEW w \in Threads, NEW r, NEW e, Sound(w, r, e), w.steps # << >>,
         Head(w.steps).do \notin {"member", "postMember"}
  PROVE  Tail(w.steps) \in Seq(PlainSteps)
<1> DEFINE s == w.steps
           t == Tail(s)
<1>1. s \in Seq(Steps) /\ s # << >>
  BY DEF Threads
<1> HIDE DEF s
<1>2. /\ t \in Seq(Steps) /\ Len(t) = Len(s) - 1
      /\ \A k \in 1..Len(t) : t[k] = s[k + 1] /\ k + 1 \in 1..Len(s)
  BY <1>1
<1>3. 1 \in 1..Len(s) /\ s[1].do \notin {"member", "postMember"}
  BY <1>1 DEF s
<1>4. ASSUME NEW k \in 1..Len(t) PROVE t[k] \in PlainSteps
  <2>1. /\ t[k] = s[k + 1] /\ k + 1 \in 1..Len(s) /\ t[k] \in Steps
        /\ 1 \in 1..((k + 1) - 1) /\ k + 1 # 1
    BY <1>1, <1>2
  <2> DEFINE n == k + 1
  <2>2. n \in 1..Len(s) /\ 1 \in 1..(n - 1) /\ n # 1 /\ t[k] = s[n]
    BY <2>1
  <2> HIDE DEF n
  <2>3. s[n].do # "writeGroup"
    BY <2>2, <1>3 DEF Sound, Collects, s
  <2>4. s[n].do # "writeUser"
    BY <2>2 DEF Sound, Replaces, s
  <2> QED BY <2>1, <2>2, <2>3, <2>4 DEF PlainSteps
<1>5. t \in Seq(PlainSteps)
  <2> HIDE DEF t
  <2> QED BY <1>2, <1>4
<1> QED BY <1>5 DEF s

(* A step is done; what it adds to the list is the member it was about.    *)
LEMMA NextStep ==
  ASSUME NEW w \in Threads, NEW r, NEW e, Sound(w, r, e), w.steps # << >>,
         NEW q, Older(r, q), NEW v \in Threads, v.snap = w.snap, v.steps = Tail(w.steps),
         \A i \in v.ids : \/ i \in w.ids
                          \/ /\ Head(w.steps).do \in {"member", "postMember"}
                             /\ IsOf(q, i, {Head(w.steps).x})
  PROVE  Sound(v, q, e)
<1> DEFINE s == w.steps
           t == v.steps
<1>1. s \in Seq(Steps) /\ s # << >> /\ t = Tail(s) /\ w.ids \subseteq Ids /\ v.ids \subseteq Ids
  BY DEF Threads
<1>2. Sound(w, q, e)
  BY SoundStays
<1>3. Len(t) = Len(s) - 1 /\ Head(s) = s[1] /\ Len(s) \in Nat
      /\ \A k \in 1..Len(t) : t[k] = s[k + 1] /\ k + 1 \in 1..Len(s)
  <2> HIDE DEF s, t
  <2> QED BY <1>1
<1> HIDE DEF s, t
<1>4. ASSUME NEW k \in 1..Len(t), t[k].do = "writeGroup"
      PROVE  /\ \A j \in 1..(k - 1) : /\ t[j].do \in {"member", "postMember"}
                                      /\ t[j].x \in e[t[k].x]
             /\ \A i \in v.ids : IsOf(q, i, e[t[k].x])
  <2> DEFINE n == k + 1
  <2>1. n \in 1..Len(s) /\ t[k] = s[n] /\ 1 \in 1..(n - 1) /\ n - 1 = k
    BY <1>3
  <2> HIDE DEF n
  <2>2. /\ \A j \in 1..(n - 1) : s[j].do \in {"member", "postMember"} /\ s[j].x \in e[s[n].x]
        /\ \A i \in w.ids : IsOf(q, i, e[s[n].x])
    BY <1>2, <1>4, <2>1 DEF Sound, Collects, s
  <2>3. ASSUME NEW j \in 1..(k - 1)
        PROVE  t[j].do \in {"member", "postMember"} /\ t[j].x \in e[t[k].x]
    <3>0. j \in 1..Len(t) /\ j + 1 \in 1..(n - 1)
      <4>1. k \in Nat /\ k <= Len(t) /\ Len(t) \in Nat
        BY <1>3
      <4> QED BY <4>1, <2>1
    <3>1. t[j] = s[j + 1] /\ j + 1 \in 1..(n - 1)
      BY <1>3, <3>0
    <3> QED BY <3>1, <2>1, <2>2
  <2>4. ASSUME NEW i \in v.ids PROVE IsOf(q, i, e[t[k].x])
    <3>1. CASE i \in w.ids
      BY <3>1, <2>1, <2>2
    <3>2. CASE IsOf(q, i, {Head(w.steps).x})
      <4>1. s[1].x \in e[s[n].x]
        BY <2>1, <2>2
      <4>2. IsOf(q, i, {s[1].x})
        BY <3>2, <1>3 DEF s
      <4> QED BY <4>1, <4>2, <2>1 DEF IsOf
    <3> QED BY <3>1, <3>2
  <2> QED BY <2>3, <2>4
<1>5. \A k \in 1..Len(t) : t[k].do # "writeUser"
  <2> SUFFICES ASSUME NEW k \in 1..Len(t), t[k].do = "writeUser" PROVE FALSE
    OBVIOUS
  <2>1. k + 1 \in 1..Len(s) /\ s[k + 1].do = "writeUser" /\ k + 1 # 1
    BY <1>3
  <2> QED BY <2>1 DEF Sound, Replaces, s
<1>6. Collects(v, q, e) /\ Replaces(v, q)
  BY <1>4, <1>5 DEF Collects, Replaces, t
<1>7. WereMembers(v.snap, e)
  BY DEF Sound
<1> QED BY <1>6, <1>7 DEF Sound

-----------------------------------------------------------------------------
(* A thread goes on, and what it changes elsewhere is what may change.     *)
LEMMA ThreadKeeps ==
  ASSUME ProvisionInv, NEW a \in Actors, NEW v, work' = [work EXCEPT ![a] = v],
         v \in Threads, Older(rUsers, rUsers'), Sound(v, rUsers', ever),
         rUsers' \in RemoteUsers, rGroups' \in RemoteGroups,
         ListsMembers(rUsers', rGroups', ever),
         tables' \in Tables, WereMembers(tables', ever),
         queue' \in Seq(Tasks), errors' \in Nat, UNCHANGED <<load, ever, ops>>
  PROVE  ProvisionInv'
<1>1. work \in [Actors -> Threads] /\ ever' = ever
  BY DEF ProvisionInv, ProvisionTypeOK
<1>2. work' \in [Actors -> Threads]
  BY <1>1
<1>3. ProvisionTypeOK'
  BY <1>1, <1>2 DEF ProvisionInv, ProvisionTypeOK
<1>4. ASSUME NEW w \in Actors PROVE Sound(work'[w], rUsers', ever')
  <2>1. CASE w = a
    BY <2>1, <1>1
  <2>2. CASE w # a
    <3>1. work'[w] = work[w] /\ work[w] \in Threads
      BY <2>2, <1>1
    <3>2. Sound(work[w], rUsers, ever)
      BY DEF ProvisionInv
    <3>3. Sound(work[w], rUsers', ever)
      BY <3>1, <3>2, SoundStays
    <3> QED BY <3>1, <3>3, <1>1
  <2> QED BY <2>1, <2>2
<1> QED BY <1>1, <1>3, <1>4 DEF ProvisionInv

LEMMA IdleIsSound ==
  ASSUME NEW t \in Tasks, NEW r, NEW e \in [Groups -> SUBSET Users]
  PROVE  Started(t) \in Threads /\ Sound(Started(t), r, e)
<1> DEFINE v == Started(t)
<1>1. EmptyTables \in Tables
  <2>1. (CHOOSE x \in Attrs : TRUE) \in Attrs
    BY RemoteAssumption
  <2> QED BY <2>1 DEF EmptyTables, Tables
<1>2. v.task = t /\ v.begun = FALSE /\ v.snap = EmptyTables /\ v.steps = << >>
      /\ v.id = None /\ v.ids = {}
  BY DEF Started
<1>3. << >> \in Seq(Steps) /\ << >> \in Seq(PlainSteps)
  OBVIOUS
<1>4. v \in Threads
  BY <1>1, <1>3 DEF Started, Threads
<1>5. WereMembers(v.snap, e)
  BY <1>2 DEF WereMembers, EmptyTables
<1> HIDE DEF v
<1>6. Sound(v, r, e)
  BY <1>2, <1>3, <1>4, <1>5, PlainIsSound
<1> QED BY <1>4, <1>6 DEF v

LEMMA NoTaskType == NoTask \in Tasks
BY DEF NoTask, Task, Tasks, TaskKinds, Args

LEMMA TakeKeeps ==
  ASSUME ProvisionInv, NEW w \in Workers, Take(w)
  PROVE  ProvisionInv'
<1>1. /\ queue \in Seq(Tasks) /\ queue # << >> /\ ever \in [Groups -> SUBSET Users]
      /\ rUsers' = rUsers /\ rGroups' = rGroups /\ tables' = tables /\ errors' = errors
      /\ UNCHANGED <<load, ever, ops>> /\ queue' = Tail(queue)
  BY DEF ProvisionInv, ProvisionTypeOK, Take
<1> DEFINE v == Started(Head(queue))
<1>2. Head(queue) \in Tasks /\ Tail(queue) \in Seq(Tasks)
  BY <1>1
<1>3. work' = [work EXCEPT ![w] = v] /\ w \in Actors
  BY DEF Take, Actors
<1>4. v \in Threads /\ Sound(v, rUsers', ever)
  BY <1>1, <1>2, IdleIsSound
<1>5. /\ rUsers \in RemoteUsers /\ rGroups \in RemoteGroups /\ errors \in Nat
      /\ ListsMembers(rUsers, rGroups, ever) /\ tables \in Tables /\ WereMembers(tables, ever)
  BY DEF ProvisionInv, ProvisionTypeOK
<1> HIDE DEF v
<1> QED BY <1>1, <1>2, <1>3, <1>4, <1>5, OlderSame, ThreadKeeps

(* A step that leaves the remote server alone.                             *)
LEMMA LocalKeeps ==
  ASSUME ProvisionInv, NEW a \in Actors, NEW v, Local(a, v), UNCHANGED <<rUsers, rGroups>>,
         errors' \in Nat, v \in Threads, Sound(v, rUsers, ever)
  PROVE  ProvisionInv'
<1>1. /\ work' = [work EXCEPT ![a] = v] /\ tables' = tables /\ queue' = queue
      /\ UNCHANGED <<load, ever, ops>>
  BY DEF Local
<1>2. /\ rUsers \in RemoteUsers /\ rGroups \in RemoteGroups /\ queue \in Seq(Tasks)
      /\ ListsMembers(rUsers, rGroups, ever) /\ tables \in Tables /\ WereMembers(tables, ever)
  BY DEF ProvisionInv, ProvisionTypeOK
<1> QED BY <1>1, <1>2, OlderSame, ThreadKeeps

LEMMA AnswerKeeps ==
  ASSUME ProvisionInv, NEW ok, AnswerCall(ok)
  PROVE  errors' \in Nat
BY DEF ProvisionInv, ProvisionTypeOK, AnswerCall

LEMMA ThreadFacts ==
  ASSUME ProvisionInv, NEW a \in Actors
  PROVE  /\ work[a] \in Threads /\ Sound(work[a], rUsers, ever)
         /\ WereMembers(work[a].snap, ever)
         /\ work[a].task \in Tasks /\ work[a].snap \in Tables /\ work[a].steps \in Seq(Steps)
         /\ work[a].id \in Ids \cup {None} /\ work[a].ids \subseteq Ids
BY DEF ProvisionInv, ProvisionTypeOK, Threads, Sound

LEMMA BeginKeeps ==
  ASSUME ProvisionInv, NEW a \in Actors, Begin(a)
  PROVE  ProvisionInv'
<1> DEFINE w == work[a]
           calls == Calls(tables, w.task)
           v == [w EXCEPT !.begun = TRUE, !.snap = tables, !.steps = calls]
<1>1. w \in Threads /\ w.task \in Tasks /\ tables \in Tables /\ WereMembers(tables, ever)
      /\ errors \in Nat
  BY ThreadFacts DEF ProvisionInv, ProvisionTypeOK
<1>2. calls \in Seq(TaskSteps)
  BY <1>1, CallsType
<1>3. Local(a, v) /\ UNCHANGED <<rUsers, rGroups, errors>>
  BY DEF Begin
<1> HIDE DEF w, calls
<1>4. TaskSteps \subseteq PlainSteps /\ PlainSteps \subseteq Steps
  BY DEF TaskSteps, PlainSteps
<1>5. calls \in Seq(PlainSteps) /\ calls \in Seq(Steps)
  BY <1>2, <1>4
<1>6. v \in Threads /\ v.snap = tables /\ v.steps = calls
  BY <1>1, <1>5 DEF Threads
<1> HIDE DEF v
<1>7. Sound(v, rUsers, ever)
  BY <1>1, <1>5, <1>6, PlainIsSound
<1> QED BY <1>1, <1>3, <1>6, <1>7, LocalKeeps

LEMMA LookupFacts ==
  ASSUME NEW r, NEW x, NEW ok
  PROVE  \/ Lookup(r, x, ok) = None
         \/ /\ Lookup(r, x, ok) \in Ids
            /\ IsOf(r, Lookup(r, x, ok), {x})
<1> DEFINE W == With(r, x)
<1>1. W \subseteq Nat /\ W \subseteq Ids
  BY RemoteAssumption DEF With, Live
<1>2. CASE ~ok \/ W = {}
  BY <1>2 DEF Lookup
<1>3. CASE ok /\ W # {}
  <2>1. \E i \in W : \A j \in W : i <= j
    <3> HIDE DEF W
    <3> QED BY <1>1, <1>3, LeastNumber
  <2> DEFINE i == CHOOSE k \in W : \A j \in W : k <= j
  <2>2. Lookup(r, x, ok) = i
    BY <1>3 DEF Lookup
  <2>3. i \in W
    BY <2>1, Zenon
  <2> HIDE DEF i
  <2>4. i \in Ids /\ IsOf(r, i, {x})
    BY <2>3 DEF With, Live, IsOf
  <2> QED BY <2>2, <2>4
<1> QED BY <1>2, <1>3

LEMMA HeadFacts ==
  ASSUME NEW w \in Threads, w.steps # << >>
  PROVE  /\ Head(w.steps) \in Steps /\ Tail(w.steps) \in Seq(Steps) /\ 1 \in 1..Len(w.steps)
         /\ Head(w.steps) = w.steps[1]
         /\ Head(w.steps).do \in OnGroups => Head(w.steps).x \in Groups
         /\ Head(w.steps).do \in OnUsers => Head(w.steps).x \in Users
         /\ Head(w.steps).do = "dropCollaboration" => Head(w.steps).x \in COs
<1> DEFINE s == w.steps
<1>1. s \in Seq(Steps) /\ s # << >>
  BY DEF Threads
<1> HIDE DEF s
<1>2. Head(s) \in Steps /\ Tail(s) \in Seq(Steps) /\ 1 \in 1..Len(s) /\ Head(s) = s[1]
  BY <1>1
<1> QED BY <1>2 DEF Steps, s

(* A step that is about no member of a list is replaced by plain ones.     *)
LEMMA PlainOnce ==
  ASSUME ProvisionInv, NEW a \in Actors, work[a].steps # << >>,
         Head(work[a].steps).do \notin {"member", "postMember"},
         NEW new \in Seq(PlainSteps), NEW v, Local(a, v), UNCHANGED <<rUsers, rGroups>>,
         errors' \in Nat, v.snap = work[a].snap, v.steps = new \o Tail(work[a].steps),
         v.steps \in Seq(Steps) => v \in Threads
  PROVE  ProvisionInv'
<1> DEFINE rest == Tail(work[a].steps)
<1>1. work[a] \in Threads /\ Sound(work[a], rUsers, ever) /\ WereMembers(work[a].snap, ever)
  BY ThreadFacts
<1>2. rest \in Seq(PlainSteps)
  BY <1>1, RestIsPlain
<1> HIDE DEF rest
<1>3. new \o rest \in Seq(PlainSteps)
  BY <1>2
<1>4. PlainSteps \subseteq Steps
  BY DEF PlainSteps
<1>5. new \o rest \in Seq(Steps)
  BY <1>3, <1>4
<1>6. v \in Threads /\ v.steps \in Seq(PlainSteps)
  BY <1>3, <1>5 DEF rest
<1>7. Sound(v, rUsers, ever)
  BY <1>1, <1>6, PlainIsSound
<1> QED BY <1>6, <1>7, LocalKeeps

LEMMA FindToDeleteKeeps ==
  ASSUME ProvisionInv, NEW a \in Actors, NEW ok, NEW r,
         NEW do \in {"dropUser", "dropGroup", "dropCollaboration"},
         NEW then \in {"deleteUser", "deleteGroup"}, NEW more \in Seq(PlainSteps),
         FindToDelete(a, do, r, then, more, ok)
  PROVE  ProvisionInv'
<1> DEFINE w == work[a]
           i == Lookup(r, Arg(a), ok)
           s == Step(then, Arg(a))
           t == Tail(w.steps)
           st == IF i = None THEN t ELSE <<s>> \o more \o t
           v == [w EXCEPT !.id = i, !.steps = st]
           new == IF i = None THEN << >> ELSE <<s>> \o more
<1>1. w \in Threads /\ w.steps # << >> /\ Head(w.steps).do = do /\ errors' \in Nat
      /\ Local(a, v) /\ UNCHANGED <<rUsers, rGroups>>
  BY ThreadFacts, AnswerKeeps DEF FindToDelete, At, Rest
<1>2. i \in Ids \cup {None}
  BY LookupFacts
<1>3. Arg(a) \in Args /\ t \in Seq(Steps)
  BY <1>1, HeadFacts DEF Arg, Steps
<1>4. s \in PlainSteps
  <2>1. then \in ToDelete /\ then \notin OnGroups /\ then \notin OnUsers
        /\ then # "dropCollaboration"
    BY DEF ToDelete, OnGroups, OnUsers
  <2>2. s \in [do : OnGroups \cup OnUsers \cup ToDelete, x : Args]
    BY <2>1, <1>3 DEF Step
  <2> QED BY <2>1, <2>2 DEF PlainSteps, Steps, Step, OnUsers, OnGroups
<1> HIDE DEF s, t, i
<1>5. <<s>> \o more \in Seq(PlainSteps) /\ << >> \in Seq(PlainSteps)
  BY <1>4
<1>6. new \in Seq(PlainSteps)
  BY <1>5
<1>7. st = new \o t
  <2>1. CASE i = None
    <3>1. << >> \o t = t
      BY <1>3
    <3> QED BY <3>1, <2>1
  <2>2. CASE i # None
    <3> QED BY <2>2, <1>3, <1>5
  <2> QED BY <2>1, <2>2
<1> HIDE DEF st, new
<1>8. v.snap = w.snap /\ v.steps = st /\ (st \in Seq(Steps) => v \in Threads)
  <2> HIDE DEF w
  <2> QED BY <1>1, <1>2 DEF Threads
<1>9. Head(w.steps).do \notin {"member", "postMember"}
  BY <1>1
<1> HIDE DEF v
<1>10. v.steps = new \o Tail(w.steps) /\ (v.steps \in Seq(Steps) => v \in Threads)
  BY <1>7, <1>8 DEF t
<1> QED BY <1>1, <1>6, <1>8, <1>9, <1>10, PlainOnce

LEMMA FindsKeep ==
  ASSUME ProvisionInv, NEW a \in Actors, NEW ok,
         \/ FindUserToDelete(a, ok) \/ FindGroupToDelete(a, ok) \/ FindCollaborationToDelete(a, ok)
  PROVE  ProvisionInv'
<1>1. << >> \in Seq(PlainSteps)
  OBVIOUS
<1>2. CASE FindUserToDelete(a, ok)
  BY <1>1, <1>2, FindToDeleteKeeps DEF FindUserToDelete
<1>3. CASE FindGroupToDelete(a, ok)
  BY <1>1, <1>3, FindToDeleteKeeps DEF FindGroupToDelete
<1>4. CASE FindCollaborationToDelete(a, ok)
  <2>1. work[a].snap \in Tables
    BY ThreadFacts
  <2>2. Arg(a) \in COs
    <3>1. /\ work[a] \in Threads /\ work[a].steps # << >>
          /\ Head(work[a].steps).do = "dropCollaboration"
      BY <1>4, ThreadFacts DEF FindCollaborationToDelete, At
    <3> QED BY <3>1, HeadFacts DEF Arg
  <2>3. Cascade(work[a].snap, Arg(a)) \in Seq(TaskSteps)
    BY <2>1, <2>2, CascadeSteps
  <2>4. TaskSteps \subseteq PlainSteps
    BY DEF TaskSteps, PlainSteps
  <2>5. Cascade(work[a].snap, Arg(a)) \in Seq(PlainSteps)
    BY <2>3, <2>4
  <2> QED BY <2>5, <1>4, FindToDeleteKeeps DEF FindCollaborationToDelete
<1> QED BY <1>2, <1>3, <1>4

LEMMA FindUserKeeps ==
  ASSUME ProvisionInv, NEW a \in Actors, NEW ok, FindUser(a, ok)
  PROVE  ProvisionInv'
<1> DEFINE w == work[a]
           i == Lookup(rUsers, Arg(a), ok)
           s == Step("writeUser", Arg(a))
           t == Tail(w.steps)
           st == <<s>> \o t
           v == [w EXCEPT !.id = i, !.steps = st]
<1>1. /\ w \in Threads /\ w.steps # << >> /\ Head(w.steps).do = "provisionUser"
      /\ errors' \in Nat /\ Local(a, v) /\ UNCHANGED <<rUsers, rGroups>>
      /\ Sound(w, rUsers, ever)
  BY ThreadFacts, AnswerKeeps DEF FindUser, At, Rest
<1>2. i \in Ids \cup {None} /\ (i # None => IsOf(rUsers, i, {Arg(a)}))
  BY LookupFacts
<1>3. Arg(a) \in Users /\ t \in Seq(PlainSteps)
  BY <1>1, HeadFacts, RestIsPlain DEF Arg, OnUsers
<1>4. s \in Steps /\ s.do = "writeUser" /\ s.x = Arg(a)
  <2>1. s \in [do : OnGroups \cup OnUsers \cup ToDelete, x : Args]
    BY <1>3 DEF Step, OnUsers, Args
  <2> QED BY <2>1, <1>3 DEF Steps, Step, OnGroups
<1> HIDE DEF s, t, i
<1>5. PlainSteps \subseteq Steps
  BY DEF PlainSteps
<1>6. st \in Seq(Steps) /\ st[1] = s /\ \A k \in 1..Len(st) : k # 1 => st[k] \in PlainSteps
  <2>1. t \in Seq(Steps)
    BY <1>3, <1>5
  <2>2. st \in Seq(Steps) /\ Len(st) = Len(t) + 1 /\ Len(t) \in Nat /\ st[1] = s
    BY <2>1, <1>4
  <2>3. ASSUME NEW k \in 1..Len(st), k # 1 PROVE st[k] \in PlainSteps
    <3>1. k - 1 \in 1..Len(t) /\ st[k] = t[k - 1]
      BY <2>1, <2>2, <2>3, <1>4
    <3> QED BY <3>1, <1>3
  <2> QED BY <2>2, <2>3
<1> HIDE DEF st
<1>7. v.snap = w.snap /\ v.steps = st /\ v.id = i /\ v \in Threads
  <2> HIDE DEF w
  <2> QED BY <1>1, <1>2, <1>6 DEF Threads
<1> HIDE DEF v
<1>8. \A k \in 1..Len(st) : k # 1 => st[k].do \notin {"writeGroup", "writeUser"}
  BY <1>6 DEF PlainSteps
<1>9. Collects(v, rUsers, ever)
  BY <1>4, <1>6, <1>7, <1>8 DEF Collects
<1>10. Replaces(v, rUsers)
  BY <1>2, <1>4, <1>6, <1>7, <1>8 DEF Replaces
<1>11. Sound(v, rUsers, ever)
  BY <1>1, <1>7, <1>9, <1>10 DEF Sound
<1> QED BY <1>1, <1>7, <1>11, LocalKeeps

(* The list of a group starts with what its snapshot has as members.       *)
LEMMA FindGroupKeeps ==
  ASSUME ProvisionInv, NEW a \in Actors, NEW ok, FindGroup(a, ok)
  PROVE  ProvisionInv'
<1> DEFINE w == work[a]
           g == Arg(a)
           i == Lookup(rGroups, Arg(a), ok)
           S == w.snap.member[g]
           ms == EachOf(S, LAMBDA u : <<Step("member", u)>>)
           s == Step("writeGroup", g)
           t == Tail(w.steps)
           st == ms \o <<s>> \o t
           v == [w EXCEPT !.id = i, !.ids = {}, !.steps = st]
           M == {m \in Steps : m.do = "member" /\ m.x \in S}
<1>1. /\ w \in Threads /\ w.steps # << >> /\ Head(w.steps).do = "provisionGroup"
      /\ errors' \in Nat /\ Local(a, v) /\ UNCHANGED <<rUsers, rGroups>>
      /\ Sound(w, rUsers, ever) /\ w.snap \in Tables /\ WereMembers(w.snap, ever)
  BY ThreadFacts, AnswerKeeps DEF FindGroup, At, Rest
<1>2. i \in Ids \cup {None}
  BY LookupFacts
<1>3. g \in Groups /\ t \in Seq(PlainSteps)
  BY <1>1, HeadFacts, RestIsPlain DEF Arg, OnGroups
<1>4. S \subseteq Users /\ IsFiniteSet(S) /\ S \subseteq ever[g]
  BY <1>1, <1>3, FiniteSets DEF WereMembers
<1>5. s \in Steps /\ s.do = "writeGroup" /\ s.x = g
  <2>1. s \in [do : OnGroups \cup OnUsers \cup ToDelete, x : Args]
    BY <1>3 DEF Step, OnGroups, Args
  <2> QED BY <2>1, <1>3 DEF Steps, Step, OnUsers
<1> HIDE DEF S
<1>6. ms \in Seq(M)
  <2> DEFINE n == Cardinality(S)
             q == SetToSeq(S)
             us == [k \in 1..n |-> <<Step("member", q[k])>>]
  <2>1. n \in Nat /\ q \in [1..n -> S]
    BY <1>4, ListOfSet
  <2> HIDE DEF n, q
  <2>2. ASSUME NEW u \in S PROVE Step("member", u) \in M
    <3>1. u \in Users
      BY <1>4
    <3>2. Step("member", u) \in [do : OnGroups \cup OnUsers \cup ToDelete, x : Args]
      BY <3>1 DEF Step, OnUsers, Args
    <3> QED BY <3>1, <3>2 DEF Steps, Step, OnGroups
  <2> HIDE DEF M
  <2>3. \A m \in M : <<m>> \in Seq(M)
    OBVIOUS
  <2>4. us \in [1..n -> Seq(M)]
    BY <2>1, <2>2, <2>3
  <2>5. FlattenSeq(us) \in Seq(M)
    <3> HIDE DEF us
    <3> QED BY <2>1, <2>4, FlattenList
  <2> QED BY <2>5, Zenon DEF EachOf, n, q
<1> HIDE DEF s, t, i, ms, g
<1>7. PlainSteps \subseteq Steps /\ M \subseteq Steps
  BY DEF PlainSteps
<1>8. /\ st \in Seq(Steps) /\ Len(ms) \in Nat
      /\ \A k \in 1..Len(ms) : st[k] \in M
      /\ st[Len(ms) + 1] = s
      /\ \A k \in 1..Len(st) : k > Len(ms) + 1 => st[k] \in PlainSteps
  <2> HIDE DEF M
  <2>1. t \in Seq(Steps) /\ ms \in Seq(Steps) /\ Len(t) \in Nat /\ Len(ms) \in Nat
    BY <1>3, <1>6, <1>7
  <2>2. st \in Seq(Steps) /\ Len(st) = Len(ms) + 1 + Len(t)
    BY <2>1, <1>5
  <2>3. ASSUME NEW k \in 1..Len(ms) PROVE st[k] \in M
    <3>1. st[k] = ms[k]
      BY <2>1, <1>5
    <3> QED BY <3>1, <1>6
  <2>4. st[Len(ms) + 1] = s
    BY <2>1, <1>5
  <2>5. ASSUME NEW k \in 1..Len(st), k > Len(ms) + 1 PROVE st[k] \in PlainSteps
    <3> DEFINE j == k - (Len(ms) + 1)
    <3>1. j \in 1..Len(t) /\ st[k] = t[j]
      BY <2>1, <2>2, <2>5, <1>5
    <3> HIDE DEF j
    <3> QED BY <3>1, <1>3
  <2> QED BY <2>1, <2>2, <2>3, <2>4, <2>5
<1> HIDE DEF st
<1>9. v.snap = w.snap /\ v.steps = st /\ v.ids = {} /\ v \in Threads
  <2> HIDE DEF w
  <2> QED BY <1>1, <1>2, <1>8 DEF Threads
<1> HIDE DEF v
<1>10. ASSUME NEW k \in 1..Len(st), st[k].do \in {"writeGroup", "writeUser"}
       PROVE  k = Len(ms) + 1
  <2>1. ~ (k > Len(ms) + 1)
    BY <1>8, <1>10 DEF PlainSteps
  <2>2. k \notin 1..Len(ms)
    BY <1>8, <1>10
  <2> QED BY <2>1, <2>2, <1>8
<1>11. Collects(v, rUsers, ever)
  <2> SUFFICES ASSUME NEW k \in 1..Len(st), st[k].do = "writeGroup"
               PROVE  \A j \in 1..(k - 1) : /\ st[j].do \in {"member", "postMember"}
                                            /\ st[j].x \in ever[st[k].x]
    BY <1>9 DEF Collects
  <2>1. k = Len(ms) + 1 /\ st[k] = s
    BY <1>8, <1>10
  <2>2. \A j \in 1..(k - 1) : st[j] \in M
    BY <2>1, <1>8
  <2> QED BY <2>1, <2>2, <1>4, <1>5
<1>12. Replaces(v, rUsers)
  BY <1>5, <1>8, <1>9, <1>10 DEF Replaces
<1>13. Sound(v, rUsers, ever)
  BY <1>1, <1>9, <1>11, <1>12 DEF Sound
<1> QED BY <1>1, <1>9, <1>13, LocalKeeps

(* Only the remote server and the thread change.                           *)
LEMMA CallKeeps ==
  ASSUME ProvisionInv, NEW a \in Actors, NEW v, Local(a, v), errors' \in Nat,
         v \in Threads, Older(rUsers, rUsers'), Sound(v, rUsers', ever),
         rUsers' \in RemoteUsers, rGroups' \in RemoteGroups,
         ListsMembers(rUsers', rGroups', ever)
  PROVE  ProvisionInv'
<1>1. /\ work' = [work EXCEPT ![a] = v] /\ tables' = tables /\ queue' = queue
      /\ UNCHANGED <<load, ever, ops>>
  BY DEF Local
<1>2. queue \in Seq(Tasks) /\ tables \in Tables /\ WereMembers(tables, ever)
  BY DEF ProvisionInv, ProvisionTypeOK
<1> QED BY <1>1, <1>2, ThreadKeeps

LEMMA RemoteFacts ==
  ASSUME ProvisionInv
  PROVE  /\ rUsers \in RemoteUsers /\ rGroups \in RemoteGroups
         /\ ever \in [Groups -> SUBSET Users] /\ ListsMembers(rUsers, rGroups, ever)
BY DEF ProvisionInv, ProvisionTypeOK

(* What a call does to the users leaves every id to its user.              *)
LEMMA UserWrites ==
  ASSUME NEW r \in RemoteUsers, NEW i \in Ids, NEW obj \in UserObject
  PROVE  /\ r[i] = Unused => Post(r, i, obj) \in RemoteUsers /\ Older(r, Post(r, i, obj))
                             /\ IsOf(Post(r, i, obj), i, {obj.ext})
         /\ IsOf(r, i, {obj.ext}) => Put(r, i, obj) \in RemoteUsers /\ Older(r, Put(r, i, obj))
<1>1. obj # Unused /\ obj # Gone /\ Unused # Gone
  BY RemoteAssumption
<1>2. r \in [Ids -> UserObject \cup {Unused, Gone}]
  BY DEF RemoteUsers
<1>3. ASSUME r[i] = Unused
      PROVE  Post(r, i, obj) \in RemoteUsers /\ Older(r, Post(r, i, obj))
             /\ IsOf(Post(r, i, obj), i, {obj.ext})
  <2> DEFINE q == [r EXCEPT ![i] = obj]
  <2>1. q \in RemoteUsers /\ q[i] = obj /\ \A j \in Ids : j # i => q[j] = r[j]
    BY <1>2 DEF RemoteUsers
  <2>2. Post(r, i, obj) = q
    BY DEF Post
  <2> HIDE DEF q
  <2> QED BY <2>1, <2>2, <1>1, <1>3 DEF Older, IsOf
<1>4. ASSUME IsOf(r, i, {obj.ext})
      PROVE  Put(r, i, obj) \in RemoteUsers /\ Older(r, Put(r, i, obj))
  <2>1. CASE i \notin Live(r)
    BY <2>1, OlderSame DEF Put
  <2>2. CASE i \in Live(r)
    <3> DEFINE q == [r EXCEPT ![i] = obj]
    <3>1. q \in RemoteUsers /\ q[i] = obj /\ \A j \in Ids : j # i => q[j] = r[j]
      BY <1>2 DEF RemoteUsers
    <3>2. Put(r, i, obj) = q
      BY <2>2 DEF Put
    <3>3. r[i] # Gone /\ r[i].ext = obj.ext
      BY <1>4, <2>2 DEF IsOf, Live
    <3> HIDE DEF q
    <3> QED BY <3>1, <3>2, <3>3, <1>1 DEF Older
  <2> QED BY <2>1, <2>2
<1> QED BY <1>3, <1>4

LEMMA UserDeletes ==
  ASSUME NEW r \in RemoteUsers, NEW i
  PROVE  Delete(r, i) \in RemoteUsers /\ Older(r, Delete(r, i))
<1>1. CASE i \notin Live(r)
  BY <1>1, OlderSame DEF Delete
<1>2. CASE i \in Live(r)
  <2> DEFINE q == [r EXCEPT ![i] = Gone]
  <2>1. r \in [Ids -> UserObject \cup {Unused, Gone}] /\ i \in Ids /\ Unused # Gone
    BY <1>2, RemoteAssumption DEF RemoteUsers, Live
  <2>2. q \in RemoteUsers /\ q[i] = Gone /\ \A j \in Ids : j # i => q[j] = r[j]
    BY <2>1 DEF RemoteUsers
  <2>3. Delete(r, i) = q
    BY <1>2 DEF Delete
  <2> HIDE DEF q
  <2> QED BY <2>1, <2>2, <2>3 DEF Older
<1> QED BY <1>1, <1>2

(* A group that is written with members who were members.                  *)
LEMMA GroupWrites ==
  ASSUME NEW s \in RemoteGroups, NEW i \in Ids, NEW obj \in GroupObject, NEW r, NEW e,
         ListsMembers(r, s, e), \A m \in obj.members : m \in Ids /\ IsOf(r, m, e[obj.ext])
  PROVE  /\ Post(s, i, obj) \in RemoteGroups /\ ListsMembers(r, Post(s, i, obj), e)
         /\ Put(s, i, obj) \in RemoteGroups /\ ListsMembers(r, Put(s, i, obj), e)
<1>1. s \in [Ids -> GroupObject \cup {Unused, Gone}]
  BY DEF RemoteGroups
<1> DEFINE q == [s EXCEPT ![i] = obj]
<1>2. q \in RemoteGroups /\ q[i] = obj /\ \A j \in Ids : j # i => q[j] = s[j]
  BY <1>1 DEF RemoteGroups
<1>3. Post(s, i, obj) = q /\ Put(s, i, obj) \in {q, s}
  BY DEF Post, Put
<1> HIDE DEF q
<1>4. ListsMembers(r, q, e)
  <2> SUFFICES ASSUME NEW j \in Live(q), NEW m \in q[j].members
               PROVE  m \in Ids /\ IsOf(r, m, e[q[j].ext])
    BY DEF ListsMembers
  <2>1. CASE j = i
    BY <2>1, <1>2
  <2>2. CASE j # i
    <3>1. q[j] = s[j] /\ j \in Live(s)
      BY <2>2, <1>2 DEF Live
    <3> QED BY <3>1 DEF ListsMembers
  <2> QED BY <2>1, <2>2
<1> QED BY <1>2, <1>3, <1>4

LEMMA GroupDeletes ==
  ASSUME NEW s \in RemoteGroups, NEW i \in Ids \cup {None}, NEW r, NEW e, ListsMembers(r, s, e)
  PROVE  Delete(s, i) \in RemoteGroups /\ ListsMembers(r, Delete(s, i), e)
<1>1. s \in [Ids -> GroupObject \cup {Unused, Gone}]
  BY DEF RemoteGroups
<1>2. CASE i \notin Live(s)
  BY <1>2 DEF Delete
<1>3. CASE i \in Live(s)
  <2> DEFINE q == [s EXCEPT ![i] = Gone]
  <2>1. i \in Ids
    BY <1>3 DEF Live
  <2>2. q \in RemoteGroups /\ q[i] = Gone /\ \A j \in Ids : j # i => q[j] = s[j]
    BY <1>1, <2>1 DEF RemoteGroups
  <2>3. Delete(s, i) = q
    BY <1>3 DEF Delete
  <2> HIDE DEF q
  <2>4. \A j \in Live(q) : j \in Live(s) /\ q[j] = s[j]
    BY <2>2 DEF Live
  <2> QED BY <2>2, <2>3, <2>4 DEF ListsMembers
<1> QED BY <1>2, <1>3

LEMMA FindMemberKeeps ==
  ASSUME ProvisionInv, NEW a \in Actors, NEW ok, FindMember(a, ok)
  PROVE  ProvisionInv'
<1> DEFINE w == work[a]
           i == Lookup(rUsers, Arg(a), ok)
           s == Step("postMember", Arg(a))
           t == Tail(w.steps)
           st == <<s>> \o t
           v == [w EXCEPT !.steps = st]
           z == [w EXCEPT !.ids = @ \cup {i}, !.steps = t]
<1>1. /\ w \in Threads /\ w.steps # << >> /\ Head(w.steps).do = "member"
      /\ errors' \in Nat /\ UNCHANGED <<rUsers, rGroups>>
      /\ Sound(w, rUsers, ever)
  BY ThreadFacts, AnswerKeeps DEF FindMember, At, Rest
<1>2. Local(a, IF i = None THEN v ELSE z)
  BY DEF FindMember, Rest
<1>3. i \in Ids \cup {None} /\ (i # None => IsOf(rUsers, i, {Arg(a)}))
  BY LookupFacts
<1>4. /\ Arg(a) \in Users /\ t \in Seq(Steps) /\ Arg(a) = Head(w.steps).x
      /\ Head(w.steps) = w.steps[1] /\ w.steps \in Seq(Steps)
  BY <1>1, HeadFacts DEF Arg, OnUsers, Threads
<1> HIDE DEF i
<1>5. CASE i # None
  <2>1. z \in Threads /\ z.snap = w.snap /\ z.steps = Tail(w.steps) /\ z.ids = w.ids \cup {i}
    <3> HIDE DEF w, t
    <3>1. w.ids \cup {i} \in SUBSET Ids
      BY <1>1, <1>3, <1>5 DEF Threads
    <3> DEFINE is == w.ids \cup {i}
    <3>2. z = [w EXCEPT !.ids = is, !.steps = t]
      BY <1>1 DEF Threads
    <3> HIDE DEF is, z
    <3> QED BY <1>1, <1>4, <3>1, <3>2 DEF Threads, is, t
  <2> HIDE DEF z
  <2>2. \A j \in z.ids : \/ j \in w.ids
                         \/ /\ Head(w.steps).do \in {"member", "postMember"}
                            /\ IsOf(rUsers, j, {Head(w.steps).x})
    BY <2>1, <1>1, <1>3, <1>4, <1>5
  <2>3. Sound(z, rUsers, ever)
    BY <2>1, <2>2, <1>1, OlderSame, NextStep
  <2>4. Local(a, z)
    BY <1>2, <1>5
  <2> QED BY <2>1, <2>3, <2>4, <1>1, LocalKeeps
<1>6. CASE i = None
  <2>1. s \in Steps /\ s.do = "postMember" /\ s.x = Arg(a)
    <3>1. s \in [do : OnGroups \cup OnUsers \cup ToDelete, x : Args]
      BY <1>4 DEF Step, OnUsers, Args
    <3> QED BY <3>1, <1>4 DEF Steps, Step, OnGroups
  <2> HIDE DEF s
  <2> DEFINE ws == w.steps
  <2>2. /\ st \in Seq(Steps) /\ st[1] = s /\ Len(st) = Len(ws) /\ Len(ws) \in Nat
        /\ \A k \in 1..Len(st) : k # 1 => st[k] = ws[k]
    <3>1. ws \in Seq(Steps) /\ ws # << >> /\ t = Tail(ws)
      BY <1>1, <1>4
    <3> HIDE DEF ws, t
    <3> QED BY <3>1, <2>1
  <2> HIDE DEF st
  <2>3. v.snap = w.snap /\ v.steps = st /\ v.ids = w.ids /\ v.id = w.id /\ v \in Threads
    <3> HIDE DEF w
    <3> QED BY <1>1, <2>2 DEF Threads
  <2> HIDE DEF v
  <2>4. \A k \in 1..Len(st) : /\ k # 1 => st[k] = ws[k]
                              /\ k = 1 => st[k].do = "postMember" /\ st[k].x = ws[k].x
    BY <2>1, <2>2, <1>4
  <2>5. Collects(v, rUsers, ever)
    <3> SUFFICES ASSUME NEW k \in 1..Len(st), st[k].do = "writeGroup"
                 PROVE  /\ \A j \in 1..(k - 1) : /\ st[j].do \in {"member", "postMember"}
                                                 /\ st[j].x \in ever[st[k].x]
                        /\ \A j \in v.ids : IsOf(rUsers, j, ever[st[k].x])
      BY <2>3 DEF Collects
    <3>1. k # 1 /\ st[k] = ws[k] /\ k \in 1..Len(ws)
      BY <2>2, <2>4
    <3>2. /\ \A j \in 1..(k - 1) : /\ ws[j].do \in {"member", "postMember"}
                                   /\ ws[j].x \in ever[ws[k].x]
          /\ \A j \in w.ids : IsOf(rUsers, j, ever[ws[k].x])
      BY <3>1, <1>1 DEF Sound, Collects
    <3>3. ASSUME NEW j \in 1..(k - 1)
          PROVE  st[j].do \in {"member", "postMember"} /\ st[j].x \in ever[st[k].x]
      <4>1. j \in 1..Len(st)
        OBVIOUS
      <4> QED BY <4>1, <3>1, <3>2, <2>4
    <3> QED BY <3>1, <3>2, <3>3, <2>3
  <2>6. Replaces(v, rUsers)
    BY <1>1, <2>2, <2>3, <2>4 DEF Sound, Replaces
  <2>7. Sound(v, rUsers, ever)
    BY <1>1, <2>3, <2>5, <2>6 DEF Sound
  <2>8. Local(a, v)
    BY <1>2, <1>6
  <2> QED BY <2>3, <2>7, <2>8, <1>1, LocalKeeps
<1> QED BY <1>5, <1>6

LEMMA BodyTypes ==
  ASSUME ProvisionInv, NEW a \in Actors
  PROVE  /\ \A u \in Users : UserBody(a, u) \in UserObject /\ UserBody(a, u).ext = u
         /\ \A g \in Groups, ids \in SUBSET Ids :
              GroupBody(g, ids) \in GroupObject /\ GroupBody(g, ids).ext = g
              /\ GroupBody(g, ids).members = ids
<1>1. work[a].snap.uattr \in [Users -> Attrs]
  BY ThreadFacts DEF Tables
<1>2. (CHOOSE x \in Attrs : TRUE) \in Attrs
  BY RemoteAssumption
<1>3. ASSUME NEW u \in Users
      PROVE  UserBody(a, u) \in UserObject /\ UserBody(a, u).ext = u
  BY <1>1 DEF UserBody, UserObject
<1>4. ASSUME NEW g \in Groups, NEW ids \in SUBSET Ids
      PROVE  GroupBody(g, ids) \in GroupObject /\ GroupBody(g, ids).ext = g
             /\ GroupBody(g, ids).members = ids
  BY <1>2 DEF GroupBody, GroupObject
<1> QED BY <1>3, <1>4

(* A thread whose call is done goes on with the rest.                      *)
LEMMA GoesOn ==
  ASSUME ProvisionInv, NEW a \in Actors, work[a].steps # << >>,
         Older(rUsers, rUsers'), NEW v, v = [work[a] EXCEPT !.steps = Rest(a)]
  PROVE  v \in Threads /\ Sound(v, rUsers', ever)
<1> DEFINE w == work[a]
           t == Tail(w.steps)
<1>1. w \in Threads /\ Sound(w, rUsers, ever) /\ t \in Seq(Steps) /\ v = [w EXCEPT !.steps = t]
  BY ThreadFacts, HeadFacts DEF Rest
<1>2. v \in Threads /\ v.snap = w.snap /\ v.steps = t /\ v.ids = w.ids
  <2> HIDE DEF w, t
  <2> QED BY <1>1 DEF Threads
<1> QED BY <1>1, <1>2, NextStep

LEMMA PostMemberKeeps ==
  ASSUME ProvisionInv, NEW a \in Actors, NEW ok, PostMember(a, ok)
  PROVE  ProvisionInv'
<1> DEFINE w == work[a]
           t == Tail(w.steps)
<1>1. /\ w \in Threads /\ w.steps # << >> /\ Head(w.steps).do = "postMember"
      /\ errors' \in Nat /\ rGroups' = rGroups /\ Sound(w, rUsers, ever)
  BY ThreadFacts, AnswerKeeps DEF PostMember, At
<1>2. /\ Arg(a) \in Users /\ t \in Seq(Steps) /\ Arg(a) = Head(w.steps).x
  BY <1>1, HeadFacts DEF Arg, OnUsers
<1>3. /\ rUsers \in RemoteUsers /\ rGroups \in RemoteGroups
      /\ ever \in [Groups -> SUBSET Users] /\ ListsMembers(rUsers, rGroups, ever)
  BY RemoteFacts
<1>4. ASSUME NEW i \in Ids, IsFresh(rUsers, i), rUsers' = Post(rUsers, i, UserBody(a, Arg(a))),
             Local(a, [w EXCEPT !.ids = @ \cup {i}, !.steps = Rest(a)])
      PROVE  ProvisionInv'
  <2> DEFINE z == [w EXCEPT !.ids = @ \cup {i}, !.steps = t]
  <2>1. UserBody(a, Arg(a)) \in UserObject /\ UserBody(a, Arg(a)).ext = Arg(a)
    BY <1>2, BodyTypes
  <2>2. rUsers' \in RemoteUsers /\ Older(rUsers, rUsers') /\ IsOf(rUsers', i, {Arg(a)})
    BY <1>3, <1>4, <2>1, UserWrites DEF IsFresh
  <2>3. z \in Threads /\ z.snap = w.snap /\ z.steps = Tail(w.steps) /\ z.ids = w.ids \cup {i}
    <3> HIDE DEF w, t
    <3> DEFINE is == w.ids \cup {i}
    <3>1. is \in SUBSET Ids
      BY <1>1 DEF Threads
    <3>2. z = [w EXCEPT !.ids = is, !.steps = t]
      BY <1>1 DEF Threads
    <3> HIDE DEF is, z
    <3> QED BY <1>1, <1>2, <3>1, <3>2 DEF Threads, is, t
  <2>4. Local(a, z)
    BY <1>4 DEF Rest
  <2> HIDE DEF z
  <2>5. \A j \in z.ids : \/ j \in w.ids
                         \/ /\ Head(w.steps).do \in {"member", "postMember"}
                            /\ IsOf(rUsers', j, {Head(w.steps).x})
    BY <1>1, <1>2, <2>2, <2>3
  <2>6. Sound(z, rUsers', ever)
    BY <1>1, <2>2, <2>3, <2>5, NextStep
  <2>7. ListsMembers(rUsers', rGroups', ever)
    BY <1>1, <1>3, <2>2, ListsStay
  <2> QED BY <1>1, <1>3, <2>2, <2>3, <2>4, <2>6, <2>7, CallKeeps
<1>5. ASSUME rUsers' = rUsers, Local(a, [w EXCEPT !.steps = Rest(a)])
      PROVE  ProvisionInv'
  BY <1>1, <1>5, OlderSame, GoesOn, LocalKeeps
<1> QED BY <1>4, <1>5 DEF PostMember

LEMMA WriteUserKeeps ==
  ASSUME ProvisionInv, NEW a \in Actors, NEW ok, WriteUser(a, ok)
  PROVE  ProvisionInv'
<1> DEFINE w == work[a]
           v == [w EXCEPT !.steps = Rest(a)]
           obj == UserBody(a, Arg(a))
<1>1. /\ w \in Threads /\ w.steps # << >> /\ Head(w.steps).do = "writeUser"
      /\ errors' \in Nat /\ rGroups' = rGroups /\ Sound(w, rUsers, ever) /\ Local(a, v)
      /\ w.id \in Ids \cup {None}
      /\ rUsers' \in IF ok THEN Store(rUsers, w.id, obj) ELSE {rUsers}
  BY ThreadFacts, AnswerKeeps DEF WriteUser, At
<1>2. /\ Arg(a) \in Users /\ Arg(a) = w.steps[1].x /\ w.steps[1].do = "writeUser"
      /\ 1 \in 1..Len(w.steps)
  BY <1>1, HeadFacts DEF Arg, OnUsers
<1>3. obj \in UserObject /\ obj.ext = Arg(a)
  BY <1>2, BodyTypes
<1>4. w.id # None => IsOf(rUsers, w.id, {obj.ext})
  BY <1>1, <1>2, <1>3 DEF Sound, Replaces
<1>5. /\ rUsers \in RemoteUsers /\ rGroups \in RemoteGroups
      /\ ever \in [Groups -> SUBSET Users] /\ ListsMembers(rUsers, rGroups, ever)
  BY RemoteFacts
<1> HIDE DEF obj
<1>6. rUsers' \in RemoteUsers /\ Older(rUsers, rUsers')
  <2>1. CASE rUsers' = rUsers
    BY <2>1, <1>5, OlderSame
  <2>2. CASE rUsers' \in Store(rUsers, w.id, obj)
    <3>1. CASE w.id = None
      <4>1. PICK i \in Ids : IsFresh(rUsers, i) /\ rUsers' = Post(rUsers, i, obj)
        BY <2>2, <3>1 DEF Store
      <4> QED BY <4>1, <1>3, <1>5, UserWrites DEF IsFresh
    <3>2. CASE w.id # None
      <4>1. rUsers' = Put(rUsers, w.id, obj) /\ w.id \in Ids
        BY <2>2, <3>2, <1>1 DEF Store
      <4> QED BY <4>1, <1>3, <1>4, <1>5, <3>2, UserWrites
    <3> QED BY <3>1, <3>2
  <2> QED BY <1>1, <2>1, <2>2
<1>7. v \in Threads /\ Sound(v, rUsers', ever)
  BY <1>1, <1>6, GoesOn
<1>8. ListsMembers(rUsers', rGroups', ever)
  BY <1>1, <1>5, <1>6, ListsStay
<1> HIDE DEF v
<1> QED BY <1>1, <1>5, <1>6, <1>7, <1>8, CallKeeps

LEMMA WriteGroupKeeps ==
  ASSUME ProvisionInv, NEW a \in Actors, NEW ok, WriteGroup(a, ok)
  PROVE  ProvisionInv'
<1> DEFINE w == work[a]
           v == [w EXCEPT !.steps = Rest(a)]
           obj == GroupBody(Arg(a), w.ids)
<1>1. /\ w \in Threads /\ w.steps # << >> /\ Head(w.steps).do = "writeGroup"
      /\ errors' \in Nat /\ rUsers' = rUsers /\ Sound(w, rUsers, ever) /\ Local(a, v)
      /\ w.id \in Ids \cup {None} /\ w.ids \in SUBSET Ids
      /\ rGroups' \in IF ok THEN Store(rGroups, w.id, obj) ELSE {rGroups}
  BY ThreadFacts, AnswerKeeps DEF WriteGroup, At
<1>2. /\ Arg(a) \in Groups /\ Arg(a) = w.steps[1].x /\ w.steps[1].do = "writeGroup"
      /\ 1 \in 1..Len(w.steps)
  BY <1>1, HeadFacts DEF Arg, OnGroups
<1>3. obj \in GroupObject /\ obj.ext = Arg(a) /\ obj.members = w.ids
  BY <1>1, <1>2, BodyTypes
<1>4. \A i \in w.ids : IsOf(rUsers, i, ever[w.steps[1].x])
  BY <1>1, <1>2 DEF Sound, Collects
<1>5. \A m \in obj.members : m \in Ids /\ IsOf(rUsers, m, ever[obj.ext])
  BY <1>1, <1>2, <1>3, <1>4
<1>6. /\ rUsers \in RemoteUsers /\ rGroups \in RemoteGroups
      /\ ListsMembers(rUsers, rGroups, ever)
  BY RemoteFacts
<1> HIDE DEF obj
<1>7. rGroups' \in RemoteGroups /\ ListsMembers(rUsers, rGroups', ever)
  <2>1. CASE rGroups' = rGroups
    BY <2>1, <1>6
  <2>2. CASE rGroups' \in Store(rGroups, w.id, obj)
    <3>1. CASE w.id = None
      <4>1. PICK i \in Ids : rGroups' = Post(rGroups, i, obj)
        BY <2>2, <3>1 DEF Store
      <4> QED BY <4>1, <1>3, <1>5, <1>6, GroupWrites
    <3>2. CASE w.id # None
      <4>1. rGroups' = Put(rGroups, w.id, obj) /\ w.id \in Ids
        BY <2>2, <3>2, <1>1 DEF Store
      <4> QED BY <4>1, <1>3, <1>5, <1>6, GroupWrites
    <3> QED BY <3>1, <3>2
  <2> QED BY <1>1, <2>1, <2>2
<1>8. Older(rUsers, rUsers')
  BY <1>1, OlderSame
<1>9. v \in Threads /\ Sound(v, rUsers', ever)
  BY <1>1, <1>8, GoesOn
<1> HIDE DEF v
<1> QED BY <1>1, <1>6, <1>7, <1>8, <1>9, CallKeeps

LEMMA DeleteCallKeeps ==
  ASSUME ProvisionInv, NEW a \in Actors, NEW ok, DeleteCall(a, ok)
  PROVE  ProvisionInv'
<1> DEFINE w == work[a]
           v == [w EXCEPT !.steps = Rest(a)]
<1>1. /\ w.steps # << >> /\ errors' \in Nat /\ Local(a, v) /\ w.id \in Ids \cup {None}
  BY ThreadFacts, AnswerKeeps DEF DeleteCall, At
<1>2. \/ rUsers' = rUsers /\ rGroups' \in {rGroups, Delete(rGroups, w.id)}
      \/ rGroups' = rGroups /\ rUsers' \in {rUsers, Delete(rUsers, w.id)}
  BY DEF DeleteCall
<1>3. /\ rUsers \in RemoteUsers /\ rGroups \in RemoteGroups
      /\ ever \in [Groups -> SUBSET Users] /\ ListsMembers(rUsers, rGroups, ever)
  BY RemoteFacts
<1>4. rUsers' \in RemoteUsers /\ Older(rUsers, rUsers')
  <2>1. CASE rUsers' = rUsers
    BY <2>1, <1>3, OlderSame
  <2>2. CASE rUsers' = Delete(rUsers, w.id)
    BY <2>2, <1>3, UserDeletes
  <2> QED BY <1>2, <2>1, <2>2
<1>5. ListsMembers(rUsers', rGroups, ever)
  BY <1>3, <1>4, ListsStay
<1>6. rGroups' \in RemoteGroups /\ ListsMembers(rUsers', rGroups', ever)
  BY <1>1, <1>2, <1>3, <1>5, GroupDeletes
<1>7. v \in Threads /\ Sound(v, rUsers', ever)
  BY <1>1, <1>4, GoesOn
<1> HIDE DEF v
<1> QED BY <1>1, <1>4, <1>6, <1>7, CallKeeps

(* What is deleted when a task returns.                                    *)
LEMMA SetMembersFacts ==
  ASSUME NEW d \in Tables, NEW f, \A g \in DOMAIN f : f[g] \subseteq Users
  PROVE  /\ SetMembers(d, f) \in Tables
         /\ \A g \in Groups : SetMembers(d, f).member[g] =
                               IF g \in DOMAIN f THEN f[g] ELSE d.member[g]
         /\ SetMembers(d, f).lapsed = d.lapsed /\ SetMembers(d, f).subs = d.subs
         /\ SetMembers(d, f).cos = d.cos /\ SetMembers(d, f).direct = d.direct
         /\ SetMembers(d, f).users = d.users
<1> DEFINE m == [g \in Groups |-> IF g \in DOMAIN f THEN f[g] ELSE d.member[g]]
<1>1. m \in [Groups -> SUBSET Users]
  BY DEF Tables
<1>2. SetMembers(d, f) = [d EXCEPT !.member = m]
  BY DEF SetMembers
<1>3. \A g \in Groups : m[g] = IF g \in DOMAIN f THEN f[g] ELSE d.member[g]
  OBVIOUS
<1> HIDE DEF m
<1> QED BY <1>1, <1>2, <1>3 DEF Tables

LEMMA TablesKeep ==
  ASSUME NEW d \in Tables
  PROVE  /\ \A x \in SUBSET Subs : [d EXCEPT !.subs = x] \in Tables
         /\ \A x \in SUBSET COs : [d EXCEPT !.cos = x] \in Tables
         /\ \A x \in SUBSET COs : [d EXCEPT !.direct = x] \in Tables
         /\ \A x \in {"connected", "unconnected", "deleted"} : [d EXCEPT !.org = x] \in Tables
         /\ \A x \in [Users -> Attrs] : [d EXCEPT !.uattr = x] \in Tables
         /\ \A x \in [COs -> SUBSET Users] : [d EXCEPT !.lapsed = x] \in Tables
         /\ \A x \in SUBSET Users : [d EXCEPT !.users = x] \in Tables
BY DEF Tables

LEMMA RemoveGroupsFacts ==
  ASSUME NEW d \in Tables, NEW S
  PROVE  /\ RemoveGroups(d, S) \in Tables
         /\ \A g \in Groups : RemoveGroups(d, S).member[g] \subseteq d.member[g]
<1> DEFINE f == [g \in S |-> {}]
           e == SetMembers(d, f)
           l == [c \in COs |-> IF c \in S THEN {} ELSE d.lapsed[c]]
<1>1. /\ e \in Tables /\ \A g \in Groups : e.member[g] \subseteq d.member[g]
  <2>1. DOMAIN f = S /\ \A g \in S : f[g] = {}
    OBVIOUS
  <2> HIDE DEF f
  <2>2. \A g \in DOMAIN f : f[g] \subseteq Users
    BY <2>1
  <2> QED BY <2>1, <2>2, SetMembersFacts
<1>2. l \in [COs -> SUBSET Users]
  BY DEF Tables
<1>3. RemoveGroups(d, S) = [e EXCEPT !.cos = e.cos \ S, !.subs = e.subs \ S,
                                     !.direct = e.direct \ S, !.lapsed = l]
  <2>1. DOMAIN e = {"users", "cos", "subs", "member", "lapsed", "direct", "org", "uattr"}
    BY <1>1 DEF Tables
  <2> QED BY DEF RemoveGroups
<1> HIDE DEF e, l
<1> DEFINE cs == e.cos \ S
           ss == e.subs \ S
           ds == e.direct \ S
<1>4. cs \subseteq COs /\ ss \subseteq Subs /\ ds \subseteq COs
  BY <1>1 DEF Tables
<1> HIDE DEF cs, ss, ds
<1>5. RemoveGroups(d, S) = [e EXCEPT !.cos = cs, !.subs = ss, !.direct = ds, !.lapsed = l]
  BY <1>3 DEF cs, ss, ds
<1>6. RemoveGroups(d, S) \in Tables
  <2> DEFINE e1 == [e EXCEPT !.cos = cs]
             e2 == [e1 EXCEPT !.subs = ss]
             e3 == [e2 EXCEPT !.direct = ds]
             e4 == [e3 EXCEPT !.lapsed = l]
  <2>1. RemoveGroups(d, S) = e4
    BY <1>1, <1>5 DEF Tables
  <2>2. e1 \in Tables
    BY <1>1, <1>4, TablesKeep
  <2> HIDE DEF e1
  <2>3. e2 \in Tables
    BY <2>2, <1>4, TablesKeep
  <2> HIDE DEF e2
  <2>4. e3 \in Tables
    BY <2>3, <1>4, TablesKeep
  <2> HIDE DEF e3
  <2>5. e4 \in Tables
    BY <2>4, <1>2, TablesKeep
  <2> QED BY <2>1, <2>5
<1>7. RemoveGroups(d, S).member = e.member
  BY <1>1, <1>5 DEF Tables
<1> QED BY <1>1, <1>6, <1>7

LEMMA AfterTaskFacts ==
  ASSUME NEW d \in Tables, NEW t
  PROVE  /\ AfterTask(d, t) \in Tables
         /\ \A g \in Groups : AfterTask(d, t).member[g] \subseteq d.member[g]
<1> DEFINE a1 == RemoveGroups(d, {t.x})
           a2 == RemoveGroups(d, {t.x} \cup GroupsOf(d, t.x))
           a3 == RemoveGroups(d, Groups)
           a4 == [a3 EXCEPT !.org = "deleted"]
<1>1. AfterTask(d, t) \in {a1, a2, a4, d}
  BY DEF AfterTask
<1>2. /\ a1 \in Tables /\ \A g \in Groups : a1.member[g] \subseteq d.member[g]
      /\ a2 \in Tables /\ \A g \in Groups : a2.member[g] \subseteq d.member[g]
      /\ a3 \in Tables /\ \A g \in Groups : a3.member[g] \subseteq d.member[g]
  BY RemoveGroupsFacts
<1> HIDE DEF a1, a2, a3
<1>3. a4 \in Tables /\ a4.member = a3.member
  BY <1>2 DEF Tables
<1> HIDE DEF a4
<1> QED BY <1>1, <1>2, <1>3

LEMMA FinishKeeps ==
  ASSUME ProvisionInv, NEW a \in Actors, FinishTask(a)
  PROVE  ProvisionInv'
<1>1. /\ tables \in Tables /\ WereMembers(tables, ever) /\ queue \in Seq(Tasks) /\ errors \in Nat
      /\ ever \in [Groups -> SUBSET Users]
  BY DEF ProvisionInv, ProvisionTypeOK
<1>2. /\ work' = [work EXCEPT ![a] = Idle] /\ tables' = AfterTask(tables, work[a].task)
      /\ rUsers' = rUsers /\ rGroups' = rGroups /\ queue' = queue /\ errors' = errors
      /\ UNCHANGED <<load, ever, ops>>
  BY DEF FinishTask
<1>3. tables' \in Tables /\ WereMembers(tables', ever)
  BY <1>1, <1>2, AfterTaskFacts DEF WereMembers
<1>4. Idle \in Threads /\ Sound(Idle, rUsers', ever)
  BY <1>1, NoTaskType, IdleIsSound DEF Idle
<1> QED BY <1>1, <1>2, <1>3, <1>4, RemoteFacts, OlderSame, ThreadKeeps

LEMMA AbortKeeps ==
  ASSUME ProvisionInv, NEW a \in Actors, AbortTask(a)
  PROVE  ProvisionInv'
<1>1. /\ tables \in Tables /\ WereMembers(tables, ever) /\ queue \in Seq(Tasks)
      /\ ever \in [Groups -> SUBSET Users] /\ errors' \in Nat
  BY DEF ProvisionInv, ProvisionTypeOK, AbortTask
<1>2. /\ work' = [work EXCEPT ![a] = Idle] /\ tables' = tables
      /\ rUsers' = rUsers /\ rGroups' = rGroups /\ queue' = queue
      /\ UNCHANGED <<load, ever, ops>>
  BY DEF AbortTask
<1>3. Idle \in Threads /\ Sound(Idle, rUsers', ever)
  BY <1>1, NoTaskType, IdleIsSound DEF Idle
<1> QED BY <1>1, <1>2, <1>3, RemoteFacts, OlderSame, ThreadKeeps

LEMMA RestartKeeps ==
  ASSUME ProvisionInv, Restart
  PROVE  ProvisionInv'
<1>1. /\ load' = load /\ tables' = tables /\ rUsers' = rUsers /\ rGroups' = rGroups
      /\ ever' = ever /\ ops' = ops /\ errors' \in Nat /\ queue' = << >>
      /\ work' = [a \in Actors |-> Idle]
  BY DEF Restart, ProvisionInv, ProvisionTypeOK
<1>2. ever \in [Groups -> SUBSET Users]
  BY DEF ProvisionInv, ProvisionTypeOK
<1>3. Idle \in Threads /\ Sound(Idle, rUsers, ever)
  BY <1>2, NoTaskType, IdleIsSound DEF Idle
<1>4. work' \in [Actors -> Threads] /\ queue' \in Seq(Tasks)
  BY <1>1, <1>3
<1>5. ProvisionTypeOK'
  BY <1>1, <1>4 DEF ProvisionInv, ProvisionTypeOK
<1>6. \A w \in Actors : Sound(work'[w], rUsers', ever')
  BY <1>1, <1>3
<1> QED BY <1>1, <1>5, <1>6 DEF ProvisionInv

LEMMA ThreadStepKeeps ==
  ASSUME ProvisionInv, NEW a \in Actors, ThreadStep(a)
  PROVE  ProvisionInv'
<1>1. CASE Begin(a)
  BY <1>1, BeginKeeps
<1>2. CASE FinishTask(a)
  BY <1>2, FinishKeeps
<1>3. ASSUME NEW ok \in BOOLEAN, Call(a, ok) PROVE ProvisionInv'
  BY <1>3, FindGroupKeeps, FindMemberKeeps, PostMemberKeeps, WriteGroupKeeps, FindUserKeeps,
     WriteUserKeeps, FindsKeep, DeleteCallKeeps DEF Call
<1> QED BY <1>1, <1>2, <1>3 DEF ThreadStep

(* A request leaves tables of the same kind, and who is a member in them   *)
(* is a member that ever was.                                              *)
LEMMA ApiKeeps ==
  ASSUME ProvisionInv, NEW op, NEW d \in Tables, ApiRequest(op, d), queue' \in Seq(Tasks),
         work' \in [Actors -> Threads], NEW t \in Tasks,
         \A w \in Actors : work'[w] = work[w] \/ work'[w] = Started(t)
  PROVE  ProvisionInv'
<1>1. /\ load' = load /\ tables' = d /\ rUsers' = rUsers /\ rGroups' = rGroups
      /\ errors' = errors /\ ops' = ops + 1
      /\ ever' = [g \in Groups |-> ever[g] \cup d.member[g]]
  BY DEF ApiRequest
<1>2. ever \in [Groups -> SUBSET Users] /\ \A g \in Groups : d.member[g] \subseteq Users
  BY DEF ProvisionInv, ProvisionTypeOK, Tables
<1>3. /\ ever' \in [Groups -> SUBSET Users]
      /\ \A g \in Groups : ever[g] \subseteq ever'[g] /\ d.member[g] \subseteq ever'[g]
  BY <1>1, <1>2
<1>4. ProvisionTypeOK'
  BY <1>1, <1>3 DEF ProvisionInv, ProvisionTypeOK
<1>5. WereMembers(tables', ever')
  BY <1>1, <1>3 DEF WereMembers
<1>6. ASSUME NEW w \in Actors PROVE Sound(work'[w], rUsers', ever')
  <2>1. CASE work'[w] = Started(t)
    BY <2>1, <1>3, IdleIsSound
  <2>2. CASE work'[w] = work[w]
    BY <2>2, <1>1, <1>3, ThreadFacts, OlderSame, SoundStays
  <2> QED BY <2>1, <2>2
<1>7. ListsMembers(rUsers', rGroups', ever')
  BY <1>1, <1>3, RemoteFacts, OlderSame, ListsStay
<1> QED BY <1>4, <1>5, <1>6, <1>7 DEF ProvisionInv

LEMMA CommitKeeps ==
  ASSUME ProvisionInv, NEW op, NEW d \in Tables, NEW tasks \in Seq(Tasks), Commit(op, d, tasks)
  PROVE  ProvisionInv'
<1>1. /\ ApiRequest(op, d) /\ queue' = queue \o tasks /\ work' = work
      /\ queue \in Seq(Tasks) /\ work \in [Actors -> Threads]
  BY DEF Commit, ProvisionInv, ProvisionTypeOK
<1>2. queue' \in Seq(Tasks)
  BY <1>1
<1> QED BY <1>1, <1>2, NoTaskType, ApiKeeps

LEMMA CommitAndRunKeeps ==
  ASSUME ProvisionInv, NEW op, NEW d \in Tables, NEW t \in Tasks, CommitAndRun(op, d, t)
  PROVE  ProvisionInv'
<1>1. /\ ApiRequest(op, d) /\ queue' = queue /\ work' = [work EXCEPT ![Web] = Started(t)]
      /\ queue \in Seq(Tasks) /\ work \in [Actors -> Threads] /\ Web \in Actors
      /\ ever \in [Groups -> SUBSET Users]
  BY DEF CommitAndRun, ProvisionInv, ProvisionTypeOK, Actors
<1>2. Started(t) \in Threads
  BY <1>1, IdleIsSound
<1>3. /\ work' \in [Actors -> Threads]
      /\ \A w \in Actors : work'[w] = work[w] \/ work'[w] = Started(t)
  BY <1>1, <1>2
<1> QED BY <1>1, <1>3, ApiKeeps

LEMMA TaskTypes ==
  /\ \A k \in TaskKinds : \A x \in Args : Task(k, x) \in Tasks /\ <<Task(k, x)>> \in Seq(Tasks)
  /\ << >> \in Seq(Tasks)
  /\ Groups \subseteq Args /\ Users \subseteq Args /\ None \in Args
  /\ COs \subseteq Groups /\ Subs \subseteq Groups
<1>1. \A k \in TaskKinds : \A x \in Args : Task(k, x) \in Tasks
  BY DEF Task, Tasks
<1>2. \A t \in Tasks : <<t>> \in Seq(Tasks)
  OBVIOUS
<1>3. Groups \subseteq Args /\ Users \subseteq Args /\ None \in Args
  BY DEF Args
<1> QED BY <1>1, <1>2, <1>3, ProvisionAssumption

LEMMA GroupTasksType ==
  ASSUME NEW S, S \subseteq Subs
  PROVE  GroupTasks(S) \in Seq(Tasks)
<1> DEFINE n == Cardinality(S)
           q == SetToSeq(S)
           ts == [i \in 1..n |-> <<Task("group", q[i])>>]
<1>1. S \subseteq Args /\ IsFiniteSet(S)
  BY TaskTypes, ProvisionAssumption, FS_Subset
<1>2. n \in Nat /\ q \in [1..n -> S]
  BY <1>1, ListOfSet
<1> HIDE DEF n, q
<1>3. "group" \in TaskKinds
  BY DEF TaskKinds
<1>4. ts \in [1..n -> Seq(Tasks)]
  BY <1>1, <1>2, <1>3, TaskTypes
<1>5. FlattenSeq(ts) \in Seq(Tasks)
  <2> HIDE DEF ts
  <2> QED BY <1>2, <1>4, FlattenList
<1> QED BY <1>5, Zenon DEF GroupTasks, EachOf, n, q

(* Rows of memberships are written for users.                              *)
LEMMA MembersSet ==
  ASSUME NEW d \in Tables, NEW S, NEW f, f \in [S -> SUBSET Users]
  PROVE  SetMembers(d, f) \in Tables
BY SetMembersFacts

LEMMA LeavingType ==
  ASSUME NEW d \in Tables, NEW S, S \subseteq Groups, NEW u
  PROVE  Leaving(d, S, u) \in Tables
<1> DEFINE f == [g \in S |-> d.member[g] \ {u}]
<1>1. f \in [S -> SUBSET Users]
  BY DEF Tables
<1> HIDE DEF f
<1>2. SetMembers(d, f) \in Tables
  BY <1>1, MembersSet
<1> QED BY <1>2 DEF Leaving, f

LEMMA TablesFacts ==
  ASSUME ProvisionInv
  PROVE  /\ tables \in Tables /\ tables.users \subseteq Users /\ tables.cos \subseteq COs
         /\ tables.subs \subseteq Subs /\ tables.member \in [Groups -> SUBSET Users]
         /\ tables.lapsed \in [COs -> SUBSET Users] /\ tables.direct \subseteq COs
         /\ tables.uattr \in [Users -> Attrs]
BY DEF ProvisionInv, ProvisionTypeOK, Tables

LEMMA AddMemberKeeps ==
  ASSUME ProvisionInv, NEW c \in COs, NEW u \in Users, AddMember(c, u)
  PROVE  ProvisionInv'
<1> DEFINE auto == GroupsOf(tables, c) \cap AutoGroups
           f == [g \in {c} \cup auto |-> tables.member[g] \cup {u}]
           gts == GroupTasks(auto)
           last == <<Task("collaboration", c)>>
           ts == gts \o last
<1>1. auto \subseteq Subs /\ {c} \cup auto \subseteq Groups
  BY TablesFacts, ProvisionAssumption DEF GroupsOf
<1>2. Commit("AddMember", SetMembers(tables, f), ts)
  BY DEF AddMember
<1> HIDE DEF auto
<1>3. f \in [{c} \cup auto -> SUBSET Users]
  BY <1>1, TablesFacts
<1>4. SetMembers(tables, f) \in Tables
  <2> HIDE DEF f
  <2> QED BY <1>3, TablesFacts, MembersSet
<1>5. gts \in Seq(Tasks) /\ last \in Seq(Tasks)
  BY <1>1, GroupTasksType, TaskTypes DEF TaskKinds
<1>6. ts \in Seq(Tasks)
  <2> HIDE DEF gts, last
  <2> QED BY <1>5
<1> HIDE DEF f, ts
<1> QED BY <1>2, <1>4, <1>6, CommitKeeps

LEMMA RemoveMemberKeeps ==
  ASSUME ProvisionInv, NEW c \in COs, NEW u \in Users, RemoveMember(c, u)
  PROVE  ProvisionInv'
<1> DEFINE S == {c} \cup GroupsOf(tables, c)
           d == Leaving(tables, S, u)
           l == [d.lapsed EXCEPT ![c] = @ \ {u}]
<1>1. S \subseteq Groups
  BY TablesFacts, ProvisionAssumption DEF GroupsOf
<1>2. Commit("RemoveMember", [d EXCEPT !.lapsed[c] = @ \ {u}], <<Task("collaboration", c)>>)
  BY DEF RemoveMember
<1> HIDE DEF S
<1>3. d \in Tables
  BY <1>1, TablesFacts, LeavingType
<1> HIDE DEF d
<1>4. l \in [COs -> SUBSET Users] /\ [d EXCEPT !.lapsed[c] = @ \ {u}] = [d EXCEPT !.lapsed = l]
  BY <1>3 DEF Tables
<1> HIDE DEF l
<1>5. [d EXCEPT !.lapsed = l] \in Tables
  BY <1>3, <1>4, TablesKeep
<1>6. <<Task("collaboration", c)>> \in Seq(Tasks)
  BY TaskTypes DEF TaskKinds
<1> QED BY <1>2, <1>4, <1>5, <1>6, CommitKeeps

LEMMA GroupMembersKeep ==
  ASSUME ProvisionInv, NEW g \in Subs, NEW u \in Users,
         AddGroupMember(g, u) \/ RemoveGroupMember(g, u)
  PROVE  ProvisionInv'
<1>1. <<Task("group", g)>> \in Seq(Tasks) /\ g \in Groups
  BY TaskTypes DEF TaskKinds
<1>2. CASE AddGroupMember(g, u)
  <2> DEFINE f == [h \in {g} |-> tables.member[g] \cup {u}]
  <2>1. Commit("AddGroupMember", SetMembers(tables, f), <<Task("group", g)>>)
    BY <1>2 DEF AddGroupMember
  <2>2. f \in [{g} -> SUBSET Users]
    BY <1>1, TablesFacts
  <2> HIDE DEF f
  <2>3. SetMembers(tables, f) \in Tables
    BY <2>2, TablesFacts, MembersSet
  <2> QED BY <1>1, <2>1, <2>3, CommitKeeps
<1>3. CASE RemoveGroupMember(g, u)
  <2>1. Commit("RemoveGroupMember", Leaving(tables, {g}, u), <<Task("group", g)>>)
    BY <1>3 DEF RemoveGroupMember
  <2>2. Leaving(tables, {g}, u) \in Tables
    BY <1>1, TablesFacts, LeavingType
  <2> QED BY <1>1, <2>1, <2>2, CommitKeeps
<1> QED BY <1>2, <1>3

LEMMA SaveGroupKeeps ==
  ASSUME ProvisionInv, NEW op, NEW g \in Subs, SaveGroup(op, g)
  PROVE  ProvisionInv'
<1> DEFINE x == tables.subs \cup {g}
           d == [tables EXCEPT !.subs = x]
           f == [h \in {g} |-> d.member[Parent[g]]]
           e == IF g \in AutoGroups THEN SetMembers(d, f) ELSE d
           ts == IF g \in AutoGroups THEN <<Task("group", g), Task("group", g)>>
                 ELSE <<Task("group", g)>>
<1>1. Commit(op, e, ts)
  BY DEF SaveGroup
<1>2. x \in SUBSET Subs
  BY TablesFacts
<1> HIDE DEF x
<1>3. d \in Tables
  BY <1>2, TablesFacts, TablesKeep
<1> HIDE DEF d
<1>4. Parent[g] \in Groups /\ g \in Groups
  BY ProvisionAssumption
<1>5. f \in [{g} -> SUBSET Users]
  BY <1>3, <1>4 DEF Tables
<1> HIDE DEF f
<1>6. e \in Tables
  BY <1>3, <1>5, MembersSet
<1>7. ts \in Seq(Tasks)
  <2>1. Task("group", g) \in Tasks
    BY <1>4, TaskTypes DEF TaskKinds
  <2> QED BY <2>1
<1> HIDE DEF e, ts
<1> QED BY <1>1, <1>6, <1>7, CommitKeeps

LEMMA CreateCollaborationKeeps ==
  ASSUME ProvisionInv, NEW c \in COs, NEW u \in Users, CreateCollaboration(c, u)
  PROVE  ProvisionInv'
<1> DEFINE x == tables.cos \cup {c}
           d == [tables EXCEPT !.cos = x]
           f == [h \in {c} |-> {u}]
<1>1. Commit("CreateCollaboration", SetMembers(d, f), <<Task("collaboration", c)>>)
  BY DEF CreateCollaboration
<1>2. x \in SUBSET COs
  BY TablesFacts
<1> HIDE DEF x
<1>3. d \in Tables
  BY <1>2, TablesFacts, TablesKeep
<1> HIDE DEF d
<1>4. f \in [{c} -> SUBSET Users]
  OBVIOUS
<1> HIDE DEF f
<1>5. SetMembers(d, f) \in Tables
  BY <1>3, <1>4, MembersSet
<1>6. <<Task("collaboration", c)>> \in Seq(Tasks)
  BY TaskTypes DEF TaskKinds
<1> QED BY <1>1, <1>5, <1>6, CommitKeeps

LEMMA DeleteUserKeeps ==
  ASSUME ProvisionInv, NEW u \in Users, ApiDeleteUser(u)
  PROVE  ProvisionInv'
<1> DEFINE d == Leaving(tables, Groups, u)
           us == d.users \ {u}
           l == [c \in COs |-> tables.lapsed[c] \ {u}]
           e == [d EXCEPT !.users = us]
           t == [Task("userDeleted", u) EXCEPT !.cos = CollaborationsOf(tables, u)]
<1>1. Commit("DeleteUser", [d EXCEPT !.users = @ \ {u}, !.lapsed = l], <<t>>)
  BY DEF ApiDeleteUser
<1>2. d \in Tables
  BY TablesFacts, LeavingType
<1>3. l \in [COs -> SUBSET Users]
  BY TablesFacts
<1> HIDE DEF d, l
<1>4. us \in SUBSET Users /\ [d EXCEPT !.users = @ \ {u}, !.lapsed = l] = [e EXCEPT !.lapsed = l]
  BY <1>2 DEF Tables
<1> HIDE DEF us
<1>5. [e EXCEPT !.lapsed = l] \in Tables
  <2>1. e \in Tables
    BY <1>2, <1>4, TablesKeep
  <2> HIDE DEF e
  <2> QED BY <2>1, <1>3, TablesKeep
<1>6. <<t>> \in Seq(Tasks)
  <2>1. CollaborationsOf(tables, u) \subseteq COs
    BY TablesFacts DEF CollaborationsOf
  <2>2. Task("userDeleted", u) \in Tasks
    BY TaskTypes DEF TaskKinds
  <2>3. t \in Tasks
    BY <2>1, <2>2 DEF Tasks
  <2> HIDE DEF t
  <2> QED BY <2>3
<1> HIDE DEF e, t
<1> QED BY <1>1, <1>4, <1>5, <1>6, CommitKeeps

(* What a request leaves unchanged or changes in one place.                *)
LEMMA ConnectionsKeep ==
  ASSUME ProvisionInv, NEW c \in COs, ConnectService(c) \/ DisconnectService(c)
  PROVE  ProvisionInv'
<1> DEFINE more == tables.direct \cup {c}
           less == tables.direct \ {c}
<1>1. /\ more \in SUBSET COs /\ less \in SUBSET COs /\ tables \in Tables
      /\ <<Task("serviceAdded", c)>> \in Seq(Tasks) /\ Task("serviceDeleted", c) \in Tasks
  BY TablesFacts, TaskTypes DEF TaskKinds
<1>2. \/ Commit("ConnectService", [tables EXCEPT !.direct = more], <<Task("serviceAdded", c)>>)
      \/ CommitAndRun("DisconnectService", [tables EXCEPT !.direct = less], Task("serviceDeleted", c))
  BY DEF ConnectService, DisconnectService
<1> HIDE DEF more, less
<1>3. [tables EXCEPT !.direct = more] \in Tables /\ [tables EXCEPT !.direct = less] \in Tables
  BY <1>1, TablesKeep
<1> QED BY <1>1, <1>2, <1>3, CommitKeeps, CommitAndRunKeeps

LEMMA OrganisationKeeps ==
  ASSUME ProvisionInv, ConnectOrganisation \/ DisconnectOrganisation \/ ApiDeleteOrganisation
  PROVE  ProvisionInv'
<1> DEFINE d == [tables EXCEPT !.org = "connected"]
           e == [tables EXCEPT !.org = "unconnected"]
<1>1. /\ tables \in Tables /\ <<Task("orgServiceAdded", None)>> \in Seq(Tasks)
      /\ <<Task("orgServiceDeleted", None)>> \in Seq(Tasks)
      /\ Task("organisationDeleted", None) \in Tasks
  BY TablesFacts, TaskTypes DEF TaskKinds
<1>2. d \in Tables /\ e \in Tables
  BY <1>1, TablesKeep
<1>3. \/ Commit("ConnectOrganisation", d, <<Task("orgServiceAdded", None)>>)
      \/ Commit("DisconnectOrganisation", e, <<Task("orgServiceDeleted", None)>>)
      \/ CommitAndRun("DeleteOrganisation", tables, Task("organisationDeleted", None))
  BY DEF ConnectOrganisation, DisconnectOrganisation, ApiDeleteOrganisation
<1> HIDE DEF d, e
<1> QED BY <1>1, <1>2, <1>3, CommitKeeps, CommitAndRunKeeps

LEMMA SameTablesKeep ==
  ASSUME ProvisionInv,
         \/ \E c \in COs : UpdateCollaboration(c) \/ ApiDeleteCollaboration(c)
         \/ \E g \in Subs : ApiDeleteGroup(g)
  PROVE  ProvisionInv'
<1>1. tables \in Tables
  BY TablesFacts
<1>2. ASSUME NEW c \in COs, UpdateCollaboration(c) \/ ApiDeleteCollaboration(c)
      PROVE  ProvisionInv'
  <2>1. <<Task("collaboration", c)>> \in Seq(Tasks) /\ Task("collaborationDeleted", c) \in Tasks
    BY TaskTypes DEF TaskKinds
  <2>2. \/ Commit("UpdateCollaboration", tables, <<Task("collaboration", c)>>)
        \/ CommitAndRun("DeleteCollaboration", tables, Task("collaborationDeleted", c))
    BY <1>2 DEF UpdateCollaboration, ApiDeleteCollaboration
  <2> QED BY <1>1, <2>1, <2>2, CommitKeeps, CommitAndRunKeeps
<1>3. ASSUME NEW g \in Subs, ApiDeleteGroup(g) PROVE ProvisionInv'
  <2>1. Task("groupDeleted", g) \in Tasks
    BY TaskTypes DEF TaskKinds
  <2>2. CommitAndRun("DeleteGroup", tables, Task("groupDeleted", g))
    BY <1>3 DEF ApiDeleteGroup
  <2> QED BY <1>1, <2>1, <2>2, CommitAndRunKeeps
<1> QED BY <1>2, <1>3

LEMMA UpdateUserKeeps ==
  ASSUME ProvisionInv, NEW u \in Users, NEW x \in Attrs, UpdateUser(u, x)
  PROVE  ProvisionInv'
<1> DEFINE f == [tables.uattr EXCEPT ![u] = x]
<1>1. f \in [Users -> Attrs] /\ tables \in Tables
  BY TablesFacts
<1>2. Commit("UpdateUser", [tables EXCEPT !.uattr[u] = x], <<Task("user", u)>>)
  BY DEF UpdateUser
<1>3. [tables EXCEPT !.uattr[u] = x] = [tables EXCEPT !.uattr = f]
  BY <1>1 DEF Tables
<1> HIDE DEF f
<1>4. [tables EXCEPT !.uattr = f] \in Tables
  BY <1>1, TablesKeep
<1>5. <<Task("user", u)>> \in Seq(Tasks)
  BY TaskTypes DEF TaskKinds
<1> QED BY <1>2, <1>3, <1>4, <1>5, CommitKeeps

LEMMA ExpireMembershipKeeps ==
  ASSUME ProvisionInv, NEW c \in COs, NEW u \in Users, ExpireMembership(c, u)
  PROVE  ProvisionInv'
<1> DEFINE l == [tables.lapsed EXCEPT ![c] = @ \cup {u}]
<1>1. l \in [COs -> SUBSET Users] /\ tables \in Tables
  BY TablesFacts
<1>2. Commit("ExpireMembership", [tables EXCEPT !.lapsed[c] = @ \cup {u}], << >>)
  BY DEF ExpireMembership
<1>3. [tables EXCEPT !.lapsed[c] = @ \cup {u}] = [tables EXCEPT !.lapsed = l]
  BY <1>1 DEF Tables
<1> HIDE DEF l
<1>4. [tables EXCEPT !.lapsed = l] \in Tables
  BY <1>1, TablesKeep
<1> QED BY <1>2, <1>3, <1>4, TaskTypes, CommitKeeps

LEMMA RequestsKeep ==
  ASSUME ProvisionInv, ApiRequests
  PROVE  ProvisionInv'
<1>1. ASSUME NEW c \in COs, NEW u \in Users,
             \/ AddMember(c, u) \/ RemoveMember(c, u) \/ CreateCollaboration(c, u)
             \/ ExpireMembership(c, u)
      PROVE  ProvisionInv'
  BY <1>1, AddMemberKeeps, RemoveMemberKeeps, CreateCollaborationKeeps, ExpireMembershipKeeps
<1>2. ASSUME NEW g \in Subs, CreateGroup(g) \/ UpdateGroup(g) PROVE ProvisionInv'
  BY <1>2, SaveGroupKeeps DEF CreateGroup, UpdateGroup
<1> QED BY <1>1, <1>2, GroupMembersKeep, ConnectionsKeep, OrganisationKeeps, SameTablesKeep,
           UpdateUserKeeps, DeleteUserKeeps DEF ApiRequests

(* A sweep leaves each user under an id and groups that list those of their*)
(* members.                                                                *)
LEMMA InitProvisionInv == ProvisionInit => ProvisionInv
<1> SUFFICES ASSUME ProvisionInit PROVE ProvisionInv
  OBVIOUS
<1>1. load \in Loads /\ tables \in Tables /\ queue = << >> /\ ever = tables.member
      /\ work = [a \in Actors |-> Idle] /\ ops = 0 /\ errors = 0
  BY LoadAssumption DEF ProvisionInit
<1>2. /\ tables.member \in [Groups -> SUBSET Users] /\ tables.uattr \in [Users -> Attrs]
      /\ ever \in [Groups -> SUBSET Users]
  BY <1>1 DEF Tables
<1> DEFINE S == SweptUsers(tables)
           n == Cardinality(S)
           q == SetToSeq(S)
           G == {g \in Groups : Reaches(tables, g)}
           m == Cardinality(G)
           p == SetToSeq(G)
<1>3. S \subseteq Users /\ \A g \in G : tables.member[g] \subseteq S
  BY <1>2 DEF SweptUsers
<1>4. /\ n \in Nat /\ q \in [1..n -> S] /\ \A u \in S : \E i \in 1..n : q[i] = u
      /\ m \in Nat /\ p \in [1..m -> G] /\ 1..n \subseteq Ids
  <2>1. IsFiniteSet(S) /\ IsFiniteSet(G) /\ n <= Cardinality(Users) /\ Cardinality(Users) \in Nat
    <3>1. G \subseteq Groups
      OBVIOUS
    <3> HIDE DEF S, G
    <3> QED BY <3>1, <1>3, FS_Subset, FS_CardinalityType, ProvisionAssumption
  <2> HIDE DEF S, G
  <2>2. /\ n \in Nat /\ q \in [1..n -> S] /\ \A u \in S : \E i \in 1..n : q[i] = u
        /\ m \in Nat /\ p \in [1..m -> G]
    BY <2>1, ListOfSet
  <2>3. 1..n \subseteq 1..Cardinality(Users)
    <3> HIDE DEF n
    <3> QED BY <2>1, <2>2
  <2> QED BY <2>2, <2>3, ProvisionAssumption
<1>5. \A u \in S : SweptId(tables, u) \in 1..n /\ q[SweptId(tables, u)] = u
  <2> SUFFICES ASSUME NEW u \in S PROVE SweptId(tables, u) \in 1..n /\ q[SweptId(tables, u)] = u
    OBVIOUS
  <2>1. \E i \in 1..n : q[i] = u
    BY <1>4
  <2> QED BY <2>1, Zenon DEF SweptId
<1> DEFINE obj(u) == [ext |-> u, attr |-> tables.uattr[u]]
           ids(g) == {SweptId(tables, u) : u \in tables.member[g]}
<1>6. /\ rUsers = [i \in Ids |-> IF i \in 1..n THEN obj(q[i]) ELSE Unused]
      /\ rGroups = [i \in Ids |-> IF i \in 1..m THEN GroupBody(p[i], ids(p[i])) ELSE Unused]
  BY Zenon DEF ProvisionInit, Swept
<1> HIDE DEF S, n, q, G, m, p
<1>7. \A u \in Users : obj(u) \in UserObject /\ obj(u).ext = u /\ obj(u) # Unused /\ obj(u) # Gone
  BY <1>2, RemoteAssumption DEF UserObject
<1>8. \A g \in G : ids(g) \subseteq Ids
  BY <1>3, <1>4, <1>5
<1>9. \A g \in G : /\ GroupBody(g, ids(g)) \in GroupObject /\ GroupBody(g, ids(g)).ext = g
                   /\ GroupBody(g, ids(g)).members = ids(g)
  <2>1. (CHOOSE x \in Attrs : TRUE) \in Attrs
    BY RemoteAssumption
  <2>2. \A g \in G : g \in Groups
    BY DEF G
  <2> HIDE DEF ids
  <2>3. ASSUME NEW g \in G
        PROVE  /\ GroupBody(g, ids(g)) \in GroupObject /\ GroupBody(g, ids(g)).ext = g
               /\ GroupBody(g, ids(g)).members = ids(g)
    <3>1. ids(g) \in SUBSET (Ids \cup Users)
      BY <1>8
    <3> QED BY <2>1, <2>2, <3>1 DEF GroupBody, GroupObject
  <2> QED BY <2>3
<1>10. rUsers \in RemoteUsers
  <2> HIDE DEF obj
  <2>1. \A i \in 1..n : q[i] \in Users
    BY <1>3, <1>4
  <2> QED BY <2>1, <1>6, <1>7 DEF RemoteUsers
<1>11. rGroups \in RemoteGroups
  <2> DEFINE gb(i) == GroupBody(p[i], ids(p[i]))
  <2>1. \A i \in 1..m : gb(i) \in GroupObject
    BY <1>4, <1>9
  <2>2. rGroups = [i \in Ids |-> IF i \in 1..m THEN gb(i) ELSE Unused]
    BY <1>6
  <2> HIDE DEF gb
  <2> QED BY <2>1, <2>2 DEF RemoteGroups
<1>12. ListsMembers(rUsers, rGroups, ever)
  <2> SUFFICES ASSUME NEW i \in Live(rGroups), NEW k \in rGroups[i].members
               PROVE  k \in Ids /\ IsOf(rUsers, k, ever[rGroups[i].ext])
    BY DEF ListsMembers
  <2>1. i \in 1..m /\ rGroups[i] = GroupBody(p[i], ids(p[i]))
    BY <1>6 DEF Live
  <2> DEFINE g == p[i]
  <2>2. g \in G
    BY <1>4, <2>1
  <2>3. rGroups[i].ext = g /\ rGroups[i].members = ids(g)
    BY <1>9, <2>1, <2>2
  <2>4. PICK u \in tables.member[g] : k = SweptId(tables, u)
    BY <2>3
  <2>5. u \in S /\ u \in Users /\ k \in 1..n /\ q[k] = u /\ k \in Ids
    BY <1>3, <1>4, <1>5, <2>2, <2>4
  <2>6. rUsers[k] = obj(u)
    BY <1>6, <2>5
  <2> HIDE DEF obj, g
  <2>7. u \in ever[g]
    BY <1>1, <2>4
  <2> QED BY <1>7, <2>3, <2>5, <2>6, <2>7 DEF IsOf
<1>13. Idle \in Threads /\ Sound(Idle, rUsers, ever)
  BY <1>2, NoTaskType, IdleIsSound DEF Idle
<1>14. queue \in Seq(Tasks) /\ work \in [Actors -> Threads]
  BY <1>1, <1>13
<1>15. ProvisionTypeOK
  BY <1>1, <1>2, <1>10, <1>11, <1>14 DEF ProvisionTypeOK
<1>16. WereMembers(tables, ever)
  BY <1>1 DEF WereMembers
<1> QED BY <1>1, <1>12, <1>13, <1>15, <1>16 DEF ProvisionInv

(* In every state: the types, and what each thread carries is of users who *)
(* were members.                                                           *)
THEOREM ProvisionInvHolds == ProvisionSpec => []ProvisionInv
<1>1. ASSUME ProvisionInv, [ProvisionNext]_provisionVars PROVE ProvisionInv'
  <2>1. CASE UNCHANGED provisionVars
    BY <1>1, <2>1 DEF provisionVars, ProvisionInv, ProvisionTypeOK, ListsMembers, Live
  <2>2. CASE ApiRequests
    BY <1>1, <2>2, RequestsKeep
  <2>3. ASSUME NEW w \in Workers, Take(w) PROVE ProvisionInv'
    BY <1>1, <2>3, TakeKeeps
  <2>4. ASSUME NEW a \in Actors, ThreadStep(a) \/ AbortTask(a) PROVE ProvisionInv'
    BY <1>1, <2>4, ThreadStepKeeps, AbortKeeps
  <2>5. CASE Restart
    BY <1>1, <2>5, RestartKeeps
  <2> QED BY <1>1, <2>1, <2>2, <2>3, <2>4, <2>5 DEF ProvisionNext
<1> QED BY <1>1, InitProvisionInv, PTL DEF ProvisionSpec

(* Whatever the order of tasks, the errors, exceptions and restarts, a     *)
(* remote group never shows the service a user who was never a member of it*)
(* (scim.py, membership_user_scim_objects).                                *)
THEOREM StrangersStayOut == ProvisionSpec => []NoStrangers
<1>1. ProvisionInv => NoStrangers
  BY DEF ProvisionInv, ListsMembers, NoStrangers, Resolve, IsOf, Live
<1> QED BY <1>1, ProvisionInvHolds, PTL
=============================================================================
