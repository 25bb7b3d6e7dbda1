SPECIFICATION FairSpec
CONSTANTS
  WarnExpiry = 1  KeepExpired = 2
  Inactivity = 3  WarnInactive = 1  KeepSuspended = 1
  PastDates = TRUE  Elsewhere = TRUE  Never = Never
  MinLeft <- Minus2  MaxLeft = 3  MaxIdle = 6
  Modes <- AllModes
INVARIANTS SuspensionBounded
PROPERTIES DeletionAnnounced WarnedInTime AbandonedAreDeleted
