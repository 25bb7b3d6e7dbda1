SPECIFICATION FairUserSpec
CONSTANTS
  u1 = u1  u2 = u2
  AllUsers = {u1}
  AllowedInactive = 2  ReminderSuspend = 1  ReminderExpiry = 1  RemoveSuspended = 5
  FreeRide = TRUE  MaxUserIdle = 8
  UserModes <- CalmAndRough
PROPERTIES NothingUnannounced LastDateKept InactiveAreDeleted
