SPECIFICATION FairSpec
CONSTANTS
  t1 = t1  t2 = t2
  Tabs <- MCTabs  Limit = 2  Scenes <- AllScenes
INVARIANTS NeverLockedOut QrCodeCounts
PROPERTIES StepsBeforePages SuspensionIsEarned WaitingEnds
CHECK_DEADLOCK FALSE
