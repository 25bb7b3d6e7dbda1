SPECIFICATION Spec
CONSTANTS
  ann = ann  ben = ben
  Users <- MCUsers  Scenes <- Filling
INVARIANTS VerdictsMatch ComesInOnce EndsAfterInvitation
PROPERTY SavesWhatWasTyped
CHECK_DEADLOCK FALSE
