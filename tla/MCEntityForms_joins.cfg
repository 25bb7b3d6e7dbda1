SPECIFICATION Spec
CONSTANTS
  ann = ann  ben = ben
  Users <- MCUsers  Scenes <- Joining
PROPERTY EditKeepsJoinRequests
CHECK_DEADLOCK FALSE
