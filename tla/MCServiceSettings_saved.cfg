SPECIFICATION Spec
CONSTANTS
  ann = ann  ben = ben
  Admins <- MCAdmins  Kinds = {"pam", "scim", "introspection"}  Scenes <- MCScenes
INVARIANTS PagesCatchUp TokensHaveTheirSwitch UntouchedDraftIsValid WaitsForSomething
PROPERTY TokensGoWithAWarning
CHECK_DEADLOCK FALSE
