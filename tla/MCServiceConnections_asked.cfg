SPECIFICATION Spec
CONSTANT Scenes <- MCScenes
CHECK_DEADLOCK FALSE
INVARIANTS ListedOnce PagesCatchUp AskedOrConnected
