SPECIFICATION Spec
CONSTANT Scenes <- MCScenes
CHECK_DEADLOCK FALSE
INVARIANTS PagesCatchUp OneOpenRequest DecisionsStand ActsOnWhatWasAsked
