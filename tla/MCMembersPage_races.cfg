SPECIFICATION FairSpec
CONSTANTS
  ann = ann  bob = bob  cas = cas  inv = inv
  Users = {ann, bob, cas}  Invites = {inv}
  Invitee <- InviteeIs  Intended <- IntendedIs  Id <- IdIs
  Actors = {ann, bob}  Super = {}
  Scenes <- RaceScenes  Queries <- Searches  Groups <- GroupsAre  NoSearch = NoSearch
INVARIANTS RestingPageIsCurrent
PROPERTIES LastAdminGoesWarnedOrRaced YesMeansWhatWasAsked SpinnerEnds
CHECK_DEADLOCK FALSE
