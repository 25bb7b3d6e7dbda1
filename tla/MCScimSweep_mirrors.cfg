SPECIFICATION FairSweepSpec
CONSTANTS
  u1 = u1  u2 = u2  g1 = g1  g2 = g2  a = a  b = b
  Users = {u1, u2}  Groups = {g1, g2}  Ids = {1, 2, 3, 4, 5, 6}  Attrs = {a, b}
  Unused = Unused  Gone = Gone  None = None
  DbStates <- MCDbs
  RemoteInit <- MCRemotes
  RemoveOrphans = TRUE
  MaxFailures = 1
  MaxChanges = 1
INVARIANTS SweepMirrors
PROPERTIES Converges
