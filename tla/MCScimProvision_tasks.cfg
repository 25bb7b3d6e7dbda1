SPECIFICATION FairProvisionSpec
CONSTANTS
  u1 = u1  u2 = u2  c1 = c1  c2 = c2  g1 = g1  a = a  b = b  w1 = w1  w2 = w2
  Users = {u1, u2}  COs = {c1, c2}  Subs = {g1}  Groups = {c1, c2, g1}
  Ids = {1, 2, 3, 4, 5, 6}  Attrs = {a, b}
  Unused = Unused  Gone = Gone  None = None
  Parent <- Parents  AutoGroups = {g1}
  Workers = {w1, w2}  Web = web
  Loads <- MCLoads
CHECK_DEADLOCK FALSE
INVARIANTS SyncedAtRest NoStrangers
PROPERTIES Settles
