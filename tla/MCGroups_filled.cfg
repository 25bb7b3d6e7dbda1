SPECIFICATION Spec
CONSTANTS
  ann = ann  ben = ben  g1 = g1  g2 = g2  g3 = g3  x = x  y = y  m1 = m1  m2 = m2
  Admins = {ann, ben}  Ids = {g1, g2, g3}  Names = {x, y}  Members = {m1, m2}  None = None
  Scenes <- MCScenes
INVARIANTS NamesApart AutoGroupsHoldEveryone PagesCatchUp
CHECK_DEADLOCK FALSE
