CONSTANTS
  DirEntries = {1, 2, 3, 4, 5}
  Hidden = {3}
  Times = {1, 2}
  PageSizes = {1, 2, 3}
  Margin = 1
  RetainCap = 4
SPECIFICATION ListSpec
INVARIANTS
  ListPagesDisjoint
