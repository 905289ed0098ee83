\* One link, more changes, a snapshot decoded late.
SPECIFICATION Spec
CONSTANTS
  Link = {a}
  Prop = {1, 2}
  Obj = {o1, o2}
  None = None
  MaxId = 1
  MaxRevision = 3
  MaxGeneration = 1
  MaxSession = 3
  MaxRestart = 0
  MaxLate = 1
  MaxNotified = 2
SYMMETRY Symmetry
CHECK_DEADLOCK FALSE
PROPERTY NeverRegresses
