\* Two links, ids handed out again after a restart, every reply decoded at once.
SPECIFICATION Spec
CONSTANTS
  Link = {a, b}
  Prop = {1}
  Obj = {o1, o2}
  None = None
  MaxId = 2
  MaxRevision = 1
  MaxGeneration = 2
  MaxSession = 2
  MaxRestart = 1
  MaxLate = 0
  MaxNotified = 1
SYMMETRY Symmetry
CHECK_DEADLOCK FALSE
INVARIANTS
  TypeOK
  FreshWhenSubscribed
  HeldIsKeptFresh
  CursorHonest
  NoCrossTalk
  ReleasedStaysReleasedIfCalm
