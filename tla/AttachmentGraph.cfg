SPECIFICATION FairSpec
CONSTANTS
  a = a
  b = b
  c = c
  d = d
  typeS = typeS
  typeT = typeT
  Resource = {a, b, c, d}
  Type = {typeS, typeT}
  None = None
  Id <- MCId
  Graphs <- MCGraphs
  MaxAttached = 3
  MaxPending = 3
  MaxAttach = 3
  MaxFault = 1
CHECK_DEADLOCK FALSE
INVARIANTS
  TypeOK
  NoDeadlock
  GraphIsWhole
  HeldIsServed
PROPERTIES
  GenuineCycles
  AttachSettles
