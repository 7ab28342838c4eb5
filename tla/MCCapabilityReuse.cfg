\* Slots are used once (MaxGen 1), but tables are wiped and opened again
\* (MaxInc 3) while other tables hold capabilities derived from theirs; two
\* objects.
CONSTANTS
  Table = {t1, t2}
  NoTable = NoTable
  NumSlots = 2
  Object = {o1, o2}
  NoObject = NoObject
  Right = {transfer, revoke}
  TRANSFER = transfer
  REVOKE = revoke
  MaxGen = 1
  MaxDepth = 2
  MaxInc = 3
  RightsArg <- TransferOrRevoke
SYMMETRY TableSymmetry
SPECIFICATION Spec
PROPERTY RefinesForest
