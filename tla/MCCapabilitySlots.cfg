\* Two tables of two slots: transfers both ways, slots reused and retired
\* (MaxGen 2), lineages as deep as MaxDepth 2 allows, one of the tables wiped.
CONSTANTS
  Table = {t1, t2}
  NoTable = NoTable
  NumSlots = 2
  Object = {o1}
  NoObject = NoObject
  Right = {transfer, revoke}
  TRANSFER = transfer
  REVOKE = revoke
  MaxGen = 2
  MaxDepth = 2
  MaxInc = 2
  RightsArg <- AllOrNothing
SYMMETRY TableSymmetry
SPECIFICATION Spec
INVARIANTS TypeOK LineageInv Attenuated WalkAgrees
PROPERTIES DeadStaysDead MintedHandlesWork RefinesForest
