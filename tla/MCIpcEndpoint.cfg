\* A ring of three slots, two bodies and numbers up to 3, so that head, tail
\* and the numbering wrap many times and slots hold stale messages.
CONSTANTS
  Capacity = 3
  Body = {a, b}
  NoBody = NoBody
  MaxSeq = 3
SYMMETRY BodySymmetry
SPECIFICATION Spec
INVARIANTS TypeOK RingInv
PROPERTIES RefinesFifo
