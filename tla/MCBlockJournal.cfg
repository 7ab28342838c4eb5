\* The seven images of user_program.asm on one disk, in any order, with the power
\* failing anywhere; ring indices modulo 4 wrap inside one boot.
CONSTANTS
  Sector <- MCSector
  Data <- MCData
  Blank = "zero"
  IndexSpan = 4
SPECIFICATION Spec
INVARIANTS LogIsTrue SaidMeansDurable
PROPERTIES OkMeansDone GivesUpOnUnfinished
