\* As MCBlockJournal.cfg; the claim of the message without its proviso.
CONSTANTS
  Sector <- MCSector
  Data <- MCData
  Blank = "zero"
  IndexSpan = 4
SPECIFICATION Spec
INVARIANT DurableIsDurable
