\* Three actions, two of them to be confirmed; two calls in progress at a time,
\* a watermark of three events, three tokens and one crash.
CONSTANTS
  Decision <- MCDecision
  Coroutine = {c1, c2}
  MaxOutstanding = 3
  MaxToken = 3
  MaxCrashes = 1
SYMMETRY CoroutineSymmetry
SPECIFICATION Spec
INVARIANTS ExecutionsAccounted CompletedDidAll
PROPERTIES EndIsFinal
