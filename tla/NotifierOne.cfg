SPECIFICATION NFairSpec
CONSTANTS
  Fingerprints = {f1, f2}
  Notifiers = {n1}
  MaxAborts = 2
INVARIANTS NoPendingSkipped ResendsAreAborts
PROPERTIES CursorMonotone EveryPendingMailed
