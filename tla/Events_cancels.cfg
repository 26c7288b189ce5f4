SPECIFICATION FairSpec
CONSTANTS
  Callers = {c1, c2}
  Events = {e1, e2}
  MaxEvents = 1
  MaxCancels = 2
INVARIANTS
  TypeOK
  OnlyCancelledSkipped
  LoneCancelHonoured
PROPERTY
  Settled
  IdsDistinctIfApart
