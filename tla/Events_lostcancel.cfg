SPECIFICATION Spec
CONSTANTS
  Callers = {c1}
  Events = {e1, e2, e3}
  MaxEvents = 2
  MaxCancels = 3
INVARIANT
  CancelHonoured
