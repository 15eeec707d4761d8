CONSTANTS
  Workloads = {w1, w2}
  Blank = blank
  Rules = {r1, r2}
  MaxBreaches = 1
  MaxActions = 1
SPECIFICATION Spec
INVARIANT PagesPopulated
CHECK_DEADLOCK FALSE
