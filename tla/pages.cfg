CONSTANTS
  Workloads = {w1, w2}
  Blank = blank
  Rules = {r1, r2}
  MaxBreaches = 2
  MaxActions = 3
SPECIFICATION Spec
INVARIANTS TablesConsistent DecisionsAgree AnimationsSettle ReadYourWrites
PROPERTY Settles
CHECK_DEADLOCK FALSE
