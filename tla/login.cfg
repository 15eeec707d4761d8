SPECIFICATION Spec
CONSTANTS
  Threads = {th1, th2}
  Tab = Tab
  Nobody = Nobody
  MaxFailed = 1
  Window = 2
  MaxPending = 1
INVARIANTS FormConsistent FailuresBounded
PROPERTIES LockoutHonest LockoutEnds GrantKept
