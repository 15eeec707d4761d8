SPECIFICATION Spec
CONSTANTS
  Old = Old
  New = New
  Blank = Blank
  ProbeLimit = 3
  OldFound = {"CONFIRMED"}
  NewFound = {"AMBIGUOUS", "CONFIRMED"}
  Lossy = FALSE
  Shared = FALSE
  MaxInFlight = 1
  MaxClicks = 3
INVARIANTS ShowConsistent OneTimeout StoryTold
PROPERTY ImplementsShow
