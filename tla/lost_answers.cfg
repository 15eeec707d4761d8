SPECIFICATION Spec
CONSTANTS
  Old = Old
  New = New
  Blank = Blank
  ProbeLimit = 1
  OldFound = {"ABSENT", "AMBIGUOUS", "CONFIRMED", "QUARANTINED"}
  NewFound = {"ABSENT", "AMBIGUOUS", "CONFIRMED", "QUARANTINED"}
  Lossy = TRUE
  Shared = TRUE
  MaxInFlight = 1
  MaxClicks = 2
INVARIANTS PanelFailsClosed NeverStuck
