SPECIFICATION Spec
CONSTANTS
  Scenes = 10
  MaxClicks = 8
  NoTimer = NoTimer
INVARIANTS OneInterval PlayerConsistent
PROPERTY ImplementsShow
