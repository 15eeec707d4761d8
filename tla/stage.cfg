SPECIFICATION Spec
CONSTANTS
  Targets = {database, studentApi}
  Speed = 300
  InterceptAt = 520
  Fade = 350
  Turn = 900
  Zoom = 9000
  MaxCalls = 5
INVARIANTS StageTypeOK BannerOwnTimeout DeniedStopped
PROPERTY StageClears
