\* Two axes, short windows, any results and any preset.
SPECIFICATION Spec
CONSTANTS
  AxisOrder <- TwoAxes
  HISTORY = 3
  AXIS_WINDOW = 2
  MIN_SIGNAL = 1
  WARMUP = 1
  SCHED = 2
  MaxLevel = 5
  RatioCap = 2
  Presets = {"medium"}
  Results = {TRUE, FALSE}
  Regrades = TRUE
INVARIANT FollowupsTrackConvincingness
PROPERTIES OneNudge RecoversFromFailure
