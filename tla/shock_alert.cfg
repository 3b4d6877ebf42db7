\* Readings before and after the application's hooks are set, and clears.
SPECIFICATION FairSpec
CONSTANTS
  Level = {0, 1, 2, 3}
  InvalidLevel = 9
  ChangeThreshold = 1
  ShockThreshold = 1
  MaxClears = 3
INVARIANTS
  AlertShown
PROPERTY
  PeakAlerts
