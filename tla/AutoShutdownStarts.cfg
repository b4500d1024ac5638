SPECIFICATION Spec
CONSTANTS
  Torrents = {t1, t2}
  MaxAlerts = 2
  MaxExtractions = 2
SYMMETRY HashSymmetry
PROPERTY EachFinishStartsCountdown
CHECK_DEADLOCK FALSE
