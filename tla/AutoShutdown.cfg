SPECIFICATION FairSpec
CONSTANTS
  Torrents = {t1, t2}
  MaxAlerts = 2
  MaxExtractions = 2
INVARIANTS TypeOK WorkIsCounted OneTimer NoCountdownAtQuit DeferredHasBusy
PROPERTY DeferredIsRetried
CHECK_DEADLOCK FALSE
