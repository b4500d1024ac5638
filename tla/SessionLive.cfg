SPECIFICATION FairSpec
CONSTANTS
  Torrents = {t1}
  Threads = {gui_thread, http}
  Gui = gui_thread
  Full = 1
  SavesPerTick = 1
  MaxAdds = 2
  MaxBacklog = 2
PROPERTIES RestoreResolves RemovalCompletes CompletionSaved
