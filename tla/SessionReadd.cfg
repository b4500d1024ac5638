SPECIFICATION Spec
CONSTANTS
  Torrents = {t1}
  Threads = {gui_thread, http}
  Gui = gui_thread
  Full = 1
  SavesPerTick = 1
  MaxAdds = 1
  MaxBacklog = 3
PROPERTY AddedAgainKeepsRow
