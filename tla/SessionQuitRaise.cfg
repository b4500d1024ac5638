SPECIFICATION Spec
CONSTANTS
  Torrents = {t1, t2}
  Threads = {gui_thread}
  Gui = gui_thread
  Full = 1
  SavesPerTick = 1
  MaxAdds = 1
  MaxBacklog = 3
PROPERTY StaleAlertIsSkipped
