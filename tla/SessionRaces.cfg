SPECIFICATION Spec
CONSTANTS
  Torrents = {t1}
  Threads = {gui_thread, http}
  Gui = gui_thread
  Full = 1
  SavesPerTick = 1
  MaxAdds = 2
  MaxBacklog = 3
INVARIANTS TypeOK HandleHasRecord LiveIsKnown RowIsLive PendingIsAnswerable
  NoSpuriousFinish FileHasRow CleanExitKeepsProgress Inductive
PROPERTIES OnlyRemovalDeletes ImplementsStore
