--------------------------------- MODULE Window ---------------------------------
(***************************************************************************)
(* ui/web/spike_window.py and the pushes of ui/web/bridge_downloads.py and *)
(* bridge_share.py: the rows of a page that stops being told of every tick *)
(* while it is hidden, and the picture shown over it while it is resized.  *)
(***************************************************************************)
EXTENDS Naturals

CONSTANTS
    Torrents, None,
    Revisions,      \* what a row shows of a record
    MaxTimers       \* resize gestures within 80 ms of one another

VARIABLES
    record,         \* of each torrent of the session, or None
    changed,        \* torrents changed since the last status alert
    row,            \* of each torrent on the page, or None
    loaded, visible,
    live,           \* the bridges' _live
    resizing,       \* _is_native_resizing
    overlay,        \* the picture is shown
    fits,           \* the view has the size of the window
    timers          \* _release_resize_overlay calls due

rows == <<record, changed, row, loaded, visible, live>>
resize == <<resizing, overlay, fits, timers>>
vars == <<rows, resize>>

Init ==
    /\ record = [t \in Torrents |-> None] /\ row = record /\ changed = {}
    /\ loaded = FALSE /\ visible = FALSE /\ live = TRUE
    /\ resizing = FALSE /\ overlay = FALSE /\ fits = TRUE /\ timers = 0

----------------------------------------------------------------------------
Push(t, r) == IF loaded THEN row' = [row EXCEPT ![t] = r] ELSE UNCHANGED row

(* A torrent added is shown at once, hidden or not; so is its removal.     *)
Added(t) ==
    /\ record[t] = None
    /\ \E r \in Revisions : record' = [record EXCEPT ![t] = r] /\ Push(t, r)
    /\ UNCHANGED <<changed, loaded, visible, live, resize>>

Removed(t) ==
    /\ record[t] # None
    /\ record' = [record EXCEPT ![t] = None] /\ Push(t, None)
    /\ changed' = changed \ {t}
    /\ UNCHANGED <<loaded, visible, live, resize>>

(* libtorrent works on; the record follows at the next alert.              *)
Progress(t) ==
    /\ record[t] # None
    /\ \E r \in Revisions \ {record[t]} : record' = [record EXCEPT ![t] = r]
    /\ changed' = changed \cup {t}
    /\ UNCHANGED <<row, loaded, visible, live, resize>>

(* _on_status_batch_updated: what changed, if anybody is looking.          *)
StatusBatch ==
    /\ changed # {}
    /\ changed' = {}
    /\ row' = IF loaded /\ live THEN [t \in Torrents |-> IF t \in changed THEN record[t] ELSE row[t]]
              ELSE row
    /\ UNCHANGED <<record, loaded, visible, live, resize>>

(* The page asks for every row once it has connected.                      *)
PageLoaded ==
    /\ loaded' = TRUE /\ row' = record
    /\ UNCHANGED <<record, changed, visible, live, resize>>

\* mutant: the rows are not sent again
SetLive_NoResync(l) == live' = l /\ UNCHANGED row

(* set_live of both bridges: hidden to visible sends every row once.       *)
SetLive(l) ==
    /\ live' = l
    /\ row' = IF l /\ ~live /\ loaded THEN record ELSE row

(* showEvent, hideEvent, changeEvent, and the close that hides to the tray. *)
ShowOrHide(v) ==
    /\ visible' = v /\ SetLive(v)
    /\ UNCHANGED <<record, changed, loaded, resize>>

----------------------------------------------------------------------------
(* _begin_resize_freeze: nothing to show before the first paint.           *)
BeginResizeFreeze(painted) ==
    /\ ~resizing
    /\ resizing' = painted /\ overlay' = (painted \/ overlay)
    /\ UNCHANGED <<rows, fits, timers>>

(* resizeEvent: only the picture follows while it is frozen.               *)
Resize ==
    /\ fits' = ~resizing
    /\ UNCHANGED <<rows, resizing, overlay, timers>>

EndResizeFreeze ==
    /\ resizing /\ timers < MaxTimers
    /\ resizing' = FALSE /\ fits' = TRUE /\ timers' = timers + 1
    /\ UNCHANGED <<rows, overlay>>

ReleaseResizeOverlay ==
    /\ timers > 0 /\ timers' = timers - 1
    /\ overlay' = (resizing /\ overlay)
    /\ UNCHANGED <<rows, resizing, fits>>

Next ==
    \/ \E t \in Torrents : Added(t) \/ Removed(t) \/ Progress(t)
    \/ StatusBatch \/ PageLoaded
    \/ \E b \in BOOLEAN : ShowOrHide(b) \/ BeginResizeFreeze(b)
    \/ Resize \/ EndResizeFreeze \/ ReleaseResizeOverlay

Spec == Init /\ [][Next]_vars

----------------------------------------------------------------------------
TypeOK ==
    /\ record \in [Torrents -> Revisions \cup {None}]
    /\ row \in [Torrents -> Revisions \cup {None}]
    /\ changed \subseteq Torrents /\ timers \in 0 .. MaxTimers
    /\ {loaded, visible, live, resizing, overlay, fits} \subseteq BOOLEAN

(* A window the user sees shows what the session has, but for what the     *)
(* next alert will tell, and never a torrent that is gone; a page caught   *)
(* in a resize is behind its picture, and no picture stays once the last   *)
(* timer has run.                                                          *)
PageIsCurrent ==
    /\ loaded /\ live => \A t \in Torrents \ changed : row[t] = record[t]
    /\ \A t \in Torrents : row[t] # None => record[t] # None
    /\ resizing => overlay
    /\ overlay /\ ~resizing => timers > 0
    /\ ~resizing => fits
=============================================================================
