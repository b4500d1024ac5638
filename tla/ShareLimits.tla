----------------------------- MODULE ShareLimits -----------------------------
(***************************************************************************)
(* How engine/share_limits.py keeps what it tracks: in memory, and in a    *)
(* file written half a second after the last change, at quit, and read at  *)
(* the next launch.  Policies has what a limit does to a torrent.          *)
(***************************************************************************)
CONSTANTS
    Torrents    \* info-hashes

VARIABLES
    process,    \* "running", "quitting" (after the flush) or "off"
    tracked,    \* _limits: none, tracked or reached
    saving,     \* _save_timer is active
    stored,     \* what the file holds
    failed      \* history: the last write failed (disk full, file locked)

vars == <<process, tracked, saving, stored, failed>>

Limits == [Torrents -> {"none", "tracked", "reached"}]

Init ==
    /\ process = "running"
    /\ tracked = [h \in Torrents |-> "none"] /\ stored = tracked
    /\ saving = FALSE /\ failed = FALSE

\* mutant: the timer is not started again
ScheduleSave_Forgets == saving' = saving

ScheduleSave == saving' = TRUE

Alive == process # "off"

(* startShare, and the default policy when a record first says seeding.    *)
Track(h) ==
    /\ Alive
    /\ tracked' = [tracked EXCEPT ![h] = "tracked"]
    /\ ScheduleSave
    /\ UNCHANGED <<process, stored, failed>>

Reached(h) ==
    /\ Alive /\ tracked[h] = "tracked"
    /\ tracked' = [tracked EXCEPT ![h] = "reached"]
    /\ ScheduleSave
    /\ UNCHANGED <<process, stored, failed>>

(* Stop sharing, or torrent_removed.                                       *)
Untrack(h) ==
    /\ Alive /\ tracked[h] # "none"
    /\ tracked' = [tracked EXCEPT ![h] = "none"]
    /\ ScheduleSave
    /\ UNCHANGED <<process, stored, failed>>

(* _save, into a temporary file that replaces the other: all or nothing.   *)
Save ==
    /\ saving' = FALSE
    /\ \/ stored' = tracked /\ failed' = FALSE
       \/ stored' = stored /\ failed' = TRUE

SaveTimer == Alive /\ saving /\ Save /\ UNCHANGED <<process, tracked>>

(* flush_pending_save, early in the quit; the page and the timer can still *)
(* be served while shutdown() pumps events.                                *)
Quit ==
    /\ process = "running"
    /\ process' = "quitting"
    /\ IF saving THEN Save ELSE UNCHANGED <<saving, stored, failed>>
    /\ UNCHANGED tracked

End ==
    /\ Alive                    \* from "running": a crash
    /\ process' = "off"
    /\ UNCHANGED <<tracked, saving, stored, failed>>

Launch ==
    /\ process = "off"
    /\ process' = "running"
    /\ tracked' = stored
    /\ saving' = FALSE /\ failed' = FALSE
    /\ UNCHANGED stored

Next ==
    \/ \E h \in Torrents : Track(h) \/ Reached(h) \/ Untrack(h)
    \/ SaveTimer \/ Quit \/ End \/ Launch

Spec == Init /\ [][Next]_vars

----------------------------------------------------------------------------
TypeOK ==
    /\ process \in {"running", "quitting", "off"}
    /\ tracked \in Limits /\ stored \in Limits
    /\ saving \in BOOLEAN /\ failed \in BOOLEAN

(* Every change of what is tracked is in the file, or due to be written,   *)
(* or the last write failed: nothing else is lost.                         *)
FileFollows == stored = tracked \/ saving \/ failed
=============================================================================
