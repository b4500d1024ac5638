----------------------------- MODULE IpBlocklist -----------------------------
(***************************************************************************)
(* The wait for the IP blocklist (engine/ip_blocklist.py and the part of   *)
(* SessionManager that uses it): the whole session is paused at launch     *)
(* until a pool thread has parsed the file and the GUI thread has applied  *)
(* it.  A file is a set of blocks of lines; the parse looks at the cancel  *)
(* flag between two blocks.                                                *)
(***************************************************************************)
EXTENDS Naturals

CONSTANTS
    Blocks  \* of _CANCEL_CHECK_LINES lines, in the largest file

VARIABLES
    enabled,    \* Settings.ip_blocklist_enabled and a path
    lines,      \* blocks of the file, 0 for an unreadable one
    paused,     \* the libtorrent session
    waiting,    \* _paused_for_ip_blocklist
    filter,     \* set_ip_filter was called
    worker,     \* "idle", "parsing", "parsed", "failed", "dropped"
    read,       \* blocks parsed
    loaded,     \* the queued signal: "none", "filter" or "nothing"
    quit        \* "no", "cancelled" (cancel_blocklist_load), "stopped" (the tick timer)

vars == <<enabled, lines, paused, waiting, filter, worker, read, loaded, quit>>

(* SessionManager.__init__                                                 *)
Init ==
    /\ enabled \in BOOLEAN /\ lines \in 0 .. Blocks
    /\ paused = enabled /\ waiting = enabled
    /\ filter = FALSE
    /\ worker = IF enabled THEN "parsing" ELSE "idle"
    /\ read = 0 /\ loaded = "none" /\ quit = "no"

Cancelled == quit # "no"

\* mutant: an unreadable file ends the worker without an answer
ParseFails_Silent ==
    /\ worker = "parsing" /\ lines = 0
    /\ worker' = "dropped"
    /\ UNCHANGED <<enabled, lines, paused, waiting, filter, read, loaded, quit>>

ParseFails ==
    /\ worker = "parsing" /\ lines = 0
    /\ worker' = "failed"
    /\ UNCHANGED <<enabled, lines, paused, waiting, filter, read, loaded, quit>>

(* A malformed line is skipped like any other.                             *)
ParseBlock ==
    /\ worker = "parsing" /\ read < lines
    /\ IF Cancelled THEN worker' = "dropped" /\ read' = read
       ELSE /\ read' = read + 1
            /\ worker' = IF read' = lines THEN "parsed" ELSE "parsing"
    /\ UNCHANGED <<enabled, lines, paused, waiting, filter, loaded, quit>>

(* The end of run: the cancel flag is looked at a last time.               *)
Answer ==
    /\ worker \in {"parsed", "failed"}
    /\ worker' = IF Cancelled THEN "dropped" ELSE "idle"
    /\ loaded' = IF Cancelled THEN "none" ELSE IF worker = "parsed" THEN "filter" ELSE "nothing"
    /\ UNCHANGED <<enabled, lines, paused, waiting, filter, read, quit>>

\* mutant: the tick timer is not looked at
Loaded_Late ==
    /\ loaded # "none" /\ quit # "cancelled"
    /\ loaded' = "none"
    /\ filter' = (filter \/ loaded = "filter")
    /\ waiting' = FALSE /\ paused' = (paused /\ ~waiting)
    /\ UNCHANGED <<enabled, lines, worker, read, quit>>

(* _on_ip_blocklist_loaded, which does nothing once shutdown() has stopped *)
(* the tick timer; no event is served between the two steps of the quit.   *)
Loaded ==
    /\ loaded # "none" /\ quit # "cancelled"
    /\ loaded' = "none"
    /\ IF quit = "stopped" THEN UNCHANGED <<filter, waiting, paused>>
       ELSE /\ filter' = (filter \/ loaded = "filter")
            /\ waiting' = FALSE /\ paused' = (paused /\ ~waiting)
    /\ UNCHANGED <<enabled, lines, worker, read, quit>>

Quit ==
    /\ quit # "stopped"
    /\ quit' = IF quit = "no" THEN "cancelled" ELSE "stopped"
    /\ UNCHANGED <<enabled, lines, paused, waiting, filter, worker, read, loaded>>

Next == ParseFails \/ ParseBlock \/ Answer \/ Loaded \/ Quit

(* The pool thread and the event loop go on.                               *)
Fairness == WF_vars(ParseFails) /\ WF_vars(ParseBlock) /\ WF_vars(Answer) /\ WF_vars(Loaded)

Spec == Init /\ [][Next]_vars /\ Fairness

----------------------------------------------------------------------------
TypeOK ==
    /\ {enabled, paused, waiting, filter} \subseteq BOOLEAN
    /\ lines \in 0 .. Blocks /\ read \in 0 .. Blocks
    /\ worker \in {"idle", "parsing", "parsed", "failed", "dropped"}
    /\ loaded \in {"none", "filter", "nothing"}
    /\ quit \in {"no", "cancelled", "stopped"}

(* No torrent reaches a peer before the filter is in place, or the file    *)
(* turned out to be unreadable.                                            *)
FilteredFirst == enabled /\ ~paused => filter \/ lines = 0

(* An answer that comes once shutdown() has begun wakes nothing up.        *)
NoLateResume == [][quit = "stopped" => paused' = paused]_vars

(* The session does not stay paused: the wait ends, or the program does.   *)
WaitEnds == waiting ~> ~waiting \/ quit # "no"
=============================================================================
