------------------------------- MODULE Governor -------------------------------
(***************************************************************************)
(* engine/memory_pressure_governor.py with the services it holds back:     *)
(* the active limit of the session, the periodic check of the RSS feeds    *)
(* and the rows stats/history_service.py writes when a torrent leaves.     *)
(***************************************************************************)
EXTENDS Naturals

CONSTANTS
    Torrents,
    MaxActive,  \* largest Settings.max_active_downloads
    MaxRows     \* removals of one torrent in a behaviour

VARIABLES
    enabled,        \* Settings.memory_governor_enabled
    high,           \* the memory in use is at the threshold or above
    throttling,     \* _throttling
    maxActive,      \* Settings.max_active_downloads
    slots,          \* active_downloads of the libtorrent session
    rssPaused, historyPaused,
    live,           \* torrents of the session
    lastKnown,      \* HistoryService._last_known
    rows,           \* HistoryStore: rows of each torrent
    missed          \* history: its removals that left no row

governor == <<throttling, slots, rssPaused, historyPaused>>
history == <<live, lastKnown, rows, missed>>
vars == <<enabled, high, maxActive, governor, history>>

Init ==
    /\ enabled = FALSE /\ high = FALSE /\ throttling = FALSE
    /\ maxActive = MaxActive /\ slots = maxActive
    /\ rssPaused = FALSE /\ historyPaused = FALSE
    /\ live = {} /\ lastKnown = {}
    /\ rows = [t \in Torrents |-> 0] /\ missed = rows

----------------------------------------------------------------------------
SetMaxActiveDownloads(n) == slots' = n

SetPaused(p) == rssPaused' = p /\ historyPaused' = p

\* mutant: half of one slot is none
ApplyPressure_Zero ==
    /\ SetMaxActiveDownloads(maxActive \div 2)
    /\ SetPaused(TRUE) /\ throttling' = TRUE

ApplyPressure ==
    /\ SetMaxActiveDownloads(IF maxActive \div 2 = 0 THEN 1 ELSE maxActive \div 2)
    /\ SetPaused(TRUE) /\ throttling' = TRUE

RestoreAll ==
    /\ SetMaxActiveDownloads(maxActive)
    /\ SetPaused(FALSE) /\ throttling' = FALSE

CheckNow ==
    /\ IF enabled /\ high THEN ~throttling /\ ApplyPressure ELSE throttling /\ RestoreAll
    /\ UNCHANGED <<enabled, high, maxActive, history>>

(* The option and the General page; neither touches the session.           *)
SaveSettings ==
    /\ enabled' \in BOOLEAN /\ maxActive' \in 1 .. MaxActive
    /\ UNCHANGED <<high, governor, history>>

Memory == high' = ~high /\ UNCHANGED <<enabled, maxActive, governor, history>>

----------------------------------------------------------------------------
Add(t) ==
    /\ t \notin live
    /\ live' = live \cup {t}
    /\ UNCHANGED <<enabled, high, maxActive, governor, lastKnown, rows, missed>>

StatusUpdated(t) ==
    /\ t \in live
    /\ lastKnown' = lastKnown \cup {t}
    /\ UNCHANGED <<enabled, high, maxActive, governor, live, rows, missed>>

(* A torrent never seen, or that leaves under pressure, leaves no row.     *)
TorrentRemoved(t) ==
    /\ t \in live /\ rows[t] + missed[t] < MaxRows
    /\ live' = live \ {t} /\ lastKnown' = lastKnown \ {t}
    /\ IF t \in lastKnown /\ ~historyPaused
       THEN rows' = [rows EXCEPT ![t] = @ + 1] /\ UNCHANGED missed
       ELSE missed' = [missed EXCEPT ![t] = @ + 1] /\ UNCHANGED rows
    /\ UNCHANGED <<enabled, high, maxActive, governor>>

(* The next launch: only what is in the settings and the database is left. *)
Relaunch ==
    /\ SetMaxActiveDownloads(maxActive)
    /\ SetPaused(FALSE) /\ throttling' = FALSE /\ lastKnown' = {}
    /\ UNCHANGED <<enabled, high, maxActive, live, rows, missed>>

Next ==
    \/ CheckNow \/ SaveSettings \/ Memory \/ Relaunch
    \/ \E t \in Torrents : Add(t) \/ StatusUpdated(t) \/ TorrentRemoved(t)

Fairness == WF_vars(CheckNow)

Spec == Init /\ [][Next]_vars /\ Fairness

----------------------------------------------------------------------------
TypeOK ==
    /\ {enabled, high, throttling, rssPaused, historyPaused} \subseteq BOOLEAN
    /\ {maxActive, slots} \subseteq 1 .. MaxActive
    /\ lastKnown \subseteq live /\ live \subseteq Torrents
    /\ {rows, missed} \subseteq [Torrents -> 0 .. MaxRows]

(* The services are held back together, and only by the governor.          *)
HeldTogether == rssPaused = throttling /\ historyPaused = throttling

(* No torrent or feed stays held back once the memory is free, or the user *)
(* has turned the option off in the middle.                                *)
PressureLifted == throttling ~> (~throttling \/ (enabled /\ high))
=============================================================================
