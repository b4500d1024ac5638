------------------------------- MODULE RssFeed -------------------------------
(***************************************************************************)
(* One subscription of engine/rss_feed_service.py, with its seen-guid      *)
(* store and the pages that edit it.  Fetches and downloads run on pool    *)
(* threads; their results are queued signals.  A quit drops what is queued *)
(* and ends what runs, so to this service it is a crash.  The handler of a *)
(* fetched feed ends in the commit of the guids it marked: no crash falls  *)
(* between the two that leaves a trace.                                    *)
(***************************************************************************)
EXTENDS Naturals, FiniteSets

CONSTANTS
    Items,      \* of the feed: their episode numbers, each a torrent of its own
    Magnets,    \* those linked by a magnet; the others link a .torrent
    MaxChecks   \* fetches in flight at most

VARIABLES
    subscription,   \* "on", "off" (disabled or removed)
    latest,         \* latest_episode_only
    paused,         \* set by the memory governor
    checks,         \* fetches in flight
    seen,           \* guids in the store
    jobs,           \* downloads of .torrent files in flight
    files,          \* downloaded, their signal queued
    torrents,       \* "none", "started", or "awaiting" an analysis, so its record says
    metadata,       \* the file list of the torrent is known
    scans,          \* _pending_magnet_scans
    scanned,        \* history: the scan of its files was tried
    handed          \* history: times the item was given to the session or to a download

feed == <<subscription, latest, paused>>
session == <<torrents, metadata, scanned>>
vars == <<feed, checks, seen, jobs, files, session, scans, handed>>

Init ==
    /\ subscription = "off" /\ latest = FALSE /\ paused = FALSE
    /\ checks = 0 /\ seen = {} /\ jobs = {} /\ files = {}
    /\ torrents = [i \in Items |-> "none"]
    /\ metadata = {} /\ scans = {} /\ scanned = {}
    /\ handed = [i \in Items |-> 0]

----------------------------------------------------------------------------
EditFeed(on, latestOnly) ==
    /\ subscription' = on /\ latest' = latestOnly
    /\ UNCHANGED <<paused, checks, seen, jobs, files, session, scans, handed>>

SetPaused(on) ==
    /\ paused' = on
    /\ UNCHANGED <<subscription, latest, checks, seen, jobs, files, session, scans, handed>>

(* The timer or "check now": nothing looks for a fetch still in flight.    *)
CheckNow ==
    /\ ~paused /\ subscription = "on" /\ checks < MaxChecks
    /\ checks' = checks + 1
    /\ UNCHANGED <<feed, seen, jobs, files, session, scans, handed>>

FetchFails ==
    /\ checks > 0
    /\ checks' = checks - 1
    /\ UNCHANGED <<feed, seen, jobs, files, session, scans, handed>>

Newest(S) == {i \in S : \A j \in S : j <= i}

(* _on_feed_fetched: `matching' are the listed items the filters let       *)
(* through.  A magnet is added held, a .torrent goes to a download.        *)
FeedFetched(matching) ==
    /\ checks > 0
    /\ checks' = checks - 1
    /\ LET candidates == IF subscription = "on" THEN matching \ seen ELSE {}
           chosen == IF latest THEN Newest(candidates) ELSE candidates
           added == chosen \cap Magnets
       IN  /\ seen' = seen \cup candidates
           /\ jobs' = jobs \cup (chosen \ Magnets)
           /\ torrents' = [i \in Items |-> IF i \in added THEN "awaiting" ELSE torrents[i]]
           /\ scans' = scans \cup added
           /\ handed' = [i \in Items |-> IF i \in chosen THEN handed[i] + 1 ELSE handed[i]]
    /\ UNCHANGED <<feed, files, metadata, scanned>>

DownloadFails(i) ==
    /\ i \in jobs
    /\ jobs' = jobs \ {i}
    /\ UNCHANGED <<feed, checks, seen, files, session, scans, handed>>

Download(i) ==
    /\ i \in jobs
    /\ jobs' = jobs \ {i} /\ files' = files \cup {i}
    /\ UNCHANGED <<feed, checks, seen, session, scans, handed>>

(* _on_torrent_downloaded: scanned first, then added and running.  An      *)
(* unreadable file, or one refused by the session, is forgotten.           *)
TorrentDownloaded(i, refused) ==
    /\ i \in files
    /\ files' = files \ {i}
    /\ IF refused THEN UNCHANGED session
       ELSE /\ torrents' = [torrents EXCEPT ![i] = "started"]
            /\ metadata' = metadata \cup {i}
            /\ scanned' = scanned \cup {i}
    /\ UNCHANGED <<feed, checks, seen, jobs, scans, handed>>

(* _on_rss_metadata_received: the scan, even if it raises, then the start; *)
(* a torrent that is not RSS's is left to the user.                        *)
MetadataReceived(i) ==
    /\ torrents[i] # "none" /\ i \notin metadata
    /\ metadata' = metadata \cup {i}
    /\ scans' = scans \ {i}
    /\ scanned' = IF i \in scans THEN scanned \cup {i} ELSE scanned
    /\ torrents' = [torrents EXCEPT ![i] = IF i \in scans THEN "started" ELSE @]
    /\ UNCHANGED <<feed, checks, seen, jobs, files, handed>>

(* The user adds a magnet, which waits for a review, or removes a torrent; *)
(* its scan stays due.  Policies has the user's start.                     *)
AddByHand(i) ==
    /\ torrents[i] = "none" /\ i \in Magnets
    /\ torrents' = [torrents EXCEPT ![i] = "awaiting"]
    /\ UNCHANGED <<feed, checks, seen, jobs, files, metadata, scans, scanned, handed>>

Remove(i) ==
    /\ torrents[i] # "none"
    /\ torrents' = [torrents EXCEPT ![i] = "none"]
    /\ metadata' = metadata \ {i} /\ scanned' = scanned \ {i}
    /\ UNCHANGED <<feed, checks, seen, jobs, files, scans, handed>>

(* What pool and memory held is gone; a torrent saved or not comes back or *)
(* not, held ones stay held.                                               *)
Restart ==
    /\ checks' = 0 /\ jobs' = {} /\ files' = {} /\ scans' = {} /\ paused' = FALSE
    /\ \E lost \in SUBSET Items :
           /\ torrents' = [i \in Items |-> IF i \in lost THEN "none" ELSE torrents[i]]
           /\ metadata' = metadata \ lost /\ scanned' = scanned \ lost
    /\ UNCHANGED <<subscription, latest, seen, handed>>

Next ==
    \/ \E on \in {"on", "off"}, latestOnly \in BOOLEAN : EditFeed(on, latestOnly)
    \/ \E on \in BOOLEAN : SetPaused(on)
    \/ CheckNow \/ FetchFails \/ Restart
    \/ \E matching \in SUBSET Items : FeedFetched(matching)
    \/ \E i \in Items :
          \/ DownloadFails(i) \/ Download(i)
          \/ \E refused \in BOOLEAN : TorrentDownloaded(i, refused)
          \/ MetadataReceived(i) \/ AddByHand(i) \/ Remove(i)

Spec == Init /\ [][Next]_vars

----------------------------------------------------------------------------
TypeOK ==
    /\ subscription \in {"on", "off"} /\ latest \in BOOLEAN /\ paused \in BOOLEAN
    /\ checks \in 0 .. MaxChecks
    /\ seen \cup jobs \cup files \cup metadata \cup scans \cup scanned \subseteq Items
    /\ torrents \in [Items -> {"none", "awaiting", "started"}]
    /\ handed \in [Items -> Nat]

(* However checks overlap, and over restarts, an item is given to the      *)
(* session or to a download once.                                          *)
HandedOnce == \A i \in Items : handed[i] <= 1

(* Nothing the feed brought runs before its file list was looked at.       *)
ScannedFirst == \A i \in Items : torrents[i] = "started" => i \in scanned
=============================================================================
