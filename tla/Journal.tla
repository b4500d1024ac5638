------------------------------ MODULE Journal -------------------------------
(***************************************************************************)
(* What the user is told once.  Three watchers poll or listen --           *)
(* known_disk_service.py (7 s), disk_space_monitor.py (30 s) and the       *)
(* session's file errors -- and decision_journal.py writes a line for each *)
(* thing they report, as ui/notifications.py raises a toast.  Each watcher *)
(* remembers its episode so as not to say it again.                        *)
(***************************************************************************)
EXTENDS Naturals

CONSTANTS Mounts,       \* mount points of registered disks
          Paths,        \* save paths
          Torrents

VARIABLES
    present,    \* disks inserted
    seen,       \* KnownDiskService._seen_mountpoints
    asking,     \* known_disk_automation_enabled, and their labels are listed
    space,      \* free space of a path: enough, low, or not to be known
    active,     \* paths something is being downloaded to
    warning,    \* disk_space_warning_enabled
    warned,     \* DiskSpaceMonitor._warned_paths
    torrents,   \* torrents in the session
    journaled,  \* DecisionJournalService._journaled_file_errors
    lines       \* journal lines on a subject since its episode began

vars == <<present, seen, asking, space, active, warning, warned, torrents,
          journaled, lines>>
disks == <<present, seen, asking>>
spaces == <<space, active, warning, warned>>
errors == <<torrents, journaled>>

Subjects == Mounts \cup Paths \cup Torrents

TypeOK ==
    /\ present \subseteq Mounts /\ seen \subseteq Mounts
    /\ asking \in BOOLEAN
    /\ space \in [Paths -> {"enough", "low", "unknown"}]
    /\ active \subseteq Paths /\ warned \subseteq Paths
    /\ warning \in BOOLEAN
    /\ torrents \subseteq Torrents /\ journaled \subseteq Torrents
    /\ lines \in [Subjects -> 0..2]

Init ==
    /\ present = {} /\ seen = {} /\ asking = FALSE
    /\ space = [p \in Paths |-> "enough"]
    /\ active = {} /\ warned = {} /\ warning = FALSE
    /\ torrents = {} /\ journaled = {}
    /\ lines = [s \in Subjects |-> 0]

Written(S) == [s \in Subjects |-> IF s \in S /\ lines[s] < 2
                                  THEN lines[s] + 1 ELSE lines[s]]
Fresh(S) == [s \in Subjects |-> IF s \in S THEN 0 ELSE lines[s]]

-----------------------------------------------------------------------------
(* Known disks                                                             *)

Insert(m) ==
    /\ m \notin present
    /\ present' = present \cup {m}
    /\ lines' = Fresh({m})
    /\ UNCHANGED <<seen, asking, spaces, errors>>

Eject(m) ==
    /\ m \in present
    /\ present' = present \ {m}
    /\ UNCHANGED <<seen, asking, spaces, errors, lines>>

SetAsking ==
    /\ asking' = ~asking
    /\ UNCHANGED <<present, seen, spaces, errors, lines>>

CheckDisks ==
    /\ lines' = IF asking THEN Written(present \ seen) ELSE lines
    /\ seen' = present
    /\ UNCHANGED <<present, asking, spaces, errors>>

-----------------------------------------------------------------------------
(* Free space                                                              *)

SpaceBecomes(p, s) ==
    /\ space' = [space EXCEPT ![p] = s]
    /\ lines' = IF s = "enough" THEN Fresh({p}) ELSE lines
    /\ UNCHANGED <<active, warning, warned, disks, errors>>

DownloadTo(p) ==
    /\ active' = (active \cup {p}) \ (active \cap {p})
    /\ lines' = Fresh({p})
    /\ UNCHANGED <<space, warning, warned, disks, errors>>

SetWarning ==
    /\ warning' = ~warning
    /\ lines' = Fresh(Paths)
    /\ UNCHANGED <<space, active, warned, disks, errors>>

Low == {p \in active : space[p] = "low"}

Recovered == {p \in active : space[p] = "enough"}

\* A path that cannot be read keeps the warning it had.
Warned == ((warned \cup Low) \ Recovered) \cap active

CheckSpace ==
    /\ warned' = IF warning THEN Warned ELSE {}
    /\ lines' = IF warning THEN Written(Low \ warned) ELSE lines
    /\ UNCHANGED <<space, active, warning, disks, errors>>

-----------------------------------------------------------------------------
(* File errors                                                             *)

Add(t) ==
    /\ t \notin torrents
    /\ torrents' = torrents \cup {t}
    /\ lines' = Fresh({t})
    /\ UNCHANGED <<journaled, disks, spaces>>

FileError(t) ==
    /\ t \in torrents
    /\ journaled' = journaled \cup {t}
    /\ lines' = Written({t} \ journaled)
    /\ UNCHANGED <<torrents, disks, spaces>>

Removed(t) ==
    /\ t \in torrents
    /\ torrents' = torrents \ {t}
    /\ journaled' = journaled \ {t}
    /\ UNCHANGED <<disks, spaces, lines>>

Next ==
    \/ \E m \in Mounts : Insert(m) \/ Eject(m)
    \/ SetAsking \/ CheckDisks \/ SetWarning \/ CheckSpace
    \/ \E p \in Paths : DownloadTo(p)
    \/ \E p \in Paths, s \in {"enough", "low", "unknown"} : SpaceBecomes(p, s)
    \/ \E t \in Torrents : Add(t) \/ FileError(t) \/ Removed(t)

Spec == Init /\ [][Next]_vars

-----------------------------------------------------------------------------
(* One insertion, one shortage, one failing torrent: one line at most, in  *)
(* whatever order the disk comes and goes, the space drops and recovers    *)
(* and the settings are switched between two polls.                        *)
ToldOnce == \A s \in Subjects : lines[s] <= 1

=============================================================================
