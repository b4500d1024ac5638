------------------------------ MODULE Storage -------------------------------
(***************************************************************************)
(* Where the files of one torrent are: move_storage, the alerts that tell  *)
(* of it, archive mode (lock_torrent), and the save_path of its resume     *)
(* file.  libtorrent moves in its own time; the record follows.            *)
(***************************************************************************)
EXTENDS Sequences, Naturals

CONSTANTS Places, Denied,     \* directories; system directories, roots, shares
          None,
          MaxTold             \* bound: alerts not dispatched yet

VARIABLES
    path,       \* record.save_path
    place,      \* libtorrent's save_path
    files,      \* where the files are
    moving,     \* destination of the move under way
    told,       \* alerts that carry a path, in order
    saved,      \* save_path in the .fastresume file
    readOnly,   \* the files are
    locked,     \* record.locked
    blind       \* the last lock or unlock looked for the files elsewhere

vars == <<path, place, files, moving, told, saved, readOnly, locked, blind>>

Init ==
    /\ path \in Places \ Denied
    /\ place = path /\ files = path /\ saved = path
    /\ moving = None /\ told = <<>>
    /\ readOnly = FALSE /\ locked = FALSE /\ blind = FALSE

-----------------------------------------------------------------------------
IsSafeMoveDestination(p) == p \notin Denied

(* By hand, or by the rule of a torrent that finished; libtorrent does one *)
(* move after the other.                                                   *)
MoveStorage(p) ==
    /\ moving = None /\ IsSafeMoveDestination(p)
    /\ moving' = p
    /\ UNCHANGED <<path, place, files, told, saved, readOnly, locked, blind>>

\* libtorrent's move.  No handler hears of one that fails.
Moved ==
    /\ moving # None /\ Len(told) < MaxTold
    /\ place' = moving /\ moving' = None
    /\ files' = IF files = place THEN moving ELSE files
    /\ told' = Append(told, moving)
    /\ UNCHANGED <<path, saved, readOnly, locked, blind>>

MoveFails ==
    /\ moving # None
    /\ moving' = None
    /\ UNCHANGED <<path, place, files, told, saved, readOnly, locked, blind>>

\* A status that libtorrent takes for the next state_update_alert.
PostStatus ==
    /\ Len(told) < MaxTold
    /\ told' = Append(told, place)
    /\ UNCHANGED <<path, place, files, moving, saved, readOnly, locked, blind>>

(* _on_storage_moved, and status_to_record for a status.                   *)
OnStorageMoved ==
    /\ told # <<>>
    /\ path' = Head(told) /\ told' = Tail(told)
    /\ UNCHANGED <<place, files, moving, saved, readOnly, locked, blind>>

(* _chmod_torrent_files skips a file it does not find.                     *)
ChmodTorrentFiles(ro) ==
    /\ readOnly' = IF path = files THEN ro ELSE readOnly
    /\ blind' = (path # files)

LockTorrent(on) ==
    /\ ChmodTorrentFiles(on)
    /\ locked' = on
    /\ UNCHANGED <<path, place, files, moving, told, saved>>

SaveResume ==
    /\ saved' = place
    /\ UNCHANGED <<path, place, files, moving, told, readOnly, locked, blind>>

(* A clean exit saves; a crash does not.  The row starts unlocked.         *)
Restart(clean) ==
    /\ saved' = IF clean THEN place ELSE saved
    /\ place' = saved' /\ path' = saved'
    /\ moving' = None /\ told' = <<>> /\ locked' = FALSE
    /\ UNCHANGED <<files, readOnly, blind>>

\* Files that are not where the resume file says are downloaded again.
Redownload ==
    /\ files # place
    /\ files' = place /\ readOnly' = FALSE
    /\ UNCHANGED <<path, place, moving, told, saved, locked, blind>>

Next ==
    \/ \E p \in Places : MoveStorage(p)
    \/ \E b \in BOOLEAN : LockTorrent(b) \/ Restart(b)
    \/ Moved \/ MoveFails \/ PostStatus \/ OnStorageMoved
    \/ SaveResume \/ Redownload

Spec == Init /\ [][Next]_vars

-----------------------------------------------------------------------------
TypeOK ==
    /\ {path, place, files, saved} \subseteq Places \ Denied
    /\ moving \in (Places \ Denied) \cup {None}
    /\ told \in Seq(Places) /\ Len(told) <= MaxTold
    /\ {readOnly, locked, blind} \subseteq BOOLEAN

\* Once the alerts are dispatched the record names libtorrent's directory,
\* whichever of the moves failed.
PathFollows ==
    place = IF told = <<>> THEN path ELSE told[Len(told)]

\* A row shown as locked has read-only files, through moves and restarts,
\* unless the lock came while the record was behind a move.
LockTells == locked /\ ~blind => readOnly
=============================================================================
