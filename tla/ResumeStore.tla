---------------------------- MODULE ResumeStore -----------------------------
(***************************************************************************)
(* What the .fastresume directory promises, whatever the order in which    *)
(* libtorrent answers, the user removes and adds again, and the process    *)
(* ends: a file is written only for a torrent that is in the session, and  *)
(* never claims more than that torrent has; a file disappears only once    *)
(* the torrent was dropped; a process that ends leaves every file alone.   *)
(***************************************************************************)
EXTENDS Integers

CONSTANTS Torrents, Full, NoFile

VARIABLES
    files,      \* progress in the file of a torrent, NoFile if there is none
    session,    \* torrents in the libtorrent session
    reached,    \* what a torrent of the session has on disk
    dropped     \* torrents whose file may go

vars == <<files, session, reached, dropped>>

Init ==
    /\ files \in [Torrents -> NoFile..Full]
    /\ session = {}
    /\ reached = [h \in Torrents |-> 0]
    /\ dropped = {}

\* From its file, or from nothing.
Enter(h) ==
    /\ h \notin session
    /\ session' = session \cup {h}
    /\ \E p \in {0, files[h]} \ {NoFile} : reached' = [reached EXCEPT ![h] = p]
    /\ UNCHANGED <<files, dropped>>

Advance(h) ==
    /\ h \in session /\ reached[h] < Full
    /\ reached' = [reached EXCEPT ![h] = @ + 1]
    /\ UNCHANGED <<files, session, dropped>>

Leave(h) ==
    /\ h \in session
    /\ session' = session \ {h}
    /\ reached' = [reached EXCEPT ![h] = 0]
    /\ UNCHANGED <<files, dropped>>

Save(h) ==
    /\ h \in session
    /\ \E p \in 0..reached[h] : files' = [files EXCEPT ![h] = p]
    /\ UNCHANGED <<session, reached, dropped>>

Delete(h) ==
    /\ h \in dropped
    /\ files' = [files EXCEPT ![h] = NoFile]
    /\ UNCHANGED <<session, reached, dropped>>

\* The user removes a torrent, adds it back.
Decide ==
    /\ dropped' \in SUBSET Torrents
    /\ UNCHANGED <<files, session, reached>>

Close ==
    /\ session' = {}
    /\ reached' = [h \in Torrents |-> 0]
    /\ dropped' \in SUBSET Torrents
    /\ UNCHANGED files

Next ==
    \/ \E h \in Torrents :
            Enter(h) \/ Advance(h) \/ Leave(h) \/ Save(h) \/ Delete(h)
    \/ Decide \/ Close

Spec == Init /\ [][Next]_vars
=============================================================================
