------------------------- MODULE SessionRefinement --------------------------
(***************************************************************************)
(* SessionManager keeps the promise of ResumeStore: the session is that of *)
(* libtorrent, a torrent is dropped once the user asked for its removal,   *)
(* or once its info-hash stands for two torrents at a time.                *)
(***************************************************************************)
EXTENDS SessionManager

InSession == {h \in Torrents : live[h] # 0}
Dropped == removedByUser \cup raced

Store == INSTANCE ResumeStore WITH
    files <- disk, session <- InSession, reached <- progress,
    dropped <- Dropped

\* Every step of the bookkeeping is a step of the promise, or none: no late
\* or stale answer of libtorrent writes a file for a torrent that left, or
\* one that claims what a new torrent of the same info-hash does not have
\* (_on_save_resume_data, _on_torrent_removed, shutdown).
ImplementsStore == Store!Spec
=============================================================================
