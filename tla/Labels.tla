------------------------------- MODULE Labels -------------------------------
(***************************************************************************)
(* The two label files kept beside the resume directory:                   *)
(* engine/tag_service.py (several tags a torrent) and                      *)
(* engine/torrent_categories.py (one category).  Both are written at each  *)
(* change; a removal clears them, in three writes a crash can separate:    *)
(* the category, the .fastresume, the tags.  At launch the tags of         *)
(* torrents with no .fastresume are dropped; categories are not.           *)
(***************************************************************************)
EXTENDS Naturals

CONSTANTS Torrents, Tags, Categories,
          None          \* the empty category

VARIABLES
    up,         \* the process runs
    live,       \* torrents with a record
    resume,     \* torrents with a .fastresume file
    tags,       \* TagService._tags, equal to its file
    category,   \* record.category
    stored,     \* TorrentCategoryService._categories, equal to its file
    given       \* the tags the user last left on it

vars == <<up, live, resume, tags, category, stored, given>>

TypeOK ==
    /\ up \in BOOLEAN
    /\ live \subseteq Torrents
    /\ resume \subseteq Torrents
    /\ tags \in [Torrents -> SUBSET Tags]
    /\ category \in [Torrents -> Categories \cup {None}]
    /\ stored \in [Torrents -> Categories \cup {None}]
    /\ given \in [Torrents -> SUBSET Tags]

Init ==
    /\ up = TRUE
    /\ live = {} /\ resume = {}
    /\ tags = [t \in Torrents |-> {}]
    /\ category = [t \in Torrents |-> None]
    /\ stored = [t \in Torrents |-> None]
    /\ given = [t \in Torrents |-> {}]

Without(f, t, empty) == [f EXCEPT ![t] = empty]

\* A new record starts with no category, whatever the file remembers of it.
Add(t) ==
    /\ up /\ t \notin live
    /\ live' = live \cup {t}
    /\ category' = Without(category, t, None)
    /\ UNCHANGED <<up, resume, tags, stored, given>>

SaveResume(t) ==
    /\ up /\ t \in live
    /\ resume' = resume \cup {t}
    /\ UNCHANGED <<up, live, tags, category, stored, given>>

AddTag(t, g) ==
    /\ up /\ t \in live /\ g \notin tags[t]
    /\ tags' = [tags EXCEPT ![t] = @ \cup {g}]
    /\ given' = [given EXCEPT ![t] = @ \cup {g}]
    /\ UNCHANGED <<up, live, resume, category, stored>>

RemoveTag(t, g) ==
    /\ up /\ t \in live /\ g \in tags[t]
    /\ tags' = [tags EXCEPT ![t] = @ \ {g}]
    /\ given' = [given EXCEPT ![t] = @ \ {g}]
    /\ UNCHANGED <<up, live, resume, category, stored>>

SetTorrentCategory(t, c) ==
    /\ up /\ t \in live
    /\ category' = [category EXCEPT ![t] = c]
    /\ stored' = [stored EXCEPT ![t] = c]
    /\ UNCHANGED <<up, live, resume, tags, given>>

-----------------------------------------------------------------------------
(* torrent_removed: the writes, in order.  `done` is how many of them the  *)
(* disk holds when the process dies; 3 is a removal that ends.             *)

Cleared(t, done) ==
    /\ stored' = IF done >= 1 THEN Without(stored, t, None) ELSE stored
    /\ resume' = IF done >= 2 THEN resume \ {t} ELSE resume
    /\ tags' = IF done >= 3 THEN Without(tags, t, {}) ELSE tags
    /\ given' = IF t \notin resume' THEN Without(given, t, {}) ELSE given

Removed(t) ==
    /\ up /\ t \in live
    /\ Cleared(t, 3)
    /\ live' = live \ {t}
    /\ category' = Without(category, t, None)
    /\ UNCHANGED up

DiesRemoving(t) ==
    /\ up /\ t \in live
    /\ \E done \in 0..2 : Cleared(t, done)
    /\ up' = FALSE
    /\ UNCHANGED <<live, category>>

Exit ==
    /\ up
    /\ up' = FALSE
    /\ UNCHANGED <<live, resume, tags, category, stored, given>>

\* drop_orphans() at launch: by the resume directory, not by what came back.
DropOrphans(restored) == [t \in Torrents |-> IF t \in resume THEN tags[t] ELSE {}]

\* A restore may fail (its disk is missing): that torrent has no row this
\* time, and keeps its file.
Launch ==
    /\ ~up
    /\ up' = TRUE
    /\ \E restored \in SUBSET resume :
        /\ live' = restored
        /\ tags' = DropOrphans(restored)
        /\ category' = [t \in Torrents |->
                            IF t \in restored THEN stored[t] ELSE None]
    /\ given' = [t \in Torrents |-> IF t \in resume THEN given[t] ELSE {}]
    /\ UNCHANGED <<resume, stored>>

Next ==
    \/ \E t \in Torrents :
        \/ Add(t) \/ SaveResume(t) \/ Removed(t) \/ DiesRemoving(t)
        \/ \E g \in Tags : AddTag(t, g) \/ RemoveTag(t, g)
        \/ \E c \in Categories \cup {None} : SetTorrentCategory(t, c)
    \/ Exit \/ Launch

Spec == Init /\ [][Next]_vars

-----------------------------------------------------------------------------
(* A torrent that is kept keeps the tags the user left on it, across exits *)
(* at any point and restores that fail; one that is gone keeps none, so    *)
(* added again it starts untagged.                                         *)
TagsFollow ==
    up => \A t \in Torrents :
            tags[t] = IF t \in live \cup resume THEN given[t] ELSE {}

=============================================================================
