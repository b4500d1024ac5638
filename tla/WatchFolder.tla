----------------------------- MODULE WatchFolder -----------------------------
(***************************************************************************)
(* engine/watch_folder_service.py: every .torrent dropped in the folder is *)
(* tried, then moved to `processed' or `failed'.  The GUI thread scans;    *)
(* another program writes the files.  The session refuses a torrent it     *)
(* already has.                                                            *)
(***************************************************************************)
EXTENDS Naturals

CONSTANTS
    Files,      \* names
    Infos,      \* info-hashes of what the files may hold
    MaxTries    \* bound on the scans that try one file again

VARIABLES
    folder,     \* "ok", or "none": switched off, no path, not there
    place,      \* of a file: "nowhere", "folder", "processed" or "failed"
    content,    \* "partial" while it is being written, then "bad" or an info-hash
    session,    \* the torrents in the session
    adds,       \* history: times the file's torrent was added, since it was dropped
    tries,      \* history: times it was tried
    stuck,      \* history: files a move failed for
    gone        \* history: files whose torrent left the session after it was added

vars == <<folder, place, content, session, adds, tries, stuck, gone>>

Init ==
    /\ folder \in {"ok", "none"}
    /\ place = [f \in Files |-> "nowhere"]
    /\ content = [f \in Files |-> "partial"]
    /\ session = {}
    /\ adds = [f \in Files |-> 0] /\ tries = [f \in Files |-> 0]
    /\ stuck = {} /\ gone = {}

(* Another program drops a file, under a name free or already used.        *)
Drop(f) ==
    /\ place[f] # "folder"
    /\ place' = [place EXCEPT ![f] = "folder"]
    /\ content' = [content EXCEPT ![f] = "partial"]
    /\ adds' = [adds EXCEPT ![f] = 0] /\ tries' = [tries EXCEPT ![f] = 0]
    /\ stuck' = stuck \ {f} /\ gone' = gone \ {f}
    /\ UNCHANGED <<folder, session>>

(* It ends its writing, wherever the file was moved meanwhile.             *)
Written(f, c) ==
    /\ place[f] # "nowhere" /\ content[f] = "partial"
    /\ content' = [content EXCEPT ![f] = c]
    /\ UNCHANGED <<folder, place, session, adds, tries, stuck, gone>>

(* A torrent is added by another door.                                     *)
AddElsewhere(t) ==
    /\ t \notin session
    /\ session' = session \cup {t}
    /\ UNCHANGED <<folder, place, content, adds, tries, stuck, gone>>

(* It is removed, or a crash came before its resume file.                  *)
Leave(t) ==
    /\ t \in session
    /\ session' = session \ {t}
    /\ gone' = gone \cup {f \in Files : content[f] = t /\ adds[f] > 0}
    /\ UNCHANGED <<folder, place, content, adds, tries, stuck>>

Found == {f \in Files : place[f] = "folder"}

\* mutant: the session takes a torrent it already has
Taken_Twice(tried, adders) == adders = {f \in tried : content[f] \in Infos}

\* add_torrent_from_file, for each file tried: it raises on what is not whole
\* and on a duplicate, so of two files with one torrent the first is taken
Taken(tried, adders) ==
    LET new == {f \in tried : content[f] \in Infos \ session} IN
    /\ adders \subseteq new
    /\ \A f \in new : \E g \in adders : content[g] = content[f]
    /\ \A f, g \in adders : content[f] = content[g] => f = g

Target(f, adders) == IF f \in adders THEN "processed" ELSE "failed"

(* scan_now: every file of the folder, or, when the program ends during    *)
(* the scan, the first ones.  `unmoved' are those whose move failed (a     *)
(* locked file, a full disk) or never came.                                *)
Scan(tried, adders, unmoved) ==
    /\ folder = "ok" /\ tried # {} /\ tried \subseteq Found
    /\ tried # Found => unmoved # {}
    /\ unmoved \subseteq tried
    /\ Taken(tried, adders)
    /\ \A f \in tried : tries[f] < MaxTries
    /\ session' = session \cup {content[f] : f \in adders}
    /\ adds' = [f \in Files |-> IF f \in adders THEN adds[f] + 1 ELSE adds[f]]
    /\ place' = [f \in Files |-> IF f \in tried \ unmoved THEN Target(f, adders) ELSE place[f]]
    /\ tries' = [f \in Files |-> IF f \in tried THEN tries[f] + 1 ELSE tries[f]]
    /\ stuck' = stuck \cup unmoved
    /\ UNCHANGED <<folder, content, gone>>

Switch ==
    /\ folder' = IF folder = "ok" THEN "none" ELSE "ok"
    /\ UNCHANGED <<place, content, session, adds, tries, stuck, gone>>

Next ==
    \/ \E f \in Files : Drop(f) \/ \E c \in {"bad"} \cup Infos : Written(f, c)
    \/ \E t \in Infos : AddElsewhere(t) \/ Leave(t)
    \/ \E tried, adders, unmoved \in SUBSET Files : Scan(tried, adders, unmoved)
    \/ Switch

Spec == Init /\ [][Next]_vars

----------------------------------------------------------------------------
TypeOK ==
    /\ folder \in {"ok", "none"}
    /\ place \in [Files -> {"nowhere", "folder", "processed", "failed"}]
    /\ content \in [Files -> {"partial", "bad"} \cup Infos]
    /\ session \subseteq Infos
    /\ adds \in [Files -> 0 .. MaxTries] /\ tries \in [Files -> 0 .. MaxTries]
    /\ stuck \subseteq Files /\ gone \subseteq Files

(* The folder a file ends in tells whether its torrent was added: one that *)
(* is in `processed' added it, and one in `failed' did not, unless the     *)
(* file could not be moved after an add and was refused as a duplicate by  *)
(* a later scan.                                                           *)
PlaceTells ==
    \A f \in Files :
        /\ place[f] = "processed" => adds[f] > 0
        /\ place[f] = "failed" => adds[f] = 0 \/ f \in stuck

(* A file is tried again only if it could not be moved away: "attempted at *)
(* most once" but for a move that fails, which nothing ends.               *)
TriedOnce == \A f \in Files : f \in stuck \/ tries[f] <= 1

(* A file whose move fails is tried again by every scan: its torrent is    *)
(* added only once all the same, unless it left the session in between.    *)
AddedOnce == \A f \in Files : adds[f] <= 1 \/ f \in gone
=============================================================================
