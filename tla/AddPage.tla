-------------------------------- MODULE AddPage --------------------------------
(***************************************************************************)
(* The Add page: ui/web/bridge_add.py, the form of resources/web/spike/    *)
(* add.js in front of it, and what the session makes of their calls.  A    *)
(* torrent comes from a file or from a magnet link; a magnet is added      *)
(* paused and started by a second click, once its files have been seen.    *)
(***************************************************************************)
CONSTANTS Files, Magnets, None

VARIABLES
    path, cached,       \* _torrent_path; the file _torrent_files was read from
    pending,            \* _pending_magnet_hash
    selected,           \* addSelectedPath
    shown, unticked,    \* the source of the scan on the page; a box is unticked
    magnet,             \* each magnet in the session: "none", "waiting", "known", "started"
    added,              \* files in the session
    skipped             \* history: the scan whose unticked files each started source leaves out

bridge == <<path, cached, pending>>
page == <<selected, shown, unticked>>
session == <<magnet, added, skipped>>
vars == <<bridge, page, session>>

Sources == Files \cup Magnets

Init ==
    /\ path = None /\ cached = None /\ pending = None
    /\ selected = None /\ shown = None /\ unticked = FALSE
    /\ magnet = [m \in Magnets |-> "none"] /\ added = {}
    /\ skipped = [s \in Sources |-> None]

----------------------------------------------------------------------------
(* addRenderScan: files at or over the threshold come unticked.            *)
RenderScan(s) == shown' = s /\ unticked' \in BOOLEAN

(* selectTorrentFile, from the page or from an open_source that leaves     *)
(* addSelectedPath alone.                                                  *)
SelectTorrentFile(f, readable) ==
    /\ path' = f /\ pending' = None
    /\ selected' \in {selected, f}
    /\ IF readable THEN cached' = f /\ RenderScan(f) ELSE cached' = None /\ UNCHANGED <<shown, unticked>>
    /\ UNCHANGED session

(* analyzeMagnet; a magnet already in the session is an error, and leaves  *)
(* the one analysed before it pending.                                     *)
AnalyzeMagnet(m, ok) ==
    /\ ok => magnet[m] = "none"
    /\ path' = None
    /\ IF ok THEN pending' = m /\ magnet' = [magnet EXCEPT ![m] = "waiting"]
             ELSE UNCHANGED <<pending, magnet>>
    /\ UNCHANGED <<cached, page, added, skipped>>

MetadataReceived(m) ==
    /\ magnet[m] = "waiting"
    /\ magnet' = [magnet EXCEPT ![m] = "known"]
    /\ IF m = pending THEN RenderScan(m) ELSE UNCHANGED <<shown, unticked>>
    /\ UNCHANGED <<bridge, selected, added, skipped>>

Tick == shown # None /\ unticked' = ~unticked /\ UNCHANGED <<bridge, selected, shown, session>>

(* _reset, and addResetForm once it hears of it.                           *)
Reset ==
    /\ path' = None /\ cached' = None /\ pending' = None
    /\ selected' = None /\ shown' = None /\ unticked' = FALSE

Skip(s) == skipped' = [skipped EXCEPT ![s] = IF unticked THEN shown ELSE None]

(* startTorrent on a magnet: a theme that forbids downloads, or a magnet   *)
(* removed meanwhile, leaves it as it is and the page none the wiser.      *)
StartMagnet(blocked) ==
    /\ pending # None /\ path = None
    /\ IF blocked \/ magnet[pending] = "none" THEN UNCHANGED magnet
       ELSE magnet' = [magnet EXCEPT ![pending] = "started"]
    /\ Skip(pending) /\ Reset
    /\ UNCHANGED added

(* startTorrent on a file: no room, an error or a duplicate change nothing *)
(* and keep the choice.                                                    *)
StartFile ==
    /\ path # None /\ path \notin added
    /\ added' = added \cup {path}
    /\ Skip(path) /\ Reset
    /\ UNCHANGED magnet

(* From the downloads page.                                                *)
Remove(s) ==
    /\ s \in added \/ (s \in Magnets /\ magnet[s] # "none")
    /\ added' = added \ {s}
    /\ magnet' = [m \in Magnets |-> IF m = s THEN "none" ELSE magnet[m]]
    /\ skipped' = [skipped EXCEPT ![s] = None]
    /\ UNCHANGED <<bridge, page>>

Next ==
    \/ \E f \in Files, readable \in BOOLEAN : SelectTorrentFile(f, readable)
    \/ \E m \in Magnets, ok \in BOOLEAN : AnalyzeMagnet(m, ok)
    \/ \E m \in Magnets : MetadataReceived(m)
    \/ \E blocked \in BOOLEAN : StartMagnet(blocked)
    \/ \E s \in Sources : Remove(s)
    \/ Tick \/ StartFile

Spec == Init /\ [][Next]_vars

----------------------------------------------------------------------------
TypeOK ==
    /\ {path, cached, selected} \subseteq Files \cup {None}
    /\ pending \in Magnets \cup {None} /\ shown \in Sources \cup {None}
    /\ unticked \in BOOLEAN /\ added \subseteq Files
    /\ magnet \in [Magnets -> {"none", "waiting", "known", "started"}]
    /\ skipped \in [Sources -> Sources \cup {None}]

(* What Start would add is one thing, and the sizes it weighs against the  *)
(* free space are those of that file.                                      *)
OneChoice ==
    /\ path = None \/ pending = None
    /\ path # None => cached \in {None, path}
=============================================================================
