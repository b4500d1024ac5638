-------------------------- MODULE BackgroundTasks ---------------------------
(***************************************************************************)
(* The tasks the GUI thread gives to Qt's global thread pool -- Defender   *)
(* scans (antivirus_scan_service.py), network fetches (url_fetch.py, used  *)
(* by feeds, search, webhook and updates), extractions                     *)
(* (post_complete_action_service.py), torrent creations                    *)
(* (bridge_create_torrent.py) and the short netsh query -- and the quit    *)
(* that must end them (run_web_spike.py, _shutdown).  Qt waits for the     *)
(* pool before the process can exit.                                       *)
(***************************************************************************)
EXTENDS Naturals, FiniteSets

CONSTANTS Scans, Fetches, Extractions, Creations, Queries,
          Threads       \* maxThreadCount of the pool

VARIABLES
    phase,      \* of the process: up, pumping events, waiting for Qt, gone
    stage,      \* of a task
    cancelled,  \* kinds of task whose cancel event is set, as their tasks
    busy,       \* CreateTorrentBridge._busy
    written     \* creations whose .torrent is on disk

vars == <<phase, stage, cancelled, busy, written>>

Tasks == Scans \cup Fetches \cup Extractions \cup Creations \cup Queries
At(s) == {t \in Tasks : stage[t] = s}

TypeOK ==
    /\ phase \in {"up", "pumping", "waiting", "gone"}
    /\ stage \in [Tasks -> {"idle", "queued", "running", "reporting"}]
    /\ cancelled \subseteq Tasks
    /\ busy \in BOOLEAN
    /\ written \subseteq Creations

Init ==
    /\ phase = "up"
    /\ stage = [t \in Tasks |-> "idle"]
    /\ cancelled = {} /\ busy = FALSE /\ written = {}

\* Alerts dispatched while the quit pumps events still submit scans,
\* extractions and webhooks; a creation needs the page.
Submit(t) ==
    /\ \/ phase = "up"
       \/ phase = "pumping" /\ t \notin Creations \cup Queries
    /\ stage[t] = "idle"
    /\ t \in Creations => ~busy
    /\ stage' = [stage EXCEPT ![t] = "queued"]
    /\ busy' = (busy \/ t \in Creations)
    /\ written' = written \ {t}
    /\ UNCHANGED <<phase, cancelled>>

Start(t) ==
    /\ stage[t] = "queued" /\ Cardinality(At("running")) < Threads
    /\ stage' = [stage EXCEPT ![t] = "running"]
    /\ UNCHANGED <<phase, cancelled, busy, written>>

\* Its end is reported unless the application quits meanwhile.
Ends(t) ==
    /\ stage[t] = "running"
    /\ stage' = [stage EXCEPT ![t] = IF t \in cancelled THEN "idle"
                                                        ELSE "reporting"]
    /\ written' = written \cup ({t} \cap Creations)
    /\ UNCHANGED <<phase, cancelled, busy>>

\* Between two chunks, pieces, members or one-second waits.
Notices(t) ==
    /\ stage[t] = "running" /\ t \in cancelled
    /\ stage' = [stage EXCEPT ![t] = "idle"]
    /\ UNCHANGED <<phase, cancelled, busy, written>>

\* A signal queued to the GUI thread.
Reported(t) ==
    /\ stage[t] = "reporting" /\ phase \in {"up", "pumping"}
    /\ stage' = [stage EXCEPT ![t] = "idle"]
    /\ busy' = (busy /\ t \notin Creations)
    /\ UNCHANGED <<phase, cancelled, written>>

Cancellable == Scans \cup Fetches \cup Extractions \cup Creations

Quit ==
    /\ phase = "up"
    /\ phase' = "pumping"
    /\ stage' = [t \in Tasks |-> IF stage[t] = "queued" THEN "idle"
                                                        ELSE stage[t]]
    /\ cancelled' = Cancellable
    /\ UNCHANGED <<busy, written>>

ShutdownReturns ==
    /\ phase = "pumping"
    /\ phase' = "waiting"
    /\ UNCHANGED <<stage, cancelled, busy, written>>

Exit ==
    /\ phase = "waiting"
    /\ At("running") = {} /\ At("queued") = {}
    /\ phase' = "gone"
    /\ UNCHANGED <<stage, cancelled, busy, written>>

Next ==
    \/ \E t \in Tasks : Submit(t) \/ Start(t) \/ Ends(t) \/ Notices(t) \/ Reported(t)
    \/ Quit \/ ShutdownReturns \/ Exit

\* A scan or a hash may last; a query and a cancelled task do not.
Spec ==
    /\ Init /\ [][Next]_vars
    /\ \A t \in Tasks : WF_vars(Start(t)) /\ WF_vars(Notices(t))
    /\ \A t \in Queries : WF_vars(Ends(t))
    /\ WF_vars(ShutdownReturns) /\ WF_vars(Exit)

-----------------------------------------------------------------------------
(* A quit ends, however long the running tasks would have lasted and       *)
(* whatever is submitted while it pumps events.                            *)
QuitEnds == phase = "pumping" ~> phase = "gone"
=============================================================================
