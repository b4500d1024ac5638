--------------------------------- MODULE Launch ---------------------------------
(***************************************************************************)
(* engine/single_instance.py, run_web_spike.py's use of it and             *)
(* SpikeWindow.open_source: a second launch hands its argument to the      *)
(* first, whose page opens it once it has loaded.                          *)
(***************************************************************************)
EXTENDS Naturals, FiniteSets

CONSTANTS
    Launches,   \* processes; each has one argument, named after it
    None

VARIABLES
    stage,      \* of a process: "new", "alone" (nobody answered), "primary", "gone"
    inbox,      \* arguments written to a primary's pipe and not read yet
    page,       \* of a primary: "loading" or "loaded"
    works,      \* what it loaded is the application
    pending,    \* _pending_open_source
    opened,     \* history: times the Add page was given an argument
    lost        \* history: arguments nobody will open

vars == <<stage, inbox, page, works, pending, opened, lost>>

Init ==
    /\ stage = [p \in Launches |-> "new"]
    /\ inbox = [p \in Launches |-> {}]
    /\ page = [p \in Launches |-> "loading"] /\ works = [p \in Launches |-> FALSE]
    /\ pending = [p \in Launches |-> None]
    /\ opened = [p \in Launches |-> 0] /\ lost = {}

Primaries == {p \in Launches : stage[p] = "primary"}

----------------------------------------------------------------------------
(* _forward_to_running_instance: a primary that listens is written to; one *)
(* that does not answer in half a second is missed.                        *)
Probe(p) ==
    /\ stage[p] = "new"
    /\ \/ \E q \in Primaries :
            /\ inbox' = [inbox EXCEPT ![q] = @ \cup {p}]
            /\ stage' = [stage EXCEPT ![p] = "gone"]
       \/ stage' = [stage EXCEPT ![p] = "alone"] /\ UNCHANGED inbox
    /\ UNCHANGED <<page, works, pending, opened, lost>>

RunOpenSource(a, p) ==
    IF works[p] THEN opened' = [opened EXCEPT ![a] = @ + 1] /\ UNCHANGED lost
    ELSE lost' = lost \cup {a} /\ UNCHANGED opened

(* open_source: before the page has loaded it waits, over any other.       *)
OpenSource(a, p) ==
    IF page[p] = "loaded" THEN RunOpenSource(a, p) /\ UNCHANGED pending
    ELSE /\ pending' = [pending EXCEPT ![p] = a]
         /\ lost' = IF pending[p] = None THEN lost ELSE lost \cup {pending[p]}
         /\ UNCHANGED opened

(* _start_listening and the window.  A listener already there is no        *)
(* obstacle: the name is taken over.                                       *)
Listen(p) ==
    /\ stage[p] = "alone"
    /\ stage' = [stage EXCEPT ![p] = "primary"]
    /\ OpenSource(p, p)
    /\ UNCHANGED <<inbox, page, works>>

(* _on_socket_disconnected, from the event loop.                           *)
ArgumentReceived(p) ==
    /\ stage[p] = "primary"
    /\ \E a \in inbox[p] : inbox' = [inbox EXCEPT ![p] = @ \ {a}] /\ OpenSource(a, p)
    /\ UNCHANGED <<stage, page, works>>

(* _on_page_loaded: at the first load and at every reload.                 *)
PageLoaded(p, ok) ==
    /\ stage[p] = "primary"
    /\ page' = [page EXCEPT ![p] = "loaded"] /\ works' = [works EXCEPT ![p] = ok]
    /\ IF ok /\ pending[p] # None
       THEN opened' = [opened EXCEPT ![pending[p]] = @ + 1] /\ pending' = [pending EXCEPT ![p] = None]
       ELSE UNCHANGED <<pending, opened>>
    /\ UNCHANGED <<stage, inbox, lost>>

(* A quit or a crash takes what was not opened with it.                    *)
Exit(p) ==
    /\ stage[p] = "primary"
    /\ stage' = [stage EXCEPT ![p] = "gone"]
    /\ lost' = lost \cup inbox[p] \cup ({pending[p]} \ {None})
    /\ inbox' = [inbox EXCEPT ![p] = {}] /\ pending' = [pending EXCEPT ![p] = None]
    /\ UNCHANGED <<page, works, opened>>

Next ==
    \E p \in Launches :
        \/ Probe(p) \/ Listen(p) \/ ArgumentReceived(p) \/ Exit(p)
        \/ \E ok \in BOOLEAN : PageLoaded(p, ok)

Spec == Init /\ [][Next]_vars

----------------------------------------------------------------------------
TypeOK ==
    /\ stage \in [Launches -> {"new", "alone", "primary", "gone"}]
    /\ inbox \in [Launches -> SUBSET Launches]
    /\ page \in [Launches -> {"loading", "loaded"}] /\ works \in [Launches -> BOOLEAN]
    /\ pending \in [Launches -> Launches \cup {None}]
    /\ opened \in [Launches -> Nat]
    /\ lost \subseteq Launches

(* Whoever it went through, an argument is somewhere once and only once:   *)
(* not launched, in one pipe, waiting for one page, opened, or lost.       *)
PlacesOf(a) ==
    (IF stage[a] \in {"new", "alone"} THEN 1 ELSE 0)
    + Cardinality({p \in Launches : a \in inbox[p]})
    + Cardinality({p \in Launches : pending[p] = a})
    + opened[a] + (IF a \in lost THEN 1 ELSE 0)

OpenedOnce == \A a \in Launches : PlacesOf(a) = 1
=============================================================================
