------------------------------ MODULE Rechecks ------------------------------
(***************************************************************************)
(* engine/scheduled_recheck_service.py: an hourly poll that forces a       *)
(* recheck of a finished torrent once the interval has passed since the    *)
(* last one, or since a poll first saw it finished.                        *)
(***************************************************************************)
EXTENDS Integers

CONSTANTS Torrents,
          Interval,     \* scheduled_recheck_interval_days
          MaxNow        \* bound: the day it is

VARIABLES
    now,        \* time.monotonic(), in days
    enabled,    \* scheduled_recheck_enabled
    state,      \* record.state: finished, checking, or another
    last,       \* _last_checked, Never where it holds no entry
    rechecked,  \* history: when the service last rechecked it, Never if it has not
    started     \* history: when the process started

vars == <<now, enabled, state, last, rechecked, started>>

Never == -1

TypeOK ==
    /\ now \in 0..MaxNow
    /\ enabled \in BOOLEAN
    /\ state \in [Torrents -> {"finished", "checking", "other"}]
    /\ last \in [Torrents -> Never..MaxNow]
    /\ rechecked \in [Torrents -> Never..MaxNow]
    /\ started \in 0..now

Init ==
    /\ now = 0 /\ started = 0 /\ enabled = FALSE
    /\ state = [t \in Torrents |-> "other"]
    /\ last = [t \in Torrents |-> Never]
    /\ rechecked = [t \in Torrents |-> Never]

NextDay ==
    /\ now < MaxNow
    /\ now' = now + 1
    /\ UNCHANGED <<enabled, state, last, rechecked, started>>

\* Turned off, the service forgets nothing.
SetEnabled ==
    /\ enabled' = ~enabled
    /\ UNCHANGED <<now, state, last, rechecked, started>>

StateBecomes(t, s) ==
    /\ state[t] # s
    /\ state' = [state EXCEPT ![t] = s]
    /\ UNCHANGED <<now, enabled, last, rechecked, started>>

Finished == {t \in Torrents : state[t] = "finished"}

Due == {t \in Finished : last[t] # Never /\ now - last[t] >= Interval}

\* A torrent first seen finished starts its clock; one that no longer is
\* loses its entry.
Clock(t) ==
    CASE t \notin Finished -> Never
      [] t \in Due \/ last[t] = Never -> now
      [] OTHER -> last[t]

EvaluateNow ==
    /\ enabled
    /\ last' = [t \in Torrents |-> Clock(t)]
    /\ rechecked' = [t \in Torrents |-> IF t \in Due THEN now ELSE rechecked[t]]
    /\ state' = [t \in Torrents |-> IF t \in Due THEN "checking" ELSE state[t]]
    /\ UNCHANGED <<now, enabled, started>>

\* The clock is not persisted.
Restart ==
    /\ last' = [t \in Torrents |-> Never] /\ started' = now
    /\ UNCHANGED <<now, enabled, state, rechecked>>

Next ==
    \/ NextDay \/ SetEnabled \/ EvaluateNow \/ Restart
    \/ \E t \in Torrents, s \in {"finished", "checking", "other"} :
            StateBecomes(t, s)

Spec == Init /\ [][Next]_vars

-----------------------------------------------------------------------------
(* Two rechecks of a torrent are never closer than the interval, whatever  *)
(* is removed, finishes again, is switched or restarted in between; and a  *)
(* process rechecks nothing before an interval has gone by since it        *)
(* started, however long ago the last recheck was.  So a restart makes the *)
(* next recheck later, and never sooner; the docstring (lines 12-17) says  *)
(* the reverse: "a bit sooner [...], never later".                         *)
Spaced ==
    [][\A t \in Torrents :
        rechecked'[t] # rechecked[t] =>
            /\ now - started >= Interval
            /\ rechecked[t] = Never \/ now - rechecked[t] >= Interval]_vars

=============================================================================
