---------------------------- MODULE AutoShutdown ----------------------------
(***************************************************************************)
(* engine/auto_shutdown_service.py with what it listens to: the records    *)
(* SessionManager keeps of libtorrent's torrents, the extractions of       *)
(* engine/post_complete_action_service.py, the .torrent creation of        *)
(* ui/web/bridge_create_torrent.py, and the quit of run_web_spike.py.      *)
(*                                                                         *)
(* libtorrent changes a torrent's state and posts torrent_finished from    *)
(* its own thread; a record only follows through the state updates that    *)
(* SessionManager asks for on each tick.  Pool threads report their end    *)
(* through queued signals, which the GUI thread delivers one by one.       *)
(***************************************************************************)
EXTENDS Integers, Sequences

CONSTANTS
    Torrents,       \* info-hashes
    MaxAlerts,      \* bound: alerts libtorrent may have queued
    MaxExtractions  \* bound: extractions pending at once

ASSUME BoundsAssumption == MaxAlerts \in Nat /\ MaxExtractions \in Nat

VARIABLES
    state,          \* of a torrent in libtorrent
    alerts,         \* the alert queue
    asked,          \* post_torrent_updates() not serviced yet
    popped,         \* alerts of the tick in progress
    record          \* TorrentRecord.state

VARIABLES
    running,        \* extractions on the pool
    extracted,      \* their `finished' signals not delivered yet
    extractions,    \* _pending_extractions
    creation,       \* the .torrent creation: where its job is
    creating        \* CreateTorrentBridge._busy

VARIABLES
    enabled,        \* Settings.auto_shutdown_enabled
    pending,        \* _pending_action is set
    timers,         \* countdown timers that will fire
    deferred,       \* _deferred_by_busy_source
    retries,        \* singleShot(0) calls of _maybe_start_countdown due
    stopped,        \* _stopped
    executed        \* the OS command ran in this launch

session == <<state, alerts, asked, popped, record>>
work == <<running, extracted, extractions, creation, creating>>
service == <<pending, timers, deferred, retries, stopped, executed>>
vars == <<session, work, enabled, service>>

TorrentState == {"none", "downloading", "paused", "finished"}
RecordState == {"none", "queued", "downloading", "paused", "finished"}
ActiveDownloadStates == {"queued", "downloading"}

Finished(h) == [kind |-> "finished", h |-> h]
Update(s) == [kind |-> "update", states |-> s]

Alert == [kind : {"finished"}, h : Torrents]
         \cup [kind : {"update"}, states : [Torrents -> TorrentState]]

TypeOK ==
    /\ state \in [Torrents -> TorrentState]
    /\ alerts \in Seq(Alert)
    /\ asked \in BOOLEAN
    /\ popped \in Nat /\ popped <= Len(alerts)
    /\ record \in [Torrents -> RecordState]
    /\ running \in Nat /\ extracted \in Nat /\ extractions \in Nat
    /\ creation \in {"none", "running", "done"}
    /\ creating \in BOOLEAN
    /\ enabled \in BOOLEAN
    /\ pending \in BOOLEAN /\ deferred \in BOOLEAN
    /\ timers \in Nat /\ retries \in Nat
    /\ stopped \in BOOLEAN /\ executed \in BOOLEAN

\* A launch: nothing is pending, torrents come back as they were.
Fresh(s) ==
    /\ state = s
    /\ alerts = <<>> /\ asked = FALSE /\ popped = 0
    /\ record = [h \in Torrents |-> IF s[h] = "none" THEN "none" ELSE "queued"]
    /\ running = 0 /\ extracted = 0 /\ extractions = 0
    /\ creation = "none" /\ creating = FALSE
    /\ pending = FALSE /\ timers = 0 /\ deferred = FALSE /\ retries = 0
    /\ stopped = FALSE /\ executed = FALSE

Init ==
    /\ \E s \in [Torrents -> TorrentState] : Fresh(s)
    /\ enabled \in BOOLEAN

-----------------------------------------------------------------------------
(* The countdown                                                           *)

AllTorrentsIdle == \A h \in Torrents : record[h] \notin ActiveDownloadStates

Busy(extr, crea) == extr > 0 \/ crea

\* _maybe_start_countdown, with `extr' extractions pending.
MaybeStartCountdown_NotStopped(extr) ==
    IF enabled /\ ~pending /\ AllTorrentsIdle
    THEN IF Busy(extr, creating)
         THEN deferred' = TRUE /\ UNCHANGED <<pending, timers>>
         ELSE pending' = TRUE /\ timers' = timers + 1 /\ UNCHANGED deferred
    ELSE UNCHANGED <<pending, timers, deferred>>
MaybeStartCountdown_Again(extr) ==
    IF ~stopped /\ enabled /\ AllTorrentsIdle
    THEN IF Busy(extr, creating)
         THEN deferred' = TRUE /\ UNCHANGED <<pending, timers>>
         ELSE pending' = TRUE /\ timers' = timers + 1 /\ UNCHANGED deferred
    ELSE UNCHANGED <<pending, timers, deferred>>
MaybeStartCountdown(extr) ==
    IF ~stopped /\ enabled /\ ~pending /\ AllTorrentsIdle
    THEN IF Busy(extr, creating)
         THEN deferred' = TRUE /\ UNCHANGED <<pending, timers>>
         ELSE pending' = TRUE /\ timers' = timers + 1 /\ UNCHANGED deferred
    ELSE UNCHANGED <<pending, timers, deferred>>

\* _on_busy_source_idle: the retry comes in the next event-loop turn.
BusySourceIdle_Sticky ==
    /\ IF deferred THEN retries' = retries + 1 ELSE UNCHANGED retries
    /\ UNCHANGED deferred
BusySourceIdle_LastOnly ==
    /\ deferred' = FALSE
    /\ IF deferred /\ ~Busy(extractions', creating')
       THEN retries' = retries + 1 ELSE UNCHANGED retries
BusySourceIdle ==
    /\ deferred' = FALSE
    /\ IF deferred THEN retries' = retries + 1 ELSE UNCHANGED retries

-----------------------------------------------------------------------------
(* libtorrent (external)                                                   *)

SetState(h, s) ==
    /\ state' = [state EXCEPT ![h] = s]
    /\ UNCHANGED <<asked, popped, record, work, enabled, service>>

NetFinish(h) ==
    /\ state[h] = "downloading"
    /\ Len(alerts) < MaxAlerts
    /\ SetState(h, "finished")
    /\ alerts' = Append(alerts, Finished(h))

NetUpdate ==
    /\ asked
    /\ Len(alerts) < MaxAlerts
    /\ asked' = FALSE
    /\ alerts' = Append(alerts, Update(state))
    /\ UNCHANGED <<state, popped, record, work, enabled, service>>

-----------------------------------------------------------------------------
(* The GUI thread, while the application runs                              *)

GuiIdle == popped = 0
GuiRuns == GuiIdle /\ ~stopped

Add(h) ==
    /\ GuiRuns
    /\ state[h] = "none"
    /\ \E s \in {"downloading", "paused"} :
           state' = [state EXCEPT ![h] = s]
    /\ record' = [record EXCEPT ![h] = "queued"]
    /\ UNCHANGED <<alerts, asked, popped, work, enabled, service>>

Pause(h) ==
    /\ GuiRuns
    /\ state[h] = "downloading"
    /\ SetState(h, "paused") /\ UNCHANGED alerts

Resume(h) ==
    /\ GuiRuns
    /\ state[h] = "paused"
    /\ SetState(h, "downloading") /\ UNCHANGED alerts

Tick ==
    /\ GuiRuns
    /\ asked' = TRUE
    /\ popped' = Len(alerts)
    /\ UNCHANGED <<state, alerts, record, work, enabled, service>>

NextAlert(kind) ==
    /\ popped > 0
    /\ Head(alerts).kind = kind
    /\ alerts' = Tail(alerts)
    /\ popped' = popped - 1
    /\ UNCHANGED <<state, asked, extracted, creation, creating, enabled,
                   retries, stopped, executed>>

OnStateUpdate ==
    /\ NextAlert("update")
    /\ record' = [h \in Torrents |->
                      LET s == Head(alerts).states[h] IN
                      IF s = "none" THEN record[h] ELSE s]
    /\ UNCHANGED <<running, extractions, pending, timers, deferred>>

\* torrent_finished reaches PostCompleteActionService first, then this one.
OnTorrentFinished(unzip) ==
    /\ NextAlert("finished")
    /\ unzip => extractions < MaxExtractions
    /\ extractions' = IF unzip THEN extractions + 1 ELSE extractions
    /\ running' = IF unzip THEN running + 1 ELSE running
    /\ MaybeStartCountdown(extractions')
    /\ UNCHANGED record

RetryCountdown ==
    /\ GuiIdle /\ retries > 0
    /\ retries' = retries - 1
    /\ MaybeStartCountdown(extractions)
    /\ UNCHANGED <<session, work, enabled, stopped, executed>>

\* cancel_shutdown stops the timer _countdown_timer refers to.
Cancel_Unchecked ==
    /\ GuiRuns
    /\ pending' = FALSE
    /\ timers' = timers - 1
    /\ UNCHANGED <<session, work, enabled, deferred, retries, stopped, executed>>
Cancel ==
    /\ GuiRuns
    /\ pending
    /\ pending' = FALSE
    /\ timers' = timers - 1
    /\ UNCHANGED <<session, work, enabled, deferred, retries, stopped, executed>>

CountdownElapsed ==
    /\ GuiIdle /\ timers > 0
    /\ timers' = timers - 1
    /\ pending' = FALSE
    /\ executed' = (executed \/ (pending /\ ~stopped /\ enabled))
    /\ UNCHANGED <<session, work, enabled, deferred, retries, stopped>>

SetEnabled ==
    /\ GuiRuns
    /\ enabled' = ~enabled
    /\ UNCHANGED <<session, work, service>>

\* _shutdown(): stop() comes first; the background jobs are cancelled.
Quit ==
    /\ GuiRuns
    /\ stopped' = TRUE
    /\ pending' = FALSE
    /\ timers' = IF pending THEN timers - 1 ELSE timers
    /\ UNCHANGED <<session, work, enabled, deferred, retries, executed>>

-----------------------------------------------------------------------------
(* Background work; its end is a signal delivered later, also while        *)
(* shutdown() pumps events                                                 *)

\* A job cancelled by the quit says nothing, unless it ended just before.
ExtractionEnds ==
    /\ running > 0
    /\ running' = running - 1
    /\ \/ extracted' = extracted + 1
       \/ stopped /\ UNCHANGED extracted
    /\ UNCHANGED <<session, extractions, creation, creating, enabled, service>>

\* _on_extraction_finished takes one off the count: the others are still
\* pending.
LeftPending_Cleared == 0
LeftPending == extractions - 1

OnExtractionFinished ==
    /\ GuiIdle /\ extracted > 0
    /\ extracted' = extracted - 1
    /\ extractions' = LeftPending
    /\ UNCHANGED <<running, creation, creating>>
    /\ IF extractions' = 0 /\ ~stopped
       THEN BusySourceIdle
       ELSE UNCHANGED <<deferred, retries>>
    /\ UNCHANGED <<session, enabled, pending, timers, stopped, executed>>

CreateTorrent ==
    /\ GuiRuns
    /\ ~creating
    /\ creating' = TRUE
    /\ creation' = "running"
    /\ UNCHANGED <<session, running, extracted, extractions, enabled, service>>

CreationEnds ==
    /\ creation = "running"
    /\ \/ creation' = "done"
       \/ stopped /\ creation' = "none"
    /\ UNCHANGED <<session, running, extracted, extractions, creating, enabled,
                   service>>

OnCreationFinished ==
    /\ GuiIdle /\ creation = "done"
    /\ creation' = "none"
    /\ creating' = FALSE
    /\ UNCHANGED <<running, extracted, extractions>>
    /\ BusySourceIdle
    /\ UNCHANGED <<session, enabled, pending, timers, stopped, executed>>

-----------------------------------------------------------------------------
Dispatch == OnStateUpdate \/ \E unzip \in BOOLEAN : OnTorrentFinished(unzip)
Work == ExtractionEnds \/ CreationEnds
Delivery == \/ OnExtractionFinished \/ OnCreationFinished
            \/ RetryCountdown \/ CountdownElapsed
User == \/ \E h \in Torrents : Add(h) \/ Pause(h) \/ Resume(h)
        \/ Cancel \/ SetEnabled \/ CreateTorrent \/ Quit

Next == \/ User \/ Tick \/ Dispatch \/ Work \/ Delivery \/ NetUpdate
        \/ \E h \in Torrents : NetFinish(h)

Spec == Init /\ [][Next]_vars

\* Pool threads finish their jobs, and Qt delivers every queued signal and
\* due timer: a tick in progress ends, then the loop gets to each of them.
FairSpec == /\ Spec
            /\ WF_vars(Dispatch)
            /\ WF_vars(ExtractionEnds) /\ WF_vars(CreationEnds)
            /\ SF_vars(OnExtractionFinished) /\ SF_vars(OnCreationFinished)
            /\ SF_vars(RetryCountdown)

-----------------------------------------------------------------------------
(* Properties                                                              *)

\* has_pending_extractions() counts every extraction that is still on the
\* pool, and every one whose end has not been delivered.
WorkIsCounted == running + extracted <= extractions

\* A countdown is one timer, the one cancel_shutdown can stop: a second
\* torrent that finishes meanwhile does not arm another.
OneTimer == timers = IF pending THEN 1 ELSE 0

\* While quitting no countdown runs, whatever background job reports its end
\* to the event pumping of shutdown(): the PC is never powered off.
NoCountdownAtQuit == stopped => ~pending

\* A countdown held off waits for a job whose end is still to be delivered;
\* it is never left waiting for nothing.
DeferredHasBusy == deferred /\ ~stopped => Busy(extractions, creating)

\* A countdown held off is tried again.
DeferredIsRetried == deferred ~> retries > 0 \/ stopped

\* "Each time a torrent finishes, if the feature is enabled and no torrent is
\* left actively downloading, a cancellable countdown starts."
EachFinishStartsCountdown ==
    [][/\ popped > 0 /\ Head(alerts).kind = "finished" /\ popped' < popped
       /\ enabled /\ ~stopped
       /\ \A h \in Torrents : state[h] # "downloading"
       /\ ~Busy(extractions', creating)
       => pending']_vars

\* "Shutting down mid-extraction would leave half-written files": the OS
\* command never runs while an extraction is in progress.
NoExtractionCutShort ==
    [][executed' /\ ~executed => extractions = 0]_vars
=============================================================================
