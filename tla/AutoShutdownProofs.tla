------------------------- MODULE AutoShutdownProofs -------------------------
(***************************************************************************)
(* The safety of the auto-shutdown countdown, for any set of torrents and  *)
(* any bounds.  No property is inductive alone: a countdown held off has   *)
(* a job to wait for only because has_pending_extractions() never counts   *)
(* less than what runs, and no countdown survives the quit only because    *)
(* there is never a second timer for stop() to miss.                       *)
(***************************************************************************)
EXTENDS AutoShutdown, SequenceTheorems, TLAPS

IInv == /\ TypeOK
        /\ WorkIsCounted
        /\ OneTimer
        /\ NoCountdownAtQuit
        /\ DeferredHasBusy

-----------------------------------------------------------------------------
(* Queues                                                                  *)

\* Posting an alert keeps the queue typed and longer than what is popped.
LEMMA Posted ==
  ASSUME NEW a \in Alert, alerts \in Seq(Alert), popped \in Nat,
         popped <= Len(alerts)
  PROVE  /\ Append(alerts, a) \in Seq(Alert)
         /\ popped <= Len(Append(alerts, a))
BY AppendProperties, LenProperties

\* A handler is given an alert of its kind and leaves a typed queue, with one
\* alert less to handle.
LEMMA Popped ==
  ASSUME alerts \in Seq(Alert), popped \in Nat, popped <= Len(alerts),
         NEW kind, NextAlert(kind)
  PROVE  /\ Head(alerts) \in Alert
         /\ alerts' \in Seq(Alert)
         /\ popped' \in Nat /\ popped' <= Len(alerts')
<1>1. alerts # <<>>
  BY EmptySeq DEF NextAlert
<1>2. /\ Head(alerts) \in Alert
      /\ Tail(alerts) \in Seq(Alert) /\ Len(Tail(alerts)) = Len(alerts) - 1
  BY <1>1, HeadTailProperties
<1> QED BY <1>1, <1>2, LenProperties DEF NextAlert

-----------------------------------------------------------------------------
(* The countdown                                                           *)

\* _maybe_start_countdown starts a countdown only when none runs and the
\* application is not quitting, and holds one off only while a job is
\* pending.
LEMMA CountdownKeeps ==
  ASSUME IInv, NEW extr \in Nat, MaybeStartCountdown(extr),
         extr >= extractions, extractions' = extr, creating' = creating,
         stopped' = stopped
  PROVE  /\ pending' \in BOOLEAN /\ timers' \in Nat /\ deferred' \in BOOLEAN
         /\ OneTimer' /\ NoCountdownAtQuit' /\ DeferredHasBusy'
<1>1. /\ pending \in BOOLEAN /\ timers \in Nat /\ deferred \in BOOLEAN
      /\ extractions \in Nat
  BY DEF IInv, TypeOK
<1>2. CASE pending' = pending /\ timers' = timers /\ deferred' = deferred
  BY <1>1, <1>2
  DEF IInv, OneTimer, NoCountdownAtQuit, DeferredHasBusy, Busy
<1>3. CASE deferred' /\ Busy(extr, creating) /\ pending' = pending
           /\ timers' = timers /\ deferred' = TRUE
  BY <1>1, <1>3
  DEF IInv, OneTimer, NoCountdownAtQuit, DeferredHasBusy, Busy
<1>4. CASE /\ ~stopped /\ ~pending /\ pending' = TRUE
           /\ timers' = timers + 1 /\ deferred' = deferred
  BY <1>1, <1>4
  DEF IInv, OneTimer, NoCountdownAtQuit, DeferredHasBusy, Busy
<1> QED BY <1>2, <1>3, <1>4 DEF MaybeStartCountdown

\* The inductive invariant holds at launch.
LEMMA InitIInv == Init => IInv
<1> SUFFICES ASSUME NEW s \in [Torrents -> TorrentState], Fresh(s),
                    enabled \in BOOLEAN
             PROVE  IInv
  BY DEF Init
<1>1. record \in [Torrents -> RecordState]
  BY DEF Fresh, RecordState
<1>2. alerts \in Seq(Alert) /\ Len(alerts) = 0
  BY EmptySeq DEF Fresh
<1>3. TypeOK
  <2>1. /\ state \in [Torrents -> TorrentState]
        /\ popped = 0 /\ popped \in Nat /\ popped <= Len(alerts)
        /\ running \in Nat /\ extracted \in Nat /\ extractions \in Nat
        /\ timers \in Nat /\ retries \in Nat
    BY <1>2 DEF Fresh
  <2>2. /\ asked \in BOOLEAN /\ creating \in BOOLEAN
        /\ pending \in BOOLEAN /\ deferred \in BOOLEAN
        /\ stopped \in BOOLEAN /\ executed \in BOOLEAN
        /\ creation \in {"none", "running", "done"}
    BY DEF Fresh
  <2> QED BY <1>1, <1>2, <2>1, <2>2 DEF TypeOK
<1> QED
  BY <1>3
  DEF Fresh, IInv, WorkIsCounted, OneTimer, NoCountdownAtQuit, DeferredHasBusy

\* libtorrent, the user's torrent commands and the tick leave the service and
\* its busy sources alone.
LEMMA SessionKeeps ==
  ASSUME IInv, UNCHANGED <<work, enabled, service>>,
         state' \in [Torrents -> TorrentState],
         alerts' \in Seq(Alert), asked' \in BOOLEAN,
         popped' \in Nat, popped' <= Len(alerts'),
         record' \in [Torrents -> RecordState]
  PROVE  IInv'
BY DEF IInv, TypeOK, WorkIsCounted, OneTimer, NoCountdownAtQuit,
       DeferredHasBusy, Busy, work, service

\* The steps of libtorrent, of the user's torrent commands and of the tick.
LEMMA SessionSteps ==
  ASSUME IInv,
         \/ \E h \in Torrents : Add(h) \/ Pause(h) \/ Resume(h) \/ NetFinish(h)
         \/ NetUpdate \/ Tick
  PROVE  IInv'
<1>1. /\ state \in [Torrents -> TorrentState] /\ alerts \in Seq(Alert)
      /\ asked \in BOOLEAN /\ popped \in Nat /\ popped <= Len(alerts)
      /\ record \in [Torrents -> RecordState] /\ Len(alerts) \in Nat
  BY LenProperties DEF IInv, TypeOK
<1>2. ASSUME NEW h \in Torrents, Add(h) PROVE IInv'
  BY <1>1, <1>2, SessionKeeps
  DEF Add, TorrentState, RecordState
<1>3. ASSUME NEW h \in Torrents, Pause(h) \/ Resume(h) PROVE IInv'
  BY <1>1, <1>3, SessionKeeps
  DEF Pause, Resume, SetState, TorrentState
<1>4. ASSUME NEW h \in Torrents, NetFinish(h) PROVE IInv'
  <2>1. Finished(h) \in Alert
    BY DEF Finished, Alert
  <2>2. alerts' \in Seq(Alert) /\ popped <= Len(alerts')
    BY <1>1, <1>4, <2>1, Posted DEF NetFinish
  <2> QED
    BY <1>1, <1>4, <2>2, SessionKeeps DEF NetFinish, SetState, TorrentState
<1>5. CASE NetUpdate
  <2>1. Update(state) \in Alert
    BY <1>1 DEF Update, Alert
  <2>2. alerts' \in Seq(Alert) /\ popped <= Len(alerts')
    BY <1>1, <1>5, <2>1, Posted DEF NetUpdate
  <2> QED BY <1>1, <1>5, <2>2, SessionKeeps DEF NetUpdate
<1>6. CASE Tick
  BY <1>1, <1>6, SessionKeeps DEF Tick
<1> QED BY <1>2, <1>3, <1>4, <1>5, <1>6

\* The handlers of a popped alert.
LEMMA DispatchKeeps ==
  ASSUME IInv, Dispatch
  PROVE  IInv'
<1>1. alerts \in Seq(Alert) /\ popped \in Nat /\ popped <= Len(alerts)
  BY DEF IInv, TypeOK
<1>2. CASE OnStateUpdate
  <2>1. /\ Head(alerts) \in Alert /\ Head(alerts).kind = "update"
        /\ alerts' \in Seq(Alert) /\ popped' \in Nat /\ popped' <= Len(alerts')
    BY <1>1, <1>2, Popped DEF OnStateUpdate, NextAlert
  <2>2. Head(alerts).states \in [Torrents -> TorrentState]
    BY <2>1 DEF Alert
  <2>3. record' \in [Torrents -> RecordState]
    BY <1>2, <2>2 DEF OnStateUpdate, IInv, TypeOK, TorrentState, RecordState
  <2>4. UNCHANGED <<work, enabled, service, state, asked>>
    BY <1>2 DEF OnStateUpdate, NextAlert, work, service
  <2> QED BY <2>1, <2>3, <2>4, SessionKeeps DEF IInv, TypeOK
<1>3. ASSUME NEW unzip \in BOOLEAN, OnTorrentFinished(unzip) PROVE IInv'
  <2>1. alerts' \in Seq(Alert) /\ popped' \in Nat /\ popped' <= Len(alerts')
    BY <1>1, <1>3, Popped DEF OnTorrentFinished
  <2>2. /\ extractions' \in Nat /\ extractions' >= extractions
        /\ running' \in Nat /\ WorkIsCounted'
    BY <1>3 DEF OnTorrentFinished, NextAlert, IInv, TypeOK, WorkIsCounted
  <2>3. UNCHANGED <<state, asked, record, extracted, creation, creating,
                    enabled, retries, stopped, executed>>
    BY <1>3 DEF OnTorrentFinished, NextAlert
  <2>4. /\ pending' \in BOOLEAN /\ timers' \in Nat /\ deferred' \in BOOLEAN
        /\ OneTimer' /\ NoCountdownAtQuit' /\ DeferredHasBusy'
    <3> DEFINE extr == extractions'
    <3>1. MaybeStartCountdown(extr)
      BY <1>3 DEF OnTorrentFinished
    <3> HIDE DEF extr
    <3> QED BY <2>2, <2>3, <3>1, CountdownKeeps DEF extr
  <2>5. TypeOK'
    BY <2>1, <2>2, <2>3, <2>4 DEF IInv, TypeOK
  <2> QED BY <2>2, <2>4, <2>5 DEF IInv
<1> QED BY <1>2, <1>3 DEF Dispatch

\* The due calls of _maybe_start_countdown, and the countdown's end.
LEMMA CountdownStepsKeep ==
  ASSUME IInv, RetryCountdown \/ CountdownElapsed \/ Cancel \/ Quit
  PROVE  IInv'
<1>1. CASE RetryCountdown
  <2>1. /\ retries' \in Nat /\ MaybeStartCountdown(extractions)
        /\ UNCHANGED <<session, work, enabled, stopped, executed>>
        /\ extractions \in Nat
    BY <1>1 DEF RetryCountdown, IInv, TypeOK
  <2>2. extractions' = extractions /\ creating' = creating
    BY <2>1 DEF work
  <2>3. /\ pending' \in BOOLEAN /\ timers' \in Nat /\ deferred' \in BOOLEAN
        /\ OneTimer' /\ NoCountdownAtQuit' /\ DeferredHasBusy'
    BY <2>1, <2>2, CountdownKeeps
  <2>4. TypeOK' /\ WorkIsCounted'
    BY <2>1, <2>3 DEF IInv, TypeOK, WorkIsCounted, session, work
  <2> QED BY <2>3, <2>4 DEF IInv
<1>2. CASE CountdownElapsed \/ Cancel \/ Quit
  <2>1. /\ timers' \in Nat /\ pending' = FALSE /\ OneTimer'
        /\ executed' \in BOOLEAN /\ stopped' \in BOOLEAN
        /\ stopped => stopped'
        /\ UNCHANGED <<session, work, enabled, deferred, retries>>
    <3>1. executed' \in BOOLEAN
      BY <1>2 DEF CountdownElapsed, Cancel, Quit, IInv, TypeOK
    <3>2. stopped' \in BOOLEAN /\ (stopped => stopped')
      BY <1>2 DEF CountdownElapsed, Cancel, Quit, IInv, TypeOK
    <3>3. pending \in BOOLEAN /\ timers \in Nat /\ OneTimer
      BY DEF IInv, TypeOK
    <3>4. timers' = 0 /\ pending' = FALSE
      BY <1>2, <3>3 DEF CountdownElapsed, Cancel, Quit, OneTimer
    <3>5. UNCHANGED <<session, work, enabled, deferred, retries>>
      BY <1>2 DEF CountdownElapsed, Cancel, Quit
    <3> QED BY <3>1, <3>2, <3>4, <3>5 DEF OneTimer
  <2>2. TypeOK'
    BY <2>1 DEF IInv, TypeOK, session, work
  <2>3. WorkIsCounted' /\ NoCountdownAtQuit'
    BY <2>1 DEF IInv, WorkIsCounted, NoCountdownAtQuit, work
  <2>4. DeferredHasBusy'
    <3>1. UNCHANGED <<deferred, extractions, creating>>
      BY <2>1 DEF work
    <3> QED BY <2>1, <3>1 DEF IInv, DeferredHasBusy, Busy
  <2> QED BY <2>1, <2>2, <2>3, <2>4 DEF IInv
<1> QED BY <1>1, <1>2

\* A job's end, and the delivery of the signal that reports it: the last one
\* releases a countdown held off.
LEMMA JobsKeep ==
  ASSUME IInv, \/ ExtractionEnds \/ CreationEnds \/ CreateTorrent
               \/ OnExtractionFinished \/ OnCreationFinished
  PROVE  IInv'
<1>1. CASE ExtractionEnds
  BY <1>1
  DEF ExtractionEnds, IInv, TypeOK, WorkIsCounted, OneTimer,
      NoCountdownAtQuit, DeferredHasBusy, Busy, session, service
<1>2. CASE CreationEnds \/ CreateTorrent
  <2>1. /\ creation' \in {"none", "running", "done"}
        /\ creating' \in BOOLEAN /\ (creating => creating')
        /\ UNCHANGED <<session, running, extracted, extractions, enabled,
                       service>>
    BY <1>2 DEF CreationEnds, CreateTorrent, IInv, TypeOK
  <2>2. TypeOK'
    BY <2>1 DEF IInv, TypeOK, session, service
  <2>3. WorkIsCounted' /\ OneTimer' /\ NoCountdownAtQuit' /\ DeferredHasBusy'
    BY <2>1 DEF IInv, TypeOK, WorkIsCounted, OneTimer, NoCountdownAtQuit,
                DeferredHasBusy, Busy, service
  <2> QED BY <2>2, <2>3 DEF IInv
<1>3. CASE OnExtractionFinished
  <2>1. /\ extractions' \in Nat /\ extracted' \in Nat /\ WorkIsCounted'
        /\ extractions' # 0 => extractions' > 0
    BY <1>3 DEF OnExtractionFinished, LeftPending, IInv, TypeOK, WorkIsCounted
  <2>2. deferred' \in BOOLEAN /\ retries' \in Nat
    <3>1. deferred \in BOOLEAN /\ retries \in Nat /\ retries + 1 \in Nat
      BY DEF IInv, TypeOK
    <3>2. CASE BusySourceIdle
      BY <3>1, <3>2 DEF BusySourceIdle
    <3>3. CASE deferred' = deferred /\ retries' = retries
      BY <3>1, <3>3
    <3> QED BY <1>3, <3>2, <3>3 DEF OnExtractionFinished
  <2>3. DeferredHasBusy'
    BY <1>3, <2>1
    DEF OnExtractionFinished, BusySourceIdle, DeferredHasBusy, Busy
  <2> QED
    BY <1>3, <2>1, <2>2, <2>3
    DEF OnExtractionFinished, IInv, TypeOK, OneTimer, NoCountdownAtQuit,
        session
<1>4. CASE OnCreationFinished
  <2>1. deferred' = FALSE /\ retries' \in Nat
    BY <1>4 DEF OnCreationFinished, BusySourceIdle, IInv, TypeOK
  <2> QED
    BY <1>4, <2>1
    DEF OnCreationFinished, IInv, TypeOK, WorkIsCounted, OneTimer,
        NoCountdownAtQuit, DeferredHasBusy, session
<1> QED BY <1>1, <1>2, <1>3, <1>4

\* Every step, and every stutter, preserves the inductive invariant.
LEMMA NextIInv == IInv /\ [Next]_vars => IInv'
<1> SUFFICES ASSUME IInv, [Next]_vars PROVE IInv'
  OBVIOUS
<1>1. CASE SetEnabled
  BY <1>1
  DEF SetEnabled, IInv, TypeOK, WorkIsCounted, OneTimer, NoCountdownAtQuit,
      DeferredHasBusy, Busy, session, work, service
<1>2. CASE UNCHANGED vars
  BY <1>2
  DEF vars, IInv, TypeOK, WorkIsCounted, OneTimer, NoCountdownAtQuit,
      DeferredHasBusy, Busy, session, work, service
<1> QED
  BY <1>1, <1>2, SessionSteps, DispatchKeeps, CountdownStepsKeep, JobsKeep
  DEF Next, User, Work, Delivery

-----------------------------------------------------------------------------
(* The theorems                                                            *)

\* The inductive invariant holds in every reachable state.
THEOREM Invariance == Spec => []IInv
<1>1. Init => IInv
  BY InitIInv
<1>2. IInv /\ [Next]_vars => IInv'
  BY NextIInv
<1> QED BY <1>1, <1>2, PTL DEF Spec

\* TypeOK is an invariant: in particular no set or counter of the jobs pending,
\* and no count of the alerts popped, ever goes below zero.
THEOREM TypeCorrect == Spec => []TypeOK
<1>1. IInv => TypeOK
  BY DEF IInv
<1> QED BY <1>1, Invariance, PTL

\* WorkIsCounted is an invariant: has_pending_extractions() holds off the
\* countdown for every extraction still on the pool or not yet reported.
THEOREM JobsCounted == Spec => []WorkIsCounted
<1>1. IInv => WorkIsCounted
  BY DEF IInv
<1> QED BY <1>1, Invariance, PTL

\* OneTimer is an invariant: however many torrents finish during a countdown,
\* there is one timer, the one that cancel_shutdown and stop() stop.
THEOREM SingleTimer == Spec => []OneTimer
<1>1. IInv => OneTimer
  BY DEF IInv
<1> QED BY <1>1, Invariance, PTL

\* NoCountdownAtQuit is an invariant: once stop() has run, neither a late
\* finish nor the end of a background job starts a countdown.
THEOREM QuietQuit == Spec => []NoCountdownAtQuit
<1>1. IInv => NoCountdownAtQuit
  BY DEF IInv
<1> QED BY <1>1, Invariance, PTL

\* DeferredHasBusy is an invariant: a countdown held off always has a job
\* whose end will release it.
THEOREM DeferralHasCause == Spec => []DeferredHasBusy
<1>1. IInv => DeferredHasBusy
  BY DEF IInv
<1> QED BY <1>1, Invariance, PTL
=============================================================================
