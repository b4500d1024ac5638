------------------------- MODULE SessionInvariants --------------------------
(***************************************************************************)
(* Why the promises of SessionManager hold.  HandleHasRecord, LiveIsKnown, *)
(* RowIsLive, FileHasRow, CleanExitKeepsProgress and the refinement of     *)
(* ResumeStore are not inductive: each leans on what the requests, the     *)
(* calls and the alerts still in flight will do to it.  The conjuncts      *)
(* below say that, and Inductive, their conjunction, is preserved by every *)
(* step.                                                                   *)
(***************************************************************************)
EXTENDS SessionManager

-----------------------------------------------------------------------------
(* Incarnations: what a file may be written from                           *)

\* Nothing names an incarnation that libtorrent has not made yet.
NoneFromTheFuture ==
    /\ \A h \in Torrents : live[h] <= adds[h] /\ handles[h] <= adds[h]
    /\ \A i \in DOMAIN cmds :
           cmds[i].op \in {"remove", "save"} => cmds[i].inc <= adds[cmds[i].h]
    /\ \A k \in DOMAIN alerts : alerts[k].inc <= adds[alerts[k].h]
    /\ \A c \in calls : c.inc <= adds[c.h]

\* The answer to a save of the torrent now in the session.
IsSave(a, h) == a.kind = "saved" /\ a.h = h /\ a.inc = live[h]

\* Outside the session there is no progress; inside, no save claims more.
SavesBacked ==
    /\ \A h \in Torrents : live[h] = 0 => progress[h] = 0
    /\ \A h \in Torrents : live[h] # 0 =>
           \A k \in DOMAIN alerts :
               IsSave(alerts[k], h) => alerts[k].p <= progress[h]

Incarnations == NoneFromTheFuture /\ SavesBacked

-----------------------------------------------------------------------------
(* Calls to add_torrent()                                                  *)

\* A thread is in one call at a time; a GUI thread in a call runs no handler.
OneCall ==
    /\ \A c, d \in calls : c.thread = d.thread => c = d
    /\ gui # "idle" => ~InCall(Gui)

\* A queued add is the one its thread is blocked in.
AddsAwaited ==
    /\ \A i \in DOMAIN cmds : cmds[i].op = "add" =>
           \E c \in calls : /\ c.thread = cmds[i].thread /\ c.h = cmds[i].h
                            /\ c.stage = "wait"
    /\ \A i, j \in DOMAIN cmds :
           cmds[i].op = "add" /\ cmds[j].op = "add"
           /\ cmds[i].thread = cmds[j].thread => i = j

Calling == OneCall /\ AddsAwaited

\* What libtorrent answered a call is still so while the call has not
\* returned, and meanwhile nothing takes the row away.
AnswersFor(h) ==
    \A c \in calls : c.h = h =>
        /\ c.stage = "ok" => c.inc = live[h]
        /\ c.stage = "dup" => live[h] # 0
        /\ gui # "saving"
        /\ ~RemovalInFlight(h)
        /\ records[h] # "none"
        /\ h \in pendingRestore => c.thread = Gui

AnswersHold ==
    /\ \A c \in calls : c.stage = "ok" => c.inc # 0
    /\ \A h \in Torrents \ raced : AnswersFor(h)

CallsOK == Calling /\ AnswersHold

-----------------------------------------------------------------------------
(* Rows, handles and the session, for one info-hash                        *)

Answered(h) == \E c \in calls : c.h = h /\ c.stage = "ok"

IsAdded(a, h) == a.kind = "added" /\ a.h = h

\* The k-th alert is the one _on_torrent_added will take for the answer to
\* the restore of h.
RestoreAnswer(h, k) ==
    /\ k \in DOMAIN alerts
    /\ IsAdded(alerts[k], h)
    /\ \A i \in 1..(k - 1) : ~IsAdded(alerts[i], h)

Reported(h) ==
    \E k \in DOMAIN alerts : alerts[k].kind = "removed" /\ alerts[k].h = h

\* A handle is that of the torrent in the session, until its removal.
HandleCurrent(h) ==
    handles[h] # 0 =>
        /\ records[h] # "none"
        /\ live[h] \in {0, handles[h]}
        /\ live[h] = 0 => Reported(h) \/ gui = "saving"

\* A torrent in the session has a handle, or the call that will bind it.
LiveBound(h) == live[h] # 0 => handles[h] = live[h] \/ Answered(h)

\* A torrent reported removed is gone.
RemovedGone(h) == Reported(h) => live[h] = 0

\* Before libtorrent services a restore nothing else was done to its torrent.
RestoreUnbound(h) ==
    \A i \in DOMAIN cmds :
        /\ IsRestore(cmds[i]) /\ cmds[i].h = h =>
               handles[h] = 0 /\ h \in pendingRestore
        /\ cmds[i].op = "remove" /\ cmds[i].h = h =>
               \A j \in DOMAIN cmds : ~(IsRestore(cmds[j]) /\ cmds[j].h = h)

\* What the first answer says of a restore still waited for is what the
\* handler will find: the incarnation it binds is in the session or on its
\* way out, and a refused one left no torrent without a handle.
AnswerTrue(h) ==
    \A k \in DOMAIN alerts : RestoreAnswer(h, k) =>
        IF alerts[k].ok
        THEN /\ alerts[k].inc # 0
             /\ live[h] \in {0, alerts[k].inc}
             /\ handles[h] \in {0, alerts[k].inc}
             /\ live[h] = 0 => Reported(h)
        ELSE LiveBound(h)

\* No removal of it is reported before that answer.
AnswerBeforeRemoval(h) ==
    \A k \in DOMAIN alerts :
        alerts[k].kind = "removed" /\ alerts[k].h = h =>
            \E i \in 1..(k - 1) : IsAdded(alerts[i], h)

Pending(h) ==
    /\ records[h] # "none"
    /\ gui # "saving" => AnswerTrue(h) /\ AnswerBeforeRemoval(h)

\* Once settled, a row has a handle or a call that will give it one.
Settled(h) ==
    /\ LiveBound(h)
    /\ records[h] # "none" => handles[h] # 0 \/ Adding(h)

Row(h) ==
    /\ HandleCurrent(h)
    /\ RemovedGone(h)
    /\ RestoreUnbound(h)
    /\ disk[h] # NoFile => records[h] # "none" \/ h \in failedRestore
    /\ IF h \in pendingRestore THEN Pending(h) ELSE Settled(h)

RowsOK == IF Running THEN \A h \in Torrents \ raced : Row(h)
                     ELSE \A h \in Torrents :
                              handles[h] = 0 /\ records[h] = "none"

-----------------------------------------------------------------------------
(* Saves, for one torrent in the session                                   *)

\* A tick compares with what it found, so the alerts it popped do not count.
Recent(k) == gui = "tick" => k > popped

\* Progress is never behind the last tick.
Ahead(h) == live[h] # 0 => progress[h] >= atTick[h]

\* Later saves hold at least as much as earlier ones, and those made since
\* the last tick at least what it found.
SavesGrow(h) ==
    \A k \in DOMAIN alerts : IsSave(alerts[k], h) =>
        /\ Recent(k) => alerts[k].p >= atTick[h]
        /\ \A i \in 1..(k - 1) :
               IsSave(alerts[i], h) => alerts[i].p <= alerts[k].p

\* An unchanged torrent is in its file, or in a save about to be written.
CleanIsKept(h) ==
    ~dirty[h] =>
        \/ \E k \in DOMAIN alerts :
               IsSave(alerts[k], h) /\ alerts[k].p = progress[h]
        \/ /\ disk[h] = progress[h]
           /\ \A k \in DOMAIN alerts : ~IsSave(alerts[k], h)

\* A save that failed since the last tick had nothing to add to the file and
\* the saves ahead of it.
FailureHarmless(h) ==
    \A k \in DOMAIN alerts :
        /\ alerts[k].kind = "saveFailed" /\ alerts[k].h = h
        /\ alerts[k].inc = live[h] /\ Recent(k)
        => \/ \E i \in 1..(k - 1) :
                  IsSave(alerts[i], h) /\ alerts[i].p >= atTick[h]
           \/ /\ disk[h] >= atTick[h]
              /\ \A i \in 1..(k - 1) :
                     IsSave(alerts[i], h) => alerts[i].p >= atTick[h]

\* A torrent shutdown() no longer waits for is in its file.
ClearedIsKept(h) ==
    gui = "saving" /\ handles[h] = live[h] =>
        <<h, live[h]>> \in savePending \/ disk[h] >= atTick[h]

SavesOK ==
    \A h \in Torrents :
        /\ Ahead(h)
        /\ live[h] # 0 => SavesGrow(h)
        /\ live[h] # 0 /\ h \notin raced =>
               CleanIsKept(h) /\ FailureHarmless(h) /\ ClearedIsKept(h)

\* The inductive invariant of the session, whole.
Inductive == IInv /\ Incarnations /\ CallsOK /\ RowsOK /\ SavesOK
=============================================================================
