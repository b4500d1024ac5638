--------------------------- MODULE SessionManager ---------------------------
(***************************************************************************)
(* The bookkeeping of engine/session_manager.py: which torrents the        *)
(* application knows (_records), which it can drive (_handles), which      *)
(* .fastresume files it keeps, and how those three follow libtorrent,      *)
(* whose network thread services requests in order and answers through a   *)
(* queue of alerts.  The GUI thread pops that queue on a 300 ms tick, on a *)
(* 20 ms poll while a restore is unanswered, and in shutdown()'s own loop. *)
(* Threads of the remote-control HTTP server add torrents concurrently.    *)
(*                                                                         *)
(* A torrent that enters the libtorrent session is an "incarnation" of its *)
(* info-hash: a handle is valid while its incarnation is the one in the    *)
(* session.  Progress counts what has been downloaded, up to Full.         *)
(***************************************************************************)
EXTENDS Integers, Sequences, FiniteSets, Functions

CONSTANTS
    Torrents,       \* info-hashes
    Threads,        \* threads that may call the add API
    Gui,            \* the GUI thread, one of Threads
    Full,           \* progress of a complete torrent
    SavesPerTick,   \* _RESUME_SAVES_PER_TICK
    MaxAdds,        \* bound: incarnations of one info-hash per launch
    MaxBacklog      \* bound: requests and alerts outstanding at a call

ASSUME ConstantsAssumption ==
    /\ IsFiniteSet(Torrents)
    /\ Gui \in Threads
    /\ Full \in Nat \ {0}
    /\ SavesPerTick \in Nat \ {0}
    /\ MaxAdds \in Nat
    /\ MaxBacklog \in Nat

\* The application, in memory.
VARIABLES
    gui,            \* what the GUI thread is in the middle of
    records,        \* _records: how the row of an info-hash was made
    handles,        \* _handles: incarnation bound to an info-hash, 0 if none
    pendingRestore, \* _pending_restore
    restoreConfirm, \* _pending_restore_confirmation
    saveQueue,      \* _resume_save_queue
    quota,          \* saves the current tick may still post
    savePending,    \* shutdown()'s `pending`
    calls           \* add_torrent() calls that have not returned

\* libtorrent, and the disk.
VARIABLES
    live,           \* incarnation in the session, 0 if none
    adds,           \* incarnations made since launch
    progress,       \* of the incarnation in the session
    dirty,          \* it changed since its last save_resume_data
    cmds,           \* requests the network thread has not serviced
    alerts,         \* the alert queue
    popped,         \* how many at its head pop_alerts() has returned
    disk            \* progress in the .fastresume, NoFile if there is none

\* What the properties observe.
VARIABLES
    removedByUser,  \* removal requested, not added again since
    failedRestore,  \* restore refused by libtorrent in this launch
    raced,          \* an add overlapped a removal, a restore or the shutdown
    finishLog,      \* what was done with torrent_finished alerts
    atTick,         \* progress when the last tick popped the alerts
    lastExit        \* how the previous process ended

app == <<gui, records, handles, pendingRestore, restoreConfirm, saveQueue,
         quota, savePending, calls>>
lib == <<live, adds, progress, dirty, cmds, alerts, popped>>
hist == <<removedByUser, failedRestore, raced, finishLog, atTick, lastExit>>
vars == <<app, lib, disk, hist>>

NoFile == -1

Cmd ==
    [op : {"restore"}, h : Torrents]
    \cup [op : {"add"}, h : Torrents, thread : Threads, strict : BOOLEAN]
    \cup [op : {"remove"}, h : Torrents, inc : Nat]
    \cup [op : {"save"}, h : Torrents, inc : Nat, lazy : BOOLEAN]

Alert ==
    [kind : {"added"}, h : Torrents, inc : Nat, ok : BOOLEAN]
    \cup [kind : {"finished"}, h : Torrents, inc : Nat,
          why : {"done", "reconfirm"}]
    \cup [kind : {"saved"}, h : Torrents, inc : Nat, p : 0..Full]
    \cup [kind : {"saveFailed", "removed"}, h : Torrents, inc : Nat]

Call == [thread : Threads, h : Torrents, stage : {"wait", "ok", "dup"},
         inc : Nat]

AppTypeOK ==
    /\ gui \in {"off", "idle", "tick", "bind", "saving"}
    /\ records \in [Torrents -> {"none", "restored", "added"}]
    /\ handles \in [Torrents -> Nat]
    /\ pendingRestore \subseteq Torrents
    /\ restoreConfirm \subseteq Torrents
    /\ saveQueue \in Seq(Torrents)
    /\ quota \in Nat /\ quota <= Len(saveQueue)
    /\ savePending \subseteq (Torrents \X Nat)
    /\ calls \subseteq Call

LibTypeOK ==
    /\ live \in [Torrents -> Nat]
    /\ adds \in [Torrents -> Nat]
    /\ progress \in [Torrents -> 0..Full]
    /\ dirty \in [Torrents -> BOOLEAN]

QueueTypeOK ==
    /\ cmds \in Seq(Cmd)
    /\ alerts \in Seq(Alert)
    /\ popped \in Nat /\ popped <= Len(alerts)

HistTypeOK ==
    /\ disk \in [Torrents -> NoFile..Full]
    /\ removedByUser \subseteq Torrents
    /\ failedRestore \subseteq Torrents
    /\ raced \subseteq Torrents
    /\ finishLog \subseteq ({"announced", "swallowed"}
                            \X {"done", "reconfirm"})
    /\ atTick \in [Torrents -> 0..Full]
    /\ lastExit \in {"none", "clean", "timeout", "raised", "crash"}

TypeOK == AppTypeOK /\ LibTypeOK /\ QueueTypeOK /\ HistTypeOK

-----------------------------------------------------------------------------
(* Helpers                                                                 *)

Orders(S) == Bijection(1..Cardinality(S), S)

\* handle.is_valid(), and the check inside alerts.py's _hash_of
IsValid(h, inc) == inc # 0 /\ live[h] = inc

InCall(t) == \E c \in calls : c.thread = t
Adding(h) == \E c \in calls : c.h = h
GuiIdle == gui = "idle" /\ ~InCall(Gui)

Forget(h) ==
    /\ records' = [records EXCEPT ![h] = "none"]
    /\ handles' = [handles EXCEPT ![h] = 0]
    /\ restoreConfirm' = restoreConfirm \ {h}
    /\ disk' = [disk EXCEPT ![h] = NoFile]

RemovalInFlight(h) ==
    \/ \E i \in DOMAIN cmds : cmds[i].op = "remove" /\ cmds[i].h = h
    \/ \E i \in DOMAIN alerts : alerts[i].kind = "removed" /\ alerts[i].h = h

\* The files an earlier run left are the only thing a launch starts from.
Init ==
    /\ gui = "off"
    /\ records = [h \in Torrents |-> "none"]
    /\ handles = [h \in Torrents |-> 0]
    /\ pendingRestore = {}
    /\ restoreConfirm = {}
    /\ saveQueue = <<>>
    /\ quota = 0
    /\ savePending = {}
    /\ calls = {}
    /\ live = [h \in Torrents |-> 0]
    /\ adds = [h \in Torrents |-> 0]
    /\ progress = [h \in Torrents |-> 0]
    /\ dirty = [h \in Torrents |-> FALSE]
    /\ cmds = <<>>
    /\ alerts = <<>>
    /\ popped = 0
    /\ failedRestore = {}
    /\ raced = {}
    /\ finishLog = {}
    /\ atTick = [h \in Torrents |-> 0]
    /\ disk \in [Torrents -> NoFile..Full]
    /\ removedByUser = {}
    /\ lastExit = "none"

-----------------------------------------------------------------------------
(* Launch: SessionManager.__init__ and _restore_previous_session           *)

\* The torrents libtorrent will report finished again once restored.
ConfirmExpected_Beyond(saved) == {h \in saved : disk[h] > Full}
ConfirmExpected(saved) == {h \in saved : disk[h] = Full}

Launch ==
    /\ gui = "off"
    /\ LET saved == {h \in Torrents : disk[h] # NoFile} IN
        /\ records' = [h \in Torrents |->
                           IF h \in saved THEN "restored" ELSE "none"]
        /\ pendingRestore' = saved
        /\ restoreConfirm' = ConfirmExpected(saved)
        /\ \E order \in Orders(saved) :
               cmds' = [i \in 1..Cardinality(saved) |->
                            [op |-> "restore", h |-> order[i]]]
    /\ gui' = "idle"
    /\ lastExit' = "none"
    /\ removedByUser' = {}
    /\ UNCHANGED <<handles, saveQueue, quota, savePending, calls, live, adds,
                   progress, dirty, alerts, popped, disk, failedRestore, raced,
                   finishLog, atTick>>

-----------------------------------------------------------------------------
(* The public operations                                                   *)

\* add_torrent_from_file (strict: duplicate_is_error) and
\* add_torrent_from_magnet: _add writes the record, then blocks in
\* session.add_torrent() until the network thread has serviced every earlier
\* request and this one.
AddBegin(t, h, strict) ==
    /\ IF t = Gui THEN GuiIdle
                  ELSE gui \notin {"off", "saving"} /\ ~InCall(t)
    /\ adds[h] + Cardinality({c \in calls : c.h = h}) < MaxAdds
    /\ Len(cmds) + Len(alerts) < MaxBacklog
    /\ records' = [records EXCEPT ![h] = "added"]
    /\ calls' = calls \cup {[thread |-> t, h |-> h, stage |-> "wait",
                             inc |-> 0]}
    /\ cmds' = Append(cmds, [op |-> "add", h |-> h, thread |-> t,
                             strict |-> strict])
    /\ removedByUser' = removedByUser \ {h}
    /\ raced' = IF RemovalInFlight(h) \/ (t # Gui /\ h \in pendingRestore)
                THEN raced \cup {h} ELSE raced
    /\ UNCHANGED <<gui, handles, pendingRestore, restoreConfirm, saveQueue,
                   quota, savePending, live, adds, progress, dirty, alerts,
                   popped, disk, failedRestore, finishLog, atTick, lastExit>>

\* session.add_torrent() returned a handle: _add binds it.
AddReturn(c) ==
    /\ c.stage = "ok"
    /\ handles' = [handles EXCEPT ![c.h] = c.inc]
    /\ calls' = calls \ {c}
    /\ UNCHANGED <<gui, records, pendingRestore, restoreConfirm, saveQueue,
                   quota, savePending, lib, disk, hist>>

\* session.add_torrent() raised: the record _add wrote stays.
AddRaise(c) ==
    /\ c.stage = "dup"
    /\ calls' = calls \ {c}
    /\ UNCHANGED <<gui, records, handles, pendingRestore, restoreConfirm,
                   saveQueue, quota, savePending, lib, disk, hist>>

\* remove_torrent: nothing without a handle, an exception on a dead one,
\* otherwise a request; all the bookkeeping waits for torrent_removed_alert.
Remove_Eager(h) ==
    /\ GuiIdle
    /\ IsValid(h, handles[h])
    /\ Len(cmds) + Len(alerts) < MaxBacklog
    /\ cmds' = Append(cmds, [op |-> "remove", h |-> h, inc |-> handles[h]])
    /\ removedByUser' = removedByUser \cup {h}
    /\ raced' = IF Adding(h) THEN raced \cup {h} ELSE raced
    /\ Forget(h)
    /\ UNCHANGED <<gui, pendingRestore, saveQueue, quota, savePending, calls,
                   live, adds, progress, dirty, alerts, popped, failedRestore,
                   finishLog, atTick, lastExit>>
Remove(h) ==
    /\ GuiIdle
    /\ IsValid(h, handles[h])
    /\ Len(cmds) + Len(alerts) < MaxBacklog
    /\ cmds' = Append(cmds, [op |-> "remove", h |-> h, inc |-> handles[h]])
    /\ removedByUser' = removedByUser \cup {h}
    /\ raced' = IF Adding(h) THEN raced \cup {h} ELSE raced
    /\ UNCHANGED <<app, live, adds, progress, dirty, alerts, popped, disk,
                   failedRestore, finishLog, atTick, lastExit>>

-----------------------------------------------------------------------------
(* libtorrent's network thread (external)                                  *)

LibUnchanged == UNCHANGED <<gui, records, handles, pendingRestore,
    restoreConfirm, saveQueue, quota, savePending, popped, disk,
    removedByUser, failedRestore, raced, finishLog, lastExit>>

NextCmd(op) == cmds # <<>> /\ Head(cmds).op = op /\ cmds' = Tail(cmds)

Enter(h, p) ==
    /\ live' = [live EXCEPT ![h] = adds[h] + 1]
    /\ adds' = [adds EXCEPT ![h] = @ + 1]
    /\ progress' = [progress EXCEPT ![h] = p]
    /\ atTick' = [atTick EXCEPT ![h] = 0]

Added(h, inc, ok) == [kind |-> "added", h |-> h, inc |-> inc, ok |-> ok]
Finished(h, inc, why) ==
    [kind |-> "finished", h |-> h, inc |-> inc, why |-> why]

\* The resume data holds: a complete torrent reports itself finished again.
NetRestoreOk ==
    /\ NextCmd("restore")
    /\ LET h == Head(cmds).h
           added == Append(alerts, Added(h, adds[h] + 1, TRUE)) IN
        /\ Enter(h, disk[h])
        /\ alerts' = IF disk[h] = Full
                     THEN Append(added,
                                 Finished(h, adds[h] + 1, "reconfirm"))
                     ELSE added
        /\ dirty' = [dirty EXCEPT ![h] = FALSE]
    /\ LibUnchanged /\ UNCHANGED calls

\* Its files are gone or differ: the torrent starts over.
NetRestoreRechecked ==
    /\ NextCmd("restore")
    /\ LET h == Head(cmds).h IN
        /\ disk[h] > 0
        /\ Enter(h, 0)
        /\ alerts' = Append(alerts, Added(h, adds[h] + 1, TRUE))
        /\ dirty' = [dirty EXCEPT ![h] = TRUE]
    /\ LibUnchanged /\ UNCHANGED calls

NetRestoreRefused ==
    /\ NextCmd("restore")
    /\ alerts' = Append(alerts, Added(Head(cmds).h, 0, FALSE))
    /\ LibUnchanged /\ UNCHANGED <<calls, live, adds, progress, dirty, atTick>>

Answer(thread, stage, inc) ==
    calls' = {IF c.thread = thread
              THEN [c EXCEPT !.stage = stage, !.inc = inc]
              ELSE c : c \in calls}

NetAddNew ==
    /\ NextCmd("add")
    /\ LET c == Head(cmds) IN
        /\ live[c.h] = 0
        /\ Enter(c.h, 0)
        /\ dirty' = [dirty EXCEPT ![c.h] = TRUE]
        /\ alerts' = Append(alerts, Added(c.h, adds[c.h] + 1, TRUE))
        /\ Answer(c.thread, "ok", adds[c.h] + 1)
    /\ LibUnchanged

NetAddDuplicate ==
    /\ NextCmd("add")
    /\ LET c == Head(cmds) IN
        /\ live[c.h] # 0
        /\ alerts' = Append(alerts,
                            Added(c.h, IF c.strict THEN 0 ELSE live[c.h],
                                  ~c.strict))
        /\ IF c.strict THEN Answer(c.thread, "dup", 0)
                       ELSE Answer(c.thread, "ok", live[c.h])
    /\ LibUnchanged /\ UNCHANGED <<live, adds, progress, dirty, atTick>>

NetRemove ==
    /\ NextCmd("remove")
    /\ LET c == Head(cmds) IN
        IF live[c.h] = c.inc
        THEN /\ live' = [live EXCEPT ![c.h] = 0]
             /\ progress' = [progress EXCEPT ![c.h] = 0]
             /\ dirty' = [dirty EXCEPT ![c.h] = FALSE]
             /\ alerts' = Append(alerts, [kind |-> "removed", h |-> c.h,
                                          inc |-> c.inc])
        ELSE UNCHANGED <<live, progress, dirty, alerts>>
    /\ LibUnchanged /\ UNCHANGED <<calls, adds, atTick>>

\* save_resume_data fails on a removed torrent, and under only_if_modified
\* (lazy) on an unchanged one.
NetSave ==
    /\ NextCmd("save")
    /\ LET c == Head(cmds) IN
        IF live[c.h] = c.inc /\ (c.lazy => dirty[c.h])
        THEN /\ alerts' = Append(alerts, [kind |-> "saved", h |-> c.h,
                                          inc |-> c.inc, p |-> progress[c.h]])
             /\ dirty' = [dirty EXCEPT ![c.h] = FALSE]
        ELSE /\ alerts' = Append(alerts, [kind |-> "saveFailed", h |-> c.h,
                                          inc |-> c.inc])
             /\ UNCHANGED dirty
    /\ LibUnchanged /\ UNCHANGED <<calls, live, adds, progress, atTick>>

Download(h) ==
    /\ live[h] # 0
    /\ progress[h] < Full
    /\ progress' = [progress EXCEPT ![h] = @ + 1]
    /\ dirty' = [dirty EXCEPT ![h] = TRUE]
    /\ alerts' = IF progress[h] + 1 = Full
                 THEN Append(alerts, Finished(h, live[h], "done")) ELSE alerts
    /\ LibUnchanged /\ UNCHANGED <<calls, live, adds, cmds, atTick>>

Net == \/ NetRestoreOk \/ NetRestoreRechecked \/ NetRestoreRefused
       \/ NetAddNew \/ NetAddDuplicate \/ NetRemove \/ NetSave

-----------------------------------------------------------------------------
(* The GUI thread: tick, restore poll, alert handlers, autosave            *)

\* How many saves one tick posts: the queue may be shorter.
DrainQuota_NoMin == SavesPerTick
DrainQuota_OffByOne ==
    IF Len(saveQueue) < SavesPerTick THEN Len(saveQueue) ELSE SavesPerTick - 1
DrainQuota ==
    IF Len(saveQueue) < SavesPerTick THEN Len(saveQueue) ELSE SavesPerTick

\* _on_tick pops every alert posted so far ...
Tick ==
    /\ GuiIdle
    /\ Len(cmds) < MaxBacklog
    /\ gui' = "tick"
    /\ popped' = Len(alerts)
    /\ quota' = DrainQuota
    /\ atTick' = progress
    /\ UNCHANGED <<records, handles, pendingRestore, restoreConfirm, saveQueue,
                   savePending, calls, live, adds, progress, dirty, cmds,
                   alerts, disk, removedByUser, failedRestore, raced, finishLog,
                   lastExit>>

\* ... and so does _bind_restored_handles while a restore is unanswered.
BindPoll ==
    /\ GuiIdle
    /\ pendingRestore # {}
    /\ alerts # <<>>
    /\ gui' = "bind"
    /\ popped' = Len(alerts)
    /\ UNCHANGED <<records, handles, pendingRestore, restoreConfirm, saveQueue,
                   quota, savePending, calls, live, adds, progress, dirty, cmds,
                   alerts, disk, hist>>

\* dispatch_all takes the popped alerts in order; one whose handler raises is
\* skipped, the rest of the batch is not.
NextAlert_AbortsBatch(kind) ==
    LET a == Head(alerts) IN
    /\ gui \in {"tick", "bind"}
    /\ popped > 0
    /\ a.kind = kind
    /\ IF kind \in {"saved", "finished"} /\ ~IsValid(a.h, a.inc)
       THEN /\ alerts' = SubSeq(alerts, popped + 1, Len(alerts))
            /\ popped' = 0
       ELSE /\ alerts' = Tail(alerts)
            /\ popped' = popped - 1
    /\ UNCHANGED <<gui, saveQueue, quota, savePending, calls, live, adds,
                   progress, dirty, cmds, removedByUser, raced, atTick,
                   lastExit>>
NextAlert(kind) ==
    /\ gui \in {"tick", "bind"}
    /\ popped > 0
    /\ Head(alerts).kind = kind
    /\ alerts' = Tail(alerts)
    /\ popped' = popped - 1
    /\ UNCHANGED <<gui, saveQueue, quota, savePending, calls, live, adds,
                   progress, dirty, cmds, removedByUser, raced, atTick,
                   lastExit>>

\* A restored torrent entered the session: bind it, whatever its row is now.
BindRestored_UnlessReadded(h, inc) ==
    /\ handles' = IF records[h] = "restored"
                  THEN [handles EXCEPT ![h] = inc] ELSE handles
    /\ UNCHANGED <<records, restoreConfirm, disk, failedRestore>>
BindRestored_Confirmed(h, inc) ==
    /\ handles' = [handles EXCEPT ![h] = inc]
    /\ restoreConfirm' = restoreConfirm \ {h}
    /\ UNCHANGED <<records, disk, failedRestore>>
BindRestored(h, inc) ==
    /\ handles' = [handles EXCEPT ![h] = inc]
    /\ UNCHANGED <<records, restoreConfirm, disk, failedRestore>>

\* libtorrent refused it: the row goes, unless the torrent was added again
\* by hand; the file stays for the next launch.
RefuseRestored_DropsAny(h) ==
    /\ restoreConfirm' = restoreConfirm \ {h}
    /\ records' = [records EXCEPT ![h] = "none"]
    /\ failedRestore' = failedRestore \cup {h}
    /\ UNCHANGED <<handles, disk>>
RefuseRestored_KeepsRow(h) ==
    /\ restoreConfirm' = restoreConfirm \ {h}
    /\ failedRestore' = failedRestore \cup {h}
    /\ UNCHANGED <<records, handles, disk>>
RefuseRestored_Deletes(h) ==
    /\ restoreConfirm' = restoreConfirm \ {h}
    /\ records' = [records EXCEPT ![h] = "none"]
    /\ disk' = [disk EXCEPT ![h] = NoFile]
    /\ UNCHANGED <<handles, failedRestore>>
RefuseRestored(h) ==
    /\ restoreConfirm' = restoreConfirm \ {h}
    /\ IF handles[h] # 0
       THEN UNCHANGED <<records, failedRestore>>
       ELSE /\ records' = [records EXCEPT ![h] = "none"]
            /\ failedRestore' = failedRestore \cup {h}
    /\ UNCHANGED <<handles, disk>>

\* _pending_restore after an add_torrent_alert.
StillPending_AfterError(a) ==
    IF a.ok THEN pendingRestore \ {a.h} ELSE pendingRestore
StillPending(a) == pendingRestore \ {a.h}

\* _on_torrent_added: only the answer to a restore counts.
OnTorrentAdded ==
    /\ NextAlert("added")
    /\ LET a == Head(alerts) IN
        /\ pendingRestore' = StillPending(a)
        /\ IF a.h \notin pendingRestore
           THEN UNCHANGED <<records, handles, restoreConfirm, disk,
                            failedRestore>>
           ELSE IF a.ok THEN BindRestored(a.h, a.inc)
                        ELSE RefuseRestored(a.h)
    /\ UNCHANGED finishLog

\* _on_torrent_finished: the first one of a torrent restored complete is
\* taken for libtorrent's reconfirmation and swallowed.
OnTorrentFinished ==
    /\ NextAlert("finished")
    /\ LET a == Head(alerts)
           outcome == IF a.h \in restoreConfirm THEN "swallowed"
                                                ELSE "announced" IN
        IF IsValid(a.h, a.inc)
        THEN /\ restoreConfirm' = restoreConfirm \ {a.h}
             /\ finishLog' = finishLog \cup {<<outcome, a.why>>}
        ELSE UNCHANGED <<restoreConfirm, finishLog>>
    /\ UNCHANGED <<records, handles, pendingRestore, disk, failedRestore>>

\* _on_save_resume_data; an alert of a torrent removed since is skipped.
OnSaveResumeData_Unchecked ==
    /\ NextAlert("saved")
    /\ disk' = [disk EXCEPT ![Head(alerts).h] = Head(alerts).p]
    /\ UNCHANGED <<records, handles, pendingRestore, restoreConfirm,
                   failedRestore, finishLog>>
OnSaveResumeData ==
    /\ NextAlert("saved")
    /\ LET a == Head(alerts) IN
        disk' = IF IsValid(a.h, a.inc) THEN [disk EXCEPT ![a.h] = a.p]
                                       ELSE disk
    /\ UNCHANGED <<records, handles, pendingRestore, restoreConfirm,
                   failedRestore, finishLog>>

OnSaveFailed ==
    /\ NextAlert("saveFailed")
    /\ UNCHANGED <<records, handles, pendingRestore, restoreConfirm, disk,
                   failedRestore, finishLog>>

\* _on_torrent_removed works by info-hash, whatever it now stands for.
OnTorrentRemoved ==
    /\ NextAlert("removed")
    /\ Forget(Head(alerts).h)
    /\ UNCHANGED <<pendingRestore, failedRestore, finishLog>>

OnAlert == \/ OnTorrentAdded \/ OnTorrentFinished \/ OnSaveResumeData
           \/ OnSaveFailed \/ OnTorrentRemoved

\* _drain_resume_save_queue: the handle is checked when it is taken off.
DrainOne ==
    /\ gui = "tick" /\ popped = 0 /\ quota > 0
    /\ quota' = quota - 1
    /\ saveQueue' = Tail(saveQueue)
    /\ LET h == Head(saveQueue) IN
        cmds' = IF IsValid(h, handles[h])
                THEN Append(cmds, [op |-> "save", h |-> h, inc |-> handles[h],
                                   lazy |-> TRUE])
                ELSE cmds
    /\ UNCHANGED <<gui, records, handles, pendingRestore, restoreConfirm,
                   savePending, calls, live, adds, progress, dirty, alerts,
                   popped, disk, hist>>

EndPass ==
    /\ gui \in {"tick", "bind"} /\ popped = 0 /\ quota = 0
    /\ gui' = "idle"
    /\ UNCHANGED <<records, handles, pendingRestore, restoreConfirm, saveQueue,
                   quota, savePending, calls, lib, disk, hist>>

\* _save_all_resume_data, every 120 s: queues what is not queued yet.
Autosave ==
    /\ GuiIdle
    /\ LET fresh == {h \in Torrents : handles[h] # 0} \ Range(saveQueue) IN
        /\ fresh # {}
        /\ \E order \in Orders(fresh) : saveQueue' = saveQueue \o order
    /\ UNCHANGED <<gui, records, handles, pendingRestore, restoreConfirm, quota,
                   savePending, calls, lib, disk, hist>>

-----------------------------------------------------------------------------
(* shutdown(), and the other ways a process ends                           *)

\* The torrents whose final save shutdown() asks for and waits for.
SavedAtExit_UnlessQueued ==
    {h \in Torrents : IsValid(h, handles[h])} \ Range(saveQueue)
SavedAtExit == {h \in Torrents : IsValid(h, handles[h])}

ShutdownBegin ==
    /\ GuiIdle
    /\ LET valid == SavedAtExit IN
        /\ \E order \in Orders(valid) :
               cmds' = cmds \o [i \in 1..Cardinality(valid) |->
                                   [op |-> "save", h |-> order[i],
                                    inc |-> handles[order[i]], lazy |-> FALSE]]
        /\ savePending' = {<<h, handles[h]>> : h \in valid}
    /\ gui' = "saving"
    /\ raced' = raced \cup {h \in Torrents : Adding(h)}
    /\ UNCHANGED <<records, handles, pendingRestore, restoreConfirm, saveQueue,
                   quota, calls, live, adds, progress, dirty, alerts, popped,
                   disk, removedByUser, failedRestore, finishLog, atTick,
                   lastExit>>

ShutdownPoll ==
    /\ gui = "saving" /\ popped = 0
    /\ savePending # {}
    /\ alerts # <<>>
    /\ popped' = Len(alerts)
    /\ UNCHANGED <<app, live, adds, progress, dirty, cmds, alerts, disk, hist>>

ShutdownUnchanged == UNCHANGED <<gui, records, handles, pendingRestore,
    restoreConfirm, saveQueue, quota, calls, live, adds, progress, dirty, cmds,
    hist>>

NextPopped(kinds) ==
    /\ gui = "saving" /\ popped > 0
    /\ Head(alerts).kind \in kinds
    /\ alerts' = Tail(alerts)
    /\ popped' = popped - 1

\* What an answer takes off `pending': its own torrent, not a count.
ClearedBy_Count(a) ==
    IF savePending = {} THEN {} ELSE {CHOOSE s \in savePending : TRUE}
ClearedBy(a) == {<<a.h, a.inc>>}

ShutdownSaved ==
    /\ NextPopped({"saved"})
    /\ LET a == Head(alerts) IN
        /\ IsValid(a.h, a.inc)
        /\ disk' = [disk EXCEPT ![a.h] = a.p]
        /\ savePending' = savePending \ ClearedBy(a)
    /\ ShutdownUnchanged

ShutdownSaveFailed ==
    /\ NextPopped({"saveFailed"})
    /\ savePending' = savePending \ ClearedBy(Head(alerts))
    /\ ShutdownUnchanged /\ UNCHANGED disk

\* Every other alert is popped and lost, torrent_removed_alert included.
ShutdownIgnored ==
    /\ NextPopped({"added", "finished", "removed"})
    /\ ShutdownUnchanged /\ UNCHANGED <<savePending, disk>>

\* The process is gone; only the disk is left.
End(how) ==
    /\ gui' = "off"
    /\ records' = [h \in Torrents |-> "none"]
    /\ handles' = [h \in Torrents |-> 0]
    /\ pendingRestore' = {}
    /\ restoreConfirm' = {}
    /\ saveQueue' = <<>>
    /\ quota' = 0
    /\ savePending' = {}
    /\ calls' = {}
    /\ live' = [h \in Torrents |-> 0]
    /\ adds' = [h \in Torrents |-> 0]
    /\ progress' = [h \in Torrents |-> 0]
    /\ dirty' = [h \in Torrents |-> FALSE]
    /\ cmds' = <<>>
    /\ alerts' = <<>>
    /\ popped' = 0
    /\ failedRestore' = {}
    /\ raced' = {}
    /\ finishLog' = {}
    /\ atTick' = [h \in Torrents |-> 0]
    /\ lastExit' = how
    /\ UNCHANGED <<disk, removedByUser>>

ShutdownDone ==
    /\ gui = "saving" /\ popped = 0 /\ savePending = {}
    /\ End("clean")

ShutdownTimeout ==
    /\ gui = "saving" /\ popped = 0 /\ savePending # {}
    /\ End("timeout")

\* _hash_of raises out of shutdown() on a torrent removed since.
ShutdownRaise ==
    /\ gui = "saving" /\ popped > 0
    /\ LET a == Head(alerts) IN a.kind = "saved" /\ ~IsValid(a.h, a.inc)
    /\ End("raised")

Crash == gui # "off" /\ End("crash")

-----------------------------------------------------------------------------
User == \/ Launch
        \/ \E t \in Threads, h \in Torrents, strict \in BOOLEAN :
               AddBegin(t, h, strict)
        \/ \E h \in Torrents : Remove(h)
        \/ ShutdownBegin
        \/ Crash

Returns == \E c \in calls : AddReturn(c) \/ AddRaise(c)

GuiLoop == Tick \/ BindPoll \/ OnAlert \/ DrainOne \/ EndPass

ShutdownLoop == \/ ShutdownPoll \/ ShutdownSaved \/ ShutdownSaveFailed
                \/ ShutdownIgnored \/ ShutdownDone \/ ShutdownTimeout
                \/ ShutdownRaise

Next == \/ User \/ Returns \/ Net \/ GuiLoop \/ Autosave \/ ShutdownLoop
        \/ \E h \in Torrents : Download(h)

Spec == Init /\ [][Next]_vars

\* Qt's event loop delivers every due timer, so the tick, the restore poll and
\* the handlers of a started pass go on; libtorrent's thread services its
\* requests.  Autosave competes with the tick for an idle loop, but a due
\* timer is never passed over for ever.  Users owe nothing, and shutdown()
\* always ends: its loop has a deadline.
Fairness ==
    /\ WF_vars(Net)
    /\ WF_vars(Returns)
    /\ WF_vars(Tick)
    /\ WF_vars(OnAlert \/ DrainOne \/ EndPass)
    /\ SF_vars(Autosave)
    /\ WF_vars(ShutdownLoop)

FairSpec == Spec /\ Fairness

-----------------------------------------------------------------------------
(* What the bookkeeping promises                                           *)
(*                                                                         *)
(* `raced' holds the info-hashes whose add overlapped their own removal,   *)
(* restore or the shutdown: the handlers go by info-hash alone, so for     *)
(* those the promises below do not hold (see the hazards in the README).   *)

Running == gui # "off"

\* A torrent the application can drive has a row: _handles never outlives
\* _records, whichever of add, restore and removal is answered first.
HandleHasRecord ==
    \A h \in Torrents \ raced : handles[h] # 0 => records[h] # "none"

\* No torrent runs out of reach: whatever is in the libtorrent session is
\* what _handles drives, once no add or restore of it is unanswered.
LiveIsKnown ==
    \A h \in Torrents \ raced :
        live[h] # 0 /\ ~Adding(h) /\ h \notin pendingRestore
            => handles[h] = live[h]

\* No row is a ghost: with no add or restore unanswered it has a handle, a
\* duplicate add that raised and a refused restore included.
RowIsLive ==
    \A h \in Torrents \ raced :
        records[h] # "none" /\ ~Adding(h) /\ h \notin pendingRestore
            => handles[h] # 0

\* _bind_restored_handles polls until _pending_restore is empty: a restore
\* still waited for has a request or an answer on its way.
PendingIsAnswerable ==
    gui # "saving" =>
        \A h \in pendingRestore :
            \/ \E i \in DOMAIN cmds : cmds[i].op = "restore" /\ cmds[i].h = h
            \/ \E i \in DOMAIN alerts :
                   alerts[i].kind = "added" /\ alerts[i].h = h

\* The reconfirmation libtorrent posts for a torrent restored complete is
\* never announced as a download that finished (_on_torrent_finished).
NoSpuriousFinish == <<"announced", "reconfirm">> \notin finishLog

\* A .fastresume file belongs to a row, or to a restore that libtorrent
\* refused and that keeps it for the next launch: no save answered late
\* brings back the file of a torrent that was removed.
FileHasRow ==
    Running =>
        \A h \in Torrents \ raced :
            disk[h] # NoFile => records[h] # "none" \/ h \in failedRestore

\* A file is only ever deleted for a torrent the user asked to remove; a
\* refused restore keeps it (_on_torrent_added).
OnlyRemovalDeletes ==
    [][\A h \in Torrents :
           disk[h] # NoFile /\ disk'[h] = NoFile
               => h \in removedByUser \cup raced]_vars

\* When shutdown() has nothing left to wait for, the files hold at least what
\* every driven torrent had at the last tick, although an answer to a
\* periodic save may have stood in for the final one.
CleanExitKeepsProgress ==
    gui = "saving" /\ popped = 0 /\ savePending = {} =>
        \A h \in Torrents \ raced :
            IsValid(h, handles[h]) => disk[h] >= atTick[h]

-----------------------------------------------------------------------------
(* The inductive invariant behind PendingIsAnswerable, NoSpuriousFinish and *)
(* OnlyRemovalDeletes                                                      *)

IsRestore(c) == c.op = "restore"
IsReconfirm(a) == a.kind = "finished" /\ a.why = "reconfirm"

\* Between two processes nothing of the session is left.
OffIsEmpty ==
    gui = "off" => /\ cmds = <<>> /\ alerts = <<>> /\ calls = {}
                   /\ \A h \in Torrents : live[h] = 0

\* A launch queues its restores, one per file, ahead of anything else.
RestoresFirst ==
    \A j \in DOMAIN cmds : IsRestore(cmds[j]) =>
        \A i \in 1..(j - 1) : IsRestore(cmds[i]) /\ cmds[i].h # cmds[j].h

\* Until libtorrent services the restore of a torrent, nothing else about it
\* happens: no alert, no change to its file or to what the launch expects.
UntouchedUntilRestored ==
    \A i \in DOMAIN cmds : IsRestore(cmds[i]) =>
        LET h == cmds[i].h IN
        /\ live[h] = 0
        /\ disk[h] # NoFile
        /\ disk[h] = Full => h \in restoreConfirm
        /\ \A k \in DOMAIN alerts : alerts[k].h # h

\* A reconfirmation is the first thing libtorrent says of a torrent after
\* its successful add.
ReconfirmFirst ==
    \A j \in DOMAIN alerts : IsReconfirm(alerts[j]) =>
        \A i \in 1..(j - 1) :
            alerts[i].h = alerts[j].h => alerts[i].kind = "added" /\ alerts[i].ok

ReconfirmExpected ==
    \A j \in DOMAIN alerts :
        IsReconfirm(alerts[j]) => alerts[j].h \in restoreConfirm

\* Only a removal the user asked for is requested or reported.
RemovalsMeant ==
    /\ \A i \in DOMAIN cmds :
           cmds[i].op = "remove" => cmds[i].h \in removedByUser \cup raced
    /\ \A k \in DOMAIN alerts :
           alerts[k].kind = "removed" => alerts[k].h \in removedByUser \cup raced

\* What a request, an answer or a handler may disturb, in one conjunction.
Bookkeeping ==
    /\ OffIsEmpty
    /\ RestoresFirst
    /\ UntouchedUntilRestored
    /\ ReconfirmFirst
    /\ ReconfirmExpected
    /\ RemovalsMeant
    /\ PendingIsAnswerable
    /\ NoSpuriousFinish

\* The inductive invariant: every queued restore, reconfirmation and removal is
\* still backed by the files and sets it was made from, so the handlers may
\* trust what they pop.  TLC checks it, SessionManagerProofs proves it.
IInv == TypeOK /\ Bookkeeping

-----------------------------------------------------------------------------
(* What must eventually happen                                             *)

Leaving == gui \in {"off", "saving"}

\* Every restored row is bound or dropped.
RestoreResolves ==
    \A h \in Torrents :
        h \in pendingRestore ~> h \notin pendingRestore \/ Leaving

\* A requested removal takes the row away and deletes the file.
RemovalCompletes ==
    \A h \in Torrents :
        h \in removedByUser /\ ~Leaving
            ~> \/ records[h] = "none" /\ disk[h] = NoFile
               \/ h \notin removedByUser
               \/ Leaving

\* A finished download reaches its .fastresume without waiting for a clean
\* exit, which is what the periodic save is for.
CompletionSaved ==
    \A h \in Torrents :
        live[h] # 0 /\ progress[h] = Full
            ~> disk[h] = Full \/ live[h] = 0 \/ h \in raced \/ Leaving

-----------------------------------------------------------------------------
(* What the repository says and the code does not do                       *)

\* "Not a new completion": only a reconfirmation is swallowed.
OnlyReconfirmationSwallowed == <<"swallowed", "done">> \notin finishLog

\* An alert of a torrent removed meanwhile is skipped: it does not stop
\* shutdown() from waiting for the final saves of the others.
StaleAlertIsSkipped ==
    [][lastExit' = "raised"
           => \A s \in savePending : ~IsValid(s[1], s[2])]_vars

\* "added again by hand meanwhile: that record is live, keep it": a refused
\* restore does not take the row of a torrent that was added again.
AddedAgainKeepsRow ==
    [][\A h \in Torrents :
           /\ h \in pendingRestore /\ h \notin pendingRestore'
           /\ records[h] = "added"
           /\ Running'
           => records'[h] = "added"]_vars
=============================================================================
