------------------------------ MODULE Policies ------------------------------
(***************************************************************************)
(* Who pauses and resumes a torrent: the page and the HTTP server, the     *)
(* CCCP theme, engine/battery_pause_service.py,                            *)
(* engine/disk_reconnect_service.py, engine/share_limits.py, file errors,  *)
(* and libtorrent's own queue.  All of them write one pair of flags of the *)
(* torrent, paused and auto_managed, and all but libtorrent decide on a    *)
(* TorrentRecord that lags behind it.                                      *)
(*                                                                         *)
(* The torrents share one save path, on a drive whose volume may go, come  *)
(* back, or be replaced.  A hash is added again only once its row is gone: *)
(* SessionManager has the races of a re-add.  A quit or a crash, with the  *)
(* launch that follows, is one step: what is left of each torrent is its   *)
(* resume file and its share limit, which are not written together.        *)
(***************************************************************************)
EXTENDS Naturals

CONSTANTS
    Torrents,   \* info-hashes
    Volumes,    \* serial numbers of volumes
    NoVolume    \* no volume answers: the drive is gone, or None is kept

ASSUME NoVolumeAssumption == NoVolume \notin Volumes

VARIABLES
    status,     \* of a torrent in libtorrent
    record,     \* TorrentRecord
    heldBy,     \* history: who gave the last pause or resume that got through
    manual,     \* history: paused by hand, and shown so, when unplugged
    theme       \* Settings.theme is the CCCP theme

VARIABLES
    onBattery,  \* psutil.sensors_battery() says unplugged
    pausedByUs  \* BatteryPauseService._paused_by_us

VARIABLES
    volume,     \* behind the save path
    lastKnown,  \* DiskReconnectService._last_known_serial of the save path
    expected,   \* the hashes of _pending
    serial      \* the serial _pending holds for each of them

VARIABLES
    limits,     \* ShareLimitService._limits: none, tracked or reached
    stored      \* what share_limits.json holds

VARIABLES
    restoring,  \* _pending_restore: a row whose add_torrent_alert is to come
    shelved,    \* no row, but a resume file that was refused or unreadable
    lost        \* history: left without a resume file by a quit or a crash

flags == <<status, heldBy, manual>>
engine == <<flags, record, theme>>
battery == <<onBattery, pausedByUs>>
disk == <<volume, lastKnown, expected, serial>>
files == <<stored, restoring, shelved, lost>>
vars == <<engine, battery, disk, limits, files>>

Status == [live : BOOLEAN, paused : BOOLEAN, auto : BOOLEAN, meta : BOOLEAN, done : BOOLEAN]
Absent == [live |-> FALSE, paused |-> TRUE, auto |-> FALSE, meta |-> FALSE, done |-> FALSE]

TorrentState == {"queued", "metadata", "awaiting", "downloading", "paused", "seeding"}
Record == {r \in [state : TorrentState, done : BOOLEAN, awaiting : BOOLEAN] :
               r.state = "seeding" => r.done}
NoRecord == [state |-> "none", done |-> FALSE, awaiting |-> FALSE]

ActiveDownloadStates == {"queued", "metadata", "downloading"}
Known(h) == record[h] # NoRecord

\* mutant: what runs and is complete is not told from what runs
StateOf_Seeds(s, awaiting) ==
    IF awaiting THEN "awaiting" ELSE IF ~s.meta THEN "metadata" ELSE IF s.paused THEN "paused" ELSE "seeding"

\* TorrentState.from_libtorrent_state: the order of the tests is the code's,
\* so a torrent without metadata never shows as paused
StateOf(s, awaiting) ==
    CASE awaiting -> "awaiting"
      [] ~awaiting /\ ~s.meta -> "metadata"
      [] ~awaiting /\ s.meta /\ s.paused -> "paused"
      [] ~awaiting /\ s.meta /\ ~s.paused /\ s.done -> "seeding"
      [] OTHER -> "downloading"

RecordOf(s, awaiting) ==
    [state |-> StateOf(s, awaiting), done |-> s.done, awaiting |-> awaiting]

Blocked(r) == theme /\ ~r.done

----------------------------------------------------------------------------
(* The calls of SessionManager that write the flags.  They act on a set of *)
(* torrents, one after the other; an invalid handle makes them do nothing. *)

\* mutant: the pause leaves the torrent auto-managed
Held_KeepsAuto(s) == [s EXCEPT !.paused = TRUE]
Held(s) == [s EXCEPT !.paused = TRUE, !.auto = FALSE]
Released(s) == [s EXCEPT !.paused = FALSE, !.auto = TRUE]

PauseAll(H, who) ==
    LET hit == {h \in H : status[h].live} IN
    /\ status' = [h \in Torrents |-> IF h \in hit THEN Held(status[h]) ELSE status[h]]
    /\ heldBy' = [h \in Torrents |-> IF h \in hit THEN who ELSE heldBy[h]]
    /\ UNCHANGED manual

\* mutant: the resume does not look at the theme
Resumable_AnyTheme(h) == status[h].live
Resumable(h) == status[h].live /\ ~Blocked(record[h])

ResumeAll(H) ==
    LET hit == {h \in H : Resumable(h)} IN
    /\ status' = [h \in Torrents |-> IF h \in hit THEN Released(status[h]) ELSE status[h]]
    /\ heldBy' = [h \in Torrents |-> IF h \in hit THEN "none" ELSE heldBy[h]]
    /\ manual' = manual \ hit

----------------------------------------------------------------------------
Init ==
    /\ status = [h \in Torrents |-> Absent]
    /\ record = [h \in Torrents |-> NoRecord]
    /\ heldBy = [h \in Torrents |-> "none"] /\ manual = {}
    /\ theme \in BOOLEAN
    /\ onBattery = FALSE /\ pausedByUs = {}
    /\ volume \in Volumes /\ lastKnown = NoVolume
    /\ expected = {} /\ serial = [h \in Torrents |-> NoVolume]
    /\ limits = [h \in Torrents |-> "none"] /\ stored = limits
    /\ restoring = {} /\ shelved = {} /\ lost = {}

FreshRow(awaiting) == [state |-> "queued", done |-> FALSE, awaiting |-> awaiting]

NewRow(h, awaiting) ==
    /\ record' = [record EXCEPT ![h] = FreshRow(awaiting)]
    /\ shelved' = shelved \ {h} /\ lost' = lost \ {h}
    /\ UNCHANGED <<stored, restoring>>

\* startShare tracks the torrent it adds
Shared(h, share) == limits' = IF share THEN [limits EXCEPT ![h] = "tracked"] ELSE limits

(* add_torrent_from_file: held from the start under CCCP, otherwise        *)
(* libtorrent's defaults, running and auto-managed.                        *)
AddFile(h, share) ==
    LET s == [live |-> TRUE, paused |-> FALSE, auto |-> TRUE, meta |-> TRUE, done |-> FALSE] IN
    /\ ~Known(h)
    /\ status' = [status EXCEPT ![h] = IF theme THEN Held(s) ELSE s]
    /\ heldBy' = [heldBy EXCEPT ![h] = IF theme THEN "theme" ELSE "none"]
    /\ manual' = manual \ {h}
    /\ NewRow(h, FALSE) /\ Shared(h, share)
    /\ UNCHANGED <<theme, battery, disk>>

(* add_torrent_from_magnet: held until start_after_analysis, which the     *)
(* share page and the HTTP server call at once.                            *)
AddMagnet(h, start, share) ==
    LET s == [Absent EXCEPT !.live = TRUE] IN
    /\ ~Known(h)
    /\ share => start
    /\ LET started == start /\ ~theme IN
       /\ status' = [status EXCEPT ![h] = IF started THEN Released(s) ELSE s]
       /\ heldBy' = [heldBy EXCEPT ![h] = IF started THEN "none" ELSE "analysis"]
       /\ NewRow(h, ~started)
    /\ Shared(h, share)
    /\ manual' = manual \ {h}
    /\ UNCHANGED <<theme, battery, disk>>

(* The page, or the RSS service, once the file list is known.              *)
StartAfterAnalysis(h) ==
    /\ status[h].live /\ record[h].awaiting /\ ~Blocked(record[h])
    /\ record' = [record EXCEPT ![h].awaiting = FALSE]
    /\ ResumeAll({h})
    /\ UNCHANGED <<theme, battery, disk, limits, files>>

Pause(h) ==
    /\ status[h].live
    /\ PauseAll({h}, "hand")
    /\ UNCHANGED <<record, theme, battery, disk, limits, files>>

Resume(h) ==
    /\ Resumable(h)
    /\ ResumeAll({h})
    /\ UNCHANGED <<record, theme, battery, disk, limits, files>>

(* remove_torrent; the record stays until torrent_removed is dispatched.   *)
Remove(h) ==
    /\ status[h].live
    /\ status' = [status EXCEPT ![h] = Absent]
    /\ UNCHANGED <<record, heldBy, manual, theme, battery, disk, limits, files>>

----------------------------------------------------------------------------
(* libtorrent                                                              *)

Metadata(h) ==
    /\ status[h].live /\ ~status[h].meta
    /\ status' = [status EXCEPT ![h].meta = TRUE]
    /\ UNCHANGED <<record, heldBy, manual, theme, battery, disk, limits, files>>

Complete(h) ==
    /\ status[h].live /\ status[h].meta /\ ~status[h].paused /\ ~status[h].done
    /\ status' = [status EXCEPT ![h].done = TRUE]
    /\ UNCHANGED <<record, heldBy, manual, theme, battery, disk, limits, files>>

(* A check of the files, started from the page or by the scheduled         *)
(* recheck, finds some damaged.                                            *)
Damage(h) ==
    /\ status[h].live /\ status[h].done
    /\ status' = [status EXCEPT ![h].done = FALSE]
    /\ UNCHANGED <<record, heldBy, manual, theme, battery, disk, limits, files>>

(* The queue stops or starts an auto-managed torrent as it likes.          *)
QueueTurn(h) ==
    /\ status[h].live /\ status[h].auto
    /\ status' = [status EXCEPT ![h].paused = ~@]
    /\ UNCHANGED <<record, heldBy, manual, theme, battery, disk, limits, files>>

----------------------------------------------------------------------------
(* The GUI thread's tick                                                   *)

\* mutant: the latch of a reached limit is not tested
StatusUpdate_NoLatch(h, policy, due) ==
    /\ Known(h) /\ status[h].live
    /\ record' = [record EXCEPT ![h] = RecordOf(status[h], @.awaiting)]
    /\ due => limits[h] # "none"
    /\ ~policy
    /\ limits' = [limits EXCEPT ![h] = IF due THEN "reached" ELSE @]
    /\ PauseAll(IF due THEN {h} ELSE {}, "limit")
    /\ UNCHANGED <<theme, battery, disk, files>>

(* state_update_alert: the record follows, then ShareLimitService looks at *)
(* it.  `policy': the default policy is on.  `due': the time, data or      *)
(* ratio limit is met.                                                     *)
StatusUpdate(h, policy, due) ==
    /\ Known(h) /\ status[h].live
    /\ record' = [record EXCEPT ![h] = RecordOf(status[h], @.awaiting)]
    /\ LET tracked == limits[h] = "tracked" \/ (policy /\ limits[h] = "none")
       IN  /\ policy => record'[h].state = "seeding"
           /\ due => tracked
           /\ limits' = [limits EXCEPT ![h] = IF due THEN "reached"
                                              ELSE IF tracked THEN "tracked" ELSE @]
    /\ PauseAll(IF due THEN {h} ELSE {}, "limit")
    /\ UNCHANGED <<theme, battery, disk, files>>

(* file_error_alert: the torrent is held, then DiskReconnectService notes  *)
(* the volume it expects back, asking the drive if it was never seen.      *)
FileError(h) ==
    /\ status[h].live /\ Known(h)
    /\ PauseAll({h}, "error")
    /\ expected' = expected \cup {h}
    /\ serial' = [serial EXCEPT ![h] = IF lastKnown # NoVolume THEN lastKnown ELSE volume]
    /\ UNCHANGED <<record, theme, battery, volume, lastKnown, limits, files>>

\* mutant: the disk service does not listen
TorrentRemoved_KeepsPending(h) ==
    /\ Known(h) /\ ~status[h].live /\ h \notin restoring
    /\ record' = [record EXCEPT ![h] = NoRecord]
    /\ limits' = [limits EXCEPT ![h] = "none"]
    /\ UNCHANGED <<flags, theme, battery, disk, files>>

(* torrent_removed_alert: the row goes, and every service that listens     *)
(* forgets the hash; the battery service does not listen.                  *)
TorrentRemoved(h) ==
    /\ Known(h) /\ ~status[h].live /\ h \notin restoring
    /\ record' = [record EXCEPT ![h] = NoRecord]
    /\ expected' = expected \ {h}
    /\ serial' = [serial EXCEPT ![h] = NoVolume]
    /\ limits' = [limits EXCEPT ![h] = "none"]
    /\ UNCHANGED <<flags, theme, battery, volume, lastKnown, files>>

----------------------------------------------------------------------------
(* Timers of the services, and what they watch                             *)

\* mutant: each check replaces what the last one remembered
BatteryPause_Forgets ==
    LET active == {h \in Torrents : Known(h) /\ record[h].state \in ActiveDownloadStates} IN
    /\ onBattery
    /\ PauseAll(active, "battery")
    /\ pausedByUs' = active
    /\ UNCHANGED <<record, theme, onBattery, disk, limits, files>>

BatteryPause ==
    LET active == {h \in Torrents : Known(h) /\ record[h].state \in ActiveDownloadStates} IN
    /\ onBattery
    /\ PauseAll(active, "battery")
    /\ pausedByUs' = pausedByUs \cup active
    /\ UNCHANGED <<record, theme, onBattery, disk, limits, files>>

BatteryResume ==
    /\ ~onBattery
    /\ ResumeAll(pausedByUs)
    /\ pausedByUs' = {}
    /\ UNCHANGED <<record, theme, onBattery, disk, limits, files>>

\* mutant: the expected serial is compared with the last one seen
Back_LastSeen(h) == serial[h] # NoVolume /\ serial[h] = lastKnown

Back(h) == serial[h] # NoVolume /\ serial[h] = volume

DiskCheck ==
    /\ lastKnown' = IF expected = {} /\ volume # NoVolume /\ \E h \in Torrents : Known(h)
                    THEN volume ELSE lastKnown
    /\ LET back == {h \in expected : Back(h)} IN
       /\ ResumeAll(back)
       /\ expected' = expected \ back
       /\ serial' = [h \in Torrents |-> IF h \in back THEN NoVolume ELSE serial[h]]
    /\ UNCHANGED <<record, theme, battery, volume, limits, files>>

(* setTheme, which ends in enforce_theme_download_policy.                  *)
SetTheme(cccp) ==
    LET swept == {h \in Torrents : /\ Known(h)
                                   /\ ~record[h].awaiting /\ ~record[h].done
                                   /\ record[h].state # "paused"}
    IN  /\ cccp # theme
        /\ theme' = cccp
        /\ PauseAll(IF cccp THEN swept ELSE {}, "theme")
        /\ UNCHANGED <<record, battery, disk, limits, files>>

ByHand(h) == heldBy[h] = "hand" /\ record[h] = RecordOf(status[h], record[h].awaiting)

Power ==
    /\ onBattery' = ~onBattery
    /\ manual' = IF onBattery THEN manual ELSE {h \in Torrents : status[h].live /\ ByHand(h)}
    /\ UNCHANGED <<status, record, heldBy, theme, pausedByUs, disk, limits, files>>

Swap(v) ==
    /\ v # volume
    /\ volume' = v
    /\ UNCHANGED <<engine, battery, lastKnown, expected, serial, limits, files>>

----------------------------------------------------------------------------
(* Quit or crash, and the next launch                                      *)

(* ShareLimitService._save, half a second after the last change.           *)
WriteLimits ==
    /\ stored # limits
    /\ stored' = limits
    /\ UNCHANGED <<engine, battery, disk, limits, restoring, shelved, lost>>

\* the flags a resume file may hold
Saved == {s \in Status : ~s.live /\ (s.paused \/ s.auto) /\ (s.done => s.meta)}

\* what the file of h is known to hold when the process ends
Certain(h, crashed) == h \in shelved \cup restoring \/ (~crashed /\ status[h].live)

(* The process ends and _restore_previous_session reads `saved', the       *)
(* resume files left.  A quit saves every torrent, and the limits; a crash *)
(* leaves the files as old as they were.  A removal not reported yet has   *)
(* not deleted its file.  A file that cannot be read never has a row: what *)
(* RestoreRefused leaves.                                                  *)
Launch(crashed, saved) ==
    /\ \A h \in Torrents : Certain(h, crashed) =>
           h \in DOMAIN saved /\ saved[h] = [status[h] EXCEPT !.live = FALSE]
    /\ status' = [h \in Torrents |-> IF h \in DOMAIN saved THEN saved[h] ELSE Absent]
    /\ record' = [h \in Torrents |-> IF h \in DOMAIN saved THEN FreshRow(FALSE) ELSE NoRecord]
    /\ heldBy' = [h \in Torrents |->
           IF h \in DOMAIN saved /\ saved[h].paused /\ ~saved[h].auto THEN "restart" ELSE "none"]
    /\ restoring' = DOMAIN saved /\ shelved' = {}
    /\ lost' = lost \cup ((IF crashed THEN Torrents ELSE {h \in Torrents : Known(h)}) \ DOMAIN saved)
    /\ limits' = IF crashed THEN stored ELSE limits
    /\ stored' = limits'
    /\ manual' = {} /\ pausedByUs' = {} /\ expected' = {}
    /\ lastKnown' = NoVolume /\ serial' = [h \in Torrents |-> NoVolume]
    /\ UNCHANGED <<theme, onBattery, volume>>

(* add_torrent_alert of a restored torrent: it has its handle,             *)
Restored(h) ==
    /\ h \in restoring
    /\ restoring' = restoring \ {h}
    /\ status' = [status EXCEPT ![h].live = TRUE]
    /\ UNCHANGED <<record, heldBy, manual, theme, battery, disk, limits, stored, shelved, lost>>

(* or an error: only the row goes, "not torrent_removed".                  *)
RestoreRefused(h) ==
    /\ h \in restoring
    /\ restoring' = restoring \ {h} /\ shelved' = shelved \cup {h}
    /\ record' = [record EXCEPT ![h] = NoRecord]
    /\ UNCHANGED <<flags, theme, battery, disk, limits, stored, lost>>

----------------------------------------------------------------------------
Torrent(h) ==
    \/ \E share \in BOOLEAN : AddFile(h, share)
    \/ \E start, share \in BOOLEAN : AddMagnet(h, start, share)
    \/ StartAfterAnalysis(h)
    \/ Pause(h) \/ Resume(h) \/ Remove(h)
    \/ Metadata(h) \/ Complete(h) \/ Damage(h) \/ QueueTurn(h)
    \/ \E policy, due \in BOOLEAN : StatusUpdate(h, policy, due)
    \/ FileError(h) \/ TorrentRemoved(h)
    \/ Restored(h) \/ RestoreRefused(h)

Next ==
    \/ \E h \in Torrents : Torrent(h)
    \/ BatteryPause \/ BatteryResume \/ DiskCheck
    \/ \E cccp \in BOOLEAN : SetTheme(cccp)
    \/ Power
    \/ \E v \in Volumes \cup {NoVolume} : Swap(v)
    \/ WriteLimits
    \/ \E crashed \in BOOLEAN : \E kept \in SUBSET (shelved \cup {h \in Torrents : Known(h)}) :
           \E saved \in [kept -> Saved] : Launch(crashed, saved)

(* The services' 30 s timers go on firing, with their options left on.     *)
Fairness == WF_vars(BatteryResume) /\ WF_vars(DiskCheck)

Spec == Init /\ [][Next]_vars /\ Fairness

----------------------------------------------------------------------------
TypeOK ==
    /\ status \in [Torrents -> Status]
    /\ record \in [Torrents -> Record \cup {NoRecord}]
    /\ heldBy \in [Torrents -> {"none", "hand", "analysis", "theme", "battery", "limit", "error", "restart"}]
    /\ theme \in BOOLEAN /\ onBattery \in BOOLEAN
    /\ pausedByUs \subseteq Torrents /\ manual \subseteq Torrents
    /\ volume \in Volumes \cup {NoVolume} /\ lastKnown \in Volumes \cup {NoVolume}
    /\ expected \subseteq Torrents
    /\ serial \in [Torrents -> Volumes \cup {NoVolume}]
    /\ limits \in [Torrents -> {"none", "tracked", "reached"}]
    /\ stored \in [Torrents -> {"none", "tracked", "reached"}]
    /\ restoring \subseteq Torrents /\ shelved \subseteq Torrents /\ lost \subseteq Torrents

(* A pause sticks: whoever gave it (a hand, the theme, the battery, a      *)
(* limit, a file error, the wait for analysis, the resume file a launch    *)
(* read), libtorrent's queue cannot start the torrent again until someone  *)
(* here resumes it.                                                        *)
PauseSticks ==
    \A h \in Torrents : status[h].live /\ heldBy[h] # "none" => status[h].paused

(* While the CCCP theme is on, no resume, by hand, by the battery or the   *)
(* disk service, by the end of an analysis, by an add or by the restore of *)
(* a torrent saved as held, puts a torrent whose record is incomplete back *)
(* in libtorrent's hands.  (One saved as queued, before the theme was set  *)
(* or by a crash, starts again: no launch enforces the theme.)             *)
NothingStartsUnderCCCP ==
    [][\A h \in Torrents :
        theme /\ theme' /\ ~record[h].done /\ ~status[h].auto
            => ~(status'[h].live /\ status'[h].auto)]_vars

(* What the disk service would resume is a torrent that still has its row. *)
(* What a share limit would pause has its row, or has kept its resume file *)
(* after a launch that could not restore it ("its .fastresume, tags and    *)
(* share limit stay for next launch"), or never had or lost that file when *)
(* the process ended.  So no limit outlives a removal that was reported.   *)
ForgottenWithRow ==
    \A h \in Torrents :
        /\ h \in expected => Known(h)
        /\ limits[h] # "none" => Known(h) \/ h \in shelved \/ h \in lost

(* A limit pauses its torrent once: whoever resumes it after that is not   *)
(* overruled by the same limit.                                            *)
LimitPausesOnce ==
    [][\A h \in Torrents :
        limits[h] = "reached" /\ heldBy[h] # "limit" => heldBy'[h] # "limit"]_vars

(* Back on the mains for good, and never under CCCP, no torrent stays held *)
(* by the battery service.                                                 *)
PowerResumes ==
    []~theme /\ <>[]~onBattery =>
        <>[](\A h \in Torrents : status[h].live => heldBy[h] # "battery")

(* A torrent held by a file error does not wait for ever for a volume that *)
(* is back for good.                                                       *)
ReconnectResumes ==
    \A v \in Volumes : <>[](volume = v) =>
        []<>(\A h \in expected : serial[h] # v)

(* "Never one the user had already paused manually before the machine was  *)
(* even unplugged": what the battery service resumes was not held by hand, *)
(* with a record that had caught up, when the power went.                  *)
BatteryNeverResumesManualPause ==
    [][\A h \in manual :
        BatteryResume /\ heldBy[h] = "battery" => heldBy'[h] # "none"]_vars
=============================================================================
