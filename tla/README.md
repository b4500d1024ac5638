# Torrent 2000: a TLA+ model of the engine

Torrent 2000 is a Windows desktop client for BitTorrent: PySide6 for the user
interface, libtorrent for the protocol. What is easy to get wrong in it is not
the protocol, which libtorrent owns, but the bookkeeping around it. Requests to
libtorrent are serviced by its own network thread; its answers come back as
*alerts* that the GUI thread pops on timers; other threads (the remote-control
HTTP server, the thread pool) work on the same objects; and the process can be
quit or killed between any two of those steps.

These modules model that bookkeeping from the source. Paths below are relative
to the repository's `src/torrent2000/`.

## 1. Inventory

### How the parts work together

```
 page (web UI) ──slots──▶ ui/web bridges ──calls──▶ services ◀─signals─ SessionManager
 phone ──HTTP threads──▶ remote_server ──calls──────────────▶ SessionManager
                                              requests │ ▲ alerts, in order
                                                       ▼ │
                                              libtorrent's network thread
 thread pool (unzip, creation, fetches) ──queued signals──▶ GUI thread
 disk: .fastresume files, JSON stores, SQLite
```

Everything except the HTTP handlers, the pool's runnables and libtorrent runs
on the GUI thread. The event loop runs one handler to its end, so the atomic
steps are: one handler, with the exception of `add_torrent()`, which blocks its
thread, and of `processEvents()` inside `shutdown()`, which lets other handlers
in.

### Components

| Component | State | Operations | Interacts with | Hard behaviour | What makes it correct |
|---|---|---|---|---|---|
| `engine/session_manager.py` | `_records`, `_handles`, `_pending_restore`, `_pending_restore_confirmation`, `_resume_save_queue` | restore, add, remove, pause/resume, tick, autosave, alert handlers, shutdown | libtorrent, resume files, every service through signals | answers out of step with calls; concurrent adds; crash between request and answer | rows, handles, files and the libtorrent session agree; nothing is lost at a clean exit |
| `engine/alerts.py` | none | `dispatch_all`, `_hash_of` | the handlers above | one bad alert in a batch | every other alert of the batch is delivered |
| `engine/persistence.py` | `.fastresume` files | save, load, delete | session manager | a late save re-creates a file | a file belongs to a row or to a refused restore |
| `engine/auto_shutdown_service.py` | `_pending_action`, `_countdown_timer`, `_deferred_by_busy_source`, `_stopped` | start, defer, retry, cancel, elapse, stop | records, busy sources, OS | stale records; jobs that end during the quit | one timer, none at quit, no deferred countdown forgotten |
| `engine/post_complete_action_service.py` | `_pending_extractions` | on finish, extraction end | pool, session manager | ends delivered late | the count covers every running job |
| `ui/web/bridge_create_torrent.py` | `_busy` | create, finished | pool | one job at a time | busy while a job runs |
| `engine/remote_server.py` | server, token | add, pause, resume from HTTP threads | session manager | calls from other threads | same promises as a GUI add |
| `engine/battery_pause_service.py`, `disk_reconnect_service.py`, theme policy | `_paused_by_us`; `_pending`, `_last_known_serial`; theme | pause or resume on an event | session manager | several policies over one paused flag, decided on stale records | no policy undoes what it did not do |
| `engine/rss_feed_service.py`, `rss_seen_store.py`, `watch_folder_service.py` | seen items, `_pending_magnet_scans`; files in a folder | fetch, add, mark, move | pool, session manager, SQLite | crash between add and mark; failed downloads | each item once, each file filed where its outcome tells |
| `engine/routing_rules.py` | ordered rules | add, remove, reorder, match | pages, RSS, watch folder | reorder from a stale page | first match wins, no rule lost |
| `engine/bandwidth_scheduler.py`, `idle_activity_service.py`, `network_profile_switcher.py`, `settings_profiles.py` | current window, turtle mode, last SSID, profiles | evaluate, toggle, apply profile | libtorrent's rate settings, netsh | several writers of one setting; late answers; wrapping tick count | the rate in force is the one the settings call for |
| `engine/memory_pressure_governor.py` | `_throttling` | poll | session, RSS, history | options and services that change under pressure | what is held back is given back |
| `engine/share_limits.py` | limits, debounce timer | track, reach, flush | session manager, JSON | crash before the debounced save | a limit fires once and is in the file |
| `stats/` | counters, totals, history | update, flush, removal | session manager, SQLite | restarted counters, lost commits | no byte counted twice |
| `engine/peer_reputation.py`, `lan_peer_cache.py` | folded bytes, last-seen days | observe, record, flush | peer view, JSON | throttled and failed writes | no byte twice, files follow |
| `engine/tag_service.py`, `torrent_categories.py` | one map each | set, remove, drop orphans | resume directory, JSON | a crash between three writes of one removal | a torrent keeps its tags as long as it is kept |
| `engine/ip_blocklist.py` | worker, cancel flag | load | session pause | the load ends during the quit | nothing runs unfiltered, the pause ends |
| `config/settings.py`, `settings_history.py` | settings, file, log | load, save, import, restore | every service | crash between file and log; corrupt file | the last write can be undone |
| `engine/remote_server.py` options | token, server | start, stop, renew | settings file | requests in flight at stop | never open without a token |
| `engine/update_checker.py`, `url_fetch.py` | temp files, offers | check, download, launch | pool, network | overlapping downloads, quit | only verified installers run |
| thread-pool jobs | cancel events | submit, end, cancel | quit | jobs that start or run at quit | the quit ends |
| `engine/single_instance.py`, `ui/web/spike_window.py`, `bridge_add.py`, `bridge_downloads.py` | pending source, `_live`, choice on the page | open, show, hide, resize, analyse, start | page, other launches | page not loaded, hidden, answering late | the page shows what is; each argument opens once |
| `engine/scheduled_recheck_service.py`, `known_disk_service.py`, `disk_space_monitor.py`, `decision_journal.py` | clocks, episodes | poll | session, disks | poll after a change and its reverse | recheck spaced, told once |
| others | see `PROJECT.json` | | | | |

`PROJECT.json` lists every component with its status, and under `hazards` every
point of this code that is hard to test, at its line, with the properties that
cover it or the reason none does.

## 2. Modules

| Module | Contents |
|---|---|
| `SessionManager` | session bookkeeping, alert dispatch, resume files, and libtorrent's thread as far as they see it |
| `SessionManagerProofs` | every action keeps the types; the inductive invariant and the theorems that follow from it |
| `SessionInvariants` | what makes the promises of `SessionManager` inductive: `Inductive` |
| `SessionRefinementProofs` | incarnations, calls, and the refinement of `ResumeStore` |
| `SessionRowProofs` | rows, handles, files and the torrents of libtorrent agree |
| `SessionSaveProofs` | saves and the clean exit; `Inductive` is an invariant |
| `MCSessionManager` | symmetry for TLC |
| `AutoShutdown` | the countdown, the records it reads, the jobs it waits for, the quit |
| `AutoShutdownProofs` | its inductive invariant and theorems |
| `MCAutoShutdown` | symmetry for TLC |
| `ResumeStore` | the abstract promise of the resume directory |
| `SessionRefinement` | `SessionManager` implements `ResumeStore` |
| `Policies`, `MCPolicies` | battery, disk, theme, share limits, user and queue over the paused flag of one torrent, through quits, crashes, launches and refused restores |
| `PoliciesProofs` | its inductive invariant and the theorems that follow |
| `Storage` | where the files of a torrent are, and whether they are read-only |
| `Deadlines` | the download queue, the deadline sweep, the pieces of a player |
| `Limits`, `NetworkProfiles`, `Governor` | the rate in force; the profile of a network; memory pressure |
| `ShareLimits`, `PeerStores`, `Statistics`, `Labels` | what is remembered of torrents and peers, and its files |
| `IpBlocklist`, `RemoteAccess`, `Updates` | the blocklist load; the token and the server; the installer |
| `RssFeed`, `WatchFolder`, `RoutingRules`, `AddPage`, `Launch` | what brings torrents in |
| `SettingsStore` | the settings, their file, their log and the import |
| `Journal`, `Rechecks` | what the user is told once; the recheck clock |
| `Window`, `BackgroundTasks` | rows and resize overlay of the page; pool jobs and the quit |
| `DangerScanner` | the points, score and exclusion of a file |
| `Services` | the modules from `Storage` on, one at a time, with their common promises |
| `AlgorithmProofs` | what the algorithms compute: rules, queue order, levels, scores, pieces; invariants of `RoutingRules`, `Deadlines` and `BackgroundTasks` |
| `ServicesProofs` | an inductive invariant for each other service, and the theorems about all of them |

### SessionManager

*State.* `records`, `handles`, `pendingRestore`, `restoreConfirm`, `saveQueue`
and `savePending` are the fields of the same purpose in `SessionManager`
(`savePending` is the local `pending` of `shutdown()`); `disk` is the resume
directory. A torrent that enters libtorrent's session is an *incarnation* of
its info-hash; a handle is an incarnation number and is valid while it is the
one in the session (`live`). A record is only how its row was made: `restored`
or `added`. Progress is a number up to `Full`, and a file holds the progress it
was saved with.

*libtorrent.* `cmds` are the requests the network thread has not serviced, in
order; `alerts` is its queue. A request has the outcomes the code tells apart:
a restore is accepted, accepted with its files gone, or refused; an add is new
or a duplicate (an error for a `.torrent` file, which sets
`duplicate_is_error`, the same handle for a magnet); a save is answered or
fails.

*Threads.* `gui` says what the GUI thread is in the middle of: a tick, a
restore poll, `shutdown()`, or nothing. A pass pops what the queue holds
(`popped`), then handles one alert per step, so that libtorrent and HTTP
threads interleave between handlers. `session.add_torrent()` blocks its caller:
an add is `AddBegin` (the record is written, the request posted), the answer of
the network thread, then `AddReturn` or `AddRaise`.

| Action | Code |
|---|---|
| `Launch` | `__init__`, `_restore_previous_session`, `load_all_resume_params` |
| `AddBegin`, `AddReturn`, `AddRaise` | `add_torrent_from_file`, `add_torrent_from_magnet`, `_add` |
| `Remove` | `remove_torrent` |
| `Tick`, `BindPoll`, `EndPass` | `_on_tick`, `_bind_restored_handles` |
| `OnTorrentAdded`, `OnTorrentFinished`, `OnSaveResumeData`, `OnSaveFailed`, `OnTorrentRemoved` | `dispatch` and the handler of that alert |
| `DrainOne`, `Autosave` | `_drain_resume_save_queue`, `_save_all_resume_data` |
| `Shutdown...` | `shutdown()`, its loop one alert at a time |
| `Net...`, `Download` | libtorrent |
| `Crash` | the process killed at any moment |

*Observation.* `finishLog`, `removedByUser`, `failedRestore`, `atTick` and
`lastExit` record what happened for the properties; no guard reads them.
`raced` holds the info-hashes whose add overlapped their own removal, an
answer to their restore (from an HTTP thread), or the shutdown. The handlers go by
info-hash alone, so for those hashes the row, handle and file may disagree:
the code makes no promise and neither do the properties. A theorem or an
invariant that excludes `raced` says so in its formula. Whether a hash is raced
is decided when the call begins, never from the damage.

### AutoShutdown

`record` follows `state` only through `OnStateUpdate`, one state-update alert
per tick (`asked`); `alerts` also holds `torrent_finished`. The services are
connected in the order of `run_web_spike.py`: `PostCompleteActionService`
first, so one `OnTorrentFinished` raises the extraction count before
`MaybeStartCountdown` looks at it. `running` are the extractions on the pool and
`extracted` those whose `finished` signal is queued; the same for the creation.
`retries` are the `singleShot(0)` calls due; `timers` counts countdown timers
that will fire, where the code has only the last one in `_countdown_timer`.
`Quit` is `_shutdown()` as the service sees it: `stop()` first, and jobs
cancelled, so that an end may or may not be reported afterwards.
The records' states are folded to the ones the service distinguishes: queued,
downloading, paused (also awaiting analysis), finished (also seeding).

### ResumeStore and SessionRefinement

`ResumeStore` knows only files, the torrents in libtorrent's session, how far
each has got, and those whose file may go. A file is written only for a torrent
in the session and never claims more than it has; it disappears only once the
torrent was dropped. `SessionRefinement` maps `SessionManager` on it: the
session is `live`, the progress is libtorrent's, and a torrent is dropped when
its removal was asked for or its hash is `raced`. Requests, alerts, passes and
threads of `SessionManager` are stutters of it. `ImplementsStore` is what keeps a
save that was answered after its torrent left from bringing it back.

### Policies

`status` is the torrent in libtorrent (paused, auto-managed, with metadata,
complete), `record` what the last `state_update_alert` left of it, and every
decision reads the record, as the code does. `heldBy` is a history variable: who
paused last. `StateOf` keeps the order of the tests of `from_libtorrent_state`:
a torrent without metadata never looks paused. `Swap` changes the volume behind
the path; the service's poll compares serial numbers (`Back`).

A quit or a crash and the launch after it are one step (`Launch`): the memory of the
battery and disk services is gone, each torrent is what its resume file says, and the
share limits are those last saved (`WriteLimits`, half a second after a change; a quit
flushes them). After a crash the resume file may be of any age, or missing (`lost`).
Each restored row then waits for its `add_torrent_alert`: `Restored` binds it,
`RestoreRefused` drops the row and keeps the file and the share limit for the next
launch (`shelved`), as the comment at `session_manager.py:545-546` says. A file that
cannot be read at all never has a row, which is what `RestoreRefused` leaves too.

### Services

The services around the session hold private state and meet only through
inputs: the `Settings` object, the session's signals, the page. In these
modules those inputs are actions of the environment, with every value at any
time, so an interleaving of two services reaches in each nothing it does
not reach alone. `Services` therefore studies one service per behaviour
(`which`, chosen in the initial state), and its properties are conjunctions of
the parts each module states. What does interact is in one module: the writers
of the rate in `Limits`, those of the paused flag in `Policies`, extraction and
creation with the countdown in `AutoShutdown`, the jobs of every service with
the quit in `BackgroundTasks`.

| Module | State and actions in the code |
|---|---|
| `Limits` | `evaluate_now` (`Tick`), `check_now` of the idle service (`CheckIdle`, the tick count modulo `Wrap`), the pages and the profiles that write past the scheduler (`overruled`) |
| `NetworkProfiles` | `check_now`, the netsh runnable, `_on_ssid_ready`, the profile and association stores |
| `Governor` | `check_now`, with the active limit, the RSS pause and the history pause it sets |
| `ShareLimits` | track, untrack, `_schedule_save`, `_save`, `flush`; failed writes and crashes |
| `PeerStores` | `get_peer_info` feeding both stores, `_save` held back half a minute, reconnection, flush |
| `IpBlocklist` | `_load_ip_blocklist`, the worker's `run` in blocks, its cancellation, `_on_ip_blocklist_loaded` |
| `RssFeed` | `check_now`, `_on_feed_fetched`, `_on_torrent_downloaded`, `_on_rss_metadata_received`; a restart drops what memory held |
| `WatchFolder` | one scan of the folder (`Scan`): which adds the session takes (`Taken`: whole files it does not have yet), the subfolder each outcome is filed in (`Target`), moves that fail, a crash after some of the files; torrents that come and leave by other doors |
| `RoutingRules` | add, remove, `reorder` with any list of names, `find_matching_rule` |
| `AddPage` | `selectTorrentFile`, `analyzeMagnet`, metadata, `startTorrent`, and the form in front of them |
| `Launch` | probe, listen, the pipe, `open_source`, `_on_page_loaded` |
| `RemoteAccess` | `start`, `stop`, token renewal, request threads between `_require_token` and the answer |
| `Statistics` | status updates, flush, removal, `_flush_one`; the level of a total |
| `SettingsStore` | `save` and its parts, `load`, import, snapshot restore, trimming; a log line that is lost or cut short (`AppendFails`, `torn`), a copy that is not written or stops the import (`BackupCurrentConfig`, `ImportRaises`), `config_backups` deleted by hand |
| `Labels` | both maps; a removal is three writes, which a crash may separate |
| `Storage` | `move_storage`, its alert, status alerts that carry the path, lock and unlock, the resume file's `save_path` |
| `Journal`, `Rechecks` | the polls of four services; a restart, which empties the clocks of the rechecks |
| `Window` | `_on_status_batch_updated`, `set_live`, page load; the resize freeze |
| `Updates` | check, download, verification, cleanup, launch, quit |
| `Deadlines` | `_apply_deadline_priorities`, `move_queue_up` and `down`, `_apply_streaming_deadlines` |
| `BackgroundTasks` | the pool, the cancel events, `_shutdown`, Qt's wait for the pool |

## 3. Runs

| Run | Instance | Question | Answer |
|---|---|---|---|
| `SessionRaces` | 1 torrent, GUI and one HTTP thread, 2 adds per launch, backlog 3 | do rows, handles, files and libtorrent agree through every interleaving, crash and quit? | yes |
| `SessionQuit` | 2 torrents, GUI only, 1 add, backlog 2, symmetric | is a clean exit clean for every torrent when periodic saves are still in flight? | yes |
| `SessionLive` | 1 torrent, 2 threads, 2 adds, backlog 2, fair | do restores, removals and saves complete? | yes |
| `AutoShutdown` | 2 torrents, 2 alerts, 2 extractions, fair | one timer, quiet quit, no forgotten countdown? | yes |
| `Policies` | 1 torrent, 2 volumes, quits, crashes and refused restores, fair | does a pause stick, a limit fire once, a torrent held for the battery or a disk come back, and nothing start under the theme? | yes |
| `Services` | each service on its own instance (below), fair | do the services keep what they promise through failures, crashes and late answers? | yes |
| `BatteryPauses` | 1 torrent | is a torrent paused by hand before the unplugging left alone? | no |
| `SessionSwallowed` | 1 torrent | is only a reconfirmation swallowed? | no |
| `SessionQuitRaise` | 2 torrents | does a stale alert leave `shutdown()` running? | no |
| `SessionReadd` | 1 torrent, 2 threads | does a torrent added again keep its row? | no |
| `AutoShutdownStarts` | 2 torrents | does each finish start a countdown when it should? | no |
| `AutoShutdownCuts` | 2 torrents | is no extraction cut short? | no |

### Properties

`SessionManager`: `HandleHasRecord`, `LiveIsKnown`, `RowIsLive` and `FileHasRow`
relate the four places a torrent is known in. `PendingIsAnswerable` is what lets
the restore poll end. `NoSpuriousFinish` follows the one-shot flag for
libtorrent's reconfirmation through restores, removals and re-adds.
`OnlyRemovalDeletes` is an action property: no step deletes the file of a
torrent nobody removed. `CleanExitKeepsProgress` is the argument of the
comment in `shutdown()`: a periodic save may stand in for the final one, and is
at most one tick older. `RestoreResolves`, `RemovalCompletes` and
`CompletionSaved` are the liveness side; each allows the process to be leaving.

`AutoShutdown`: `WorkIsCounted`, `OneTimer`, `NoCountdownAtQuit`,
`DeferredHasBusy`, and under fairness `DeferredIsRetried`.

`SessionRaces` also checks the refinement `ImplementsStore`, and `Inductive`, the
invariant that the proofs of section 4 are made of.

`Policies`: `PauseSticks` (libtorrent's queue cannot start what was paused),
`NothingStartsUnderCCCP`, `LimitPausesOnce`, `ForgottenWithRow` (once a removal is
reported, a hash added again inherits nothing; a share limit outlives its row only
where a restore was refused and its resume file waits for the next launch, or where a
crash or a quit left no resume file), and the liveness of the two services that
resume, `PowerResumes` and `ReconnectResumes`.

`Services`, each a conjunction over the modules it concerns: `InForce`,
`StoresFollow`, `CountedOnce`, `GivenOnce`, `CheckedFirst`,
`AgreesWithReference` (algorithms against a definition, over every bounded input),
`Undoable`, `PageIsCurrent`, the action properties `LateAnswersIgnored` and
`NothingOutOfTurn`, and the liveness `WaitsEnd`. Some of their parts, for what they
leave to be argued about:

* `WatchFolder`: `AddedOnce` counts adds through any number of tries, and holds
  because the session refuses a duplicate; `PlaceTells` has one exception, a file
  added but not moved, which a later scan files under `failed`; `TriedOnce` is what is
  left of the docstring's "at most once" when a move may fail.
* `SettingsStore!Undoable`: best-effort writes may fail, so a write can be undone where
  its own line or copy was written whole. What must never happen is that the line of a
  save undoes something else: it is always logged against what the file holds.
* `RemoteAccess!ReplacedIsRefused`: a request accepted before a renewal and checked
  after it is refused (part of `LateAnswersIgnored`).
* `Limits!IdleMeasured`: the difference modulo the width of the tick count is the time
  since the last input, across the wrap (part of `AgreesWithReference`).
* `Rechecks!Spaced`: never sooner than the interval since the last recheck, nor than an
  interval since the launch. The docstring says the reverse of a restart (below).

Each property of a passing run has a mutant of the code (`..._Suffix` next to the
definition it replaces) that the run must reject: a dropped guard, a
flag cleared too early, a count instead of a set, an eager deletion.

### What the violations say

1. *A completion swallowed.* A torrent restored complete whose files have gone
   is checked and downloaded again. No reconfirmation comes, so the flag is
   still set when the download really ends and that alert is swallowed: no
   notification, no post-complete action.
2. *shutdown() stopped by a stale alert.* Its loop reads the hash of a handle
   outside `dispatch_all`. A save answered just before its torrent was removed
   raises out of it, and the final saves of the others are not written.
3. *A row lost to a refused restore.* "Added again by hand" is recognised by its
   handle, which an add in flight on an HTTP thread does not have yet.
4. *A finish that starts no countdown.* The record of the torrent that just
   finished still says downloading when `torrent_finished` comes before the
   state update. Nothing tries again.
5. *An extraction cut short.* Busy sources are asked before the countdown
   starts, not when it elapses.
6. *The battery service and a paused magnet.* A magnet whose metadata has not
   come is CHECKING_METADATA even when paused, and that state counts as an
   active download. Unplugged, the service pauses it once more, remembers it as
   its own, and resumes at the next plug-in what the user had paused before.

Each is recorded under `findings` with the line it contradicts.

### Divergences met, without a run of their own

Met while modelling; the models do what the code does, and the properties are
stated so as not to promise the opposite.

* A lock asked for during a move finds no file at the record's old path and
  still shows the row as locked (`Storage!blind`).
* The deadline sweep goes through the rows in order: of two urgent torrents
  the later row ends ahead, whatever their urgency, while
  `session_manager.py:426-429` speaks of "the most urgent thing".
* `_paused_by_us` is not pruned when a torrent is removed, and a resume that the
  theme blocks is forgotten by the battery and disk services.
* `bandwidth_scheduler.py:76-77` says nothing calls `set_turtle_mode`; the idle
  service does. The General page and settings profiles write the base rate past
  the scheduler (`Limits!overruled`).
* An RSS item is marked seen before its `.torrent` is downloaded; a failure or a
  restart loses it. RSS and the watch folder each keep a `RoutingRuleStore` of
  their own, read once.
* Statistics flush nothing at quit, and a torrent added again starts from
  another counter: bytes can be missed, never counted twice.
* A failed write of the LAN peer cache is not flagged for the next flush.
* The first poll of the known disks reports disks that were inserted before.
* `scheduled_recheck_service.py:12-17` says that after a restart a torrent is rechecked
  "a bit sooner than the configured interval [...], never later than CHECK_INTERVAL_MS
  off from what it would otherwise be". The code does the reverse: the clock is in
  memory, a torrent first seen finished after a restart starts it without a recheck
  (lines 61-68), and so a recheck that was due comes a whole interval later, never
  sooner. `Rechecks!Spaced` states both halves of that. Restarted more often than the
  interval, the process rechecks nothing.
* `watch_folder_service.py:7-9` and `:92-95` say a file that fails to add is "attempted at
  most once rather than retried -- and logged -- forever". When the move to `failed`
  itself raises (lines 101-107) the file stays, and every scan tries and logs it again;
  `WatchFolder!TriedOnce` excepts exactly the files whose move failed.
* What the battery and disk services paused is in memory: a restart in between leaves
  those torrents paused, with nobody to resume them.
* No launch enforces the CCCP theme, and choosing it skips a row whose restore is still
  pending: a torrent whose resume file says queued (written before the theme was
  chosen, and left by a crash) starts under it. `NothingStartsUnderCCCP` is about the
  starts the application makes.
* A reached share limit is latched in memory for half a second: a crash in between
  takes the latch back, and the limit may fire again.
* A watched file that was added but could not be moved is refused as a duplicate by the
  next scan and filed under `failed`.
* A settings line cut short swallows the next one: it is appended to the half line, and
  neither can be read. An import whose copy fails goes on and cannot be undone.
* An imported configuration is overwritten by the next save of the running
  process; a restored snapshot can flip the remote-access option without
  starting or stopping the server.
* A second source opened before the page has loaded replaces the first.
* The file-priority dialog starts with every box ticked and re-includes files that were
  left out automatically; a magnet added remotely is not scanned.
* A second download of the installer removes the file of the first.
* Share-limit changes made after the flush of the quit are lost.

### Bounds and why they are enough

* `Torrents`: the bookkeeping of two torrents meets only in the queues, in the
  drain quota and in `shutdown()`'s set. One torrent is enough for what concerns
  a single hash; `SessionQuit` and `SessionQuitRaise` have two for the rest.
* `Threads`: two: one call in flight per thread, and two calls on one hash are
  the most that any pair of handlers can confuse.
* `MaxAdds = 2`: one removal and re-add, or a restore and a re-add, per launch;
  launches repeat without bound, since a crash resets everything but the disk.
* `MaxBacklog`: requests and alerts outstanding when a call is made or a tick
  starts (a user who waits). The longest chain of interest is three: a save in
  flight, a removal, and an add. Alerts that libtorrent posts are not bounded
  by it.
* `Full = 1`: none, or all, of a torrent; partial progress only matters to
  `CleanExitKeepsProgress`, for which older and newer is enough.
* `SavesPerTick = 1` (two in the code): the quota and the queue are what
  matters, and with two torrents a quota of one leaves a queue behind.
* `Policies` has one torrent: the services act on each torrent by itself, and
  what it meets (power, volume, theme) is global. Two volumes, so that the wrong
  disk can come back.
* `Services` keeps each service at the smallest instance where its hazard happens:
  two items of a feed, one a magnet, and two checks in flight; two files in the watch
  folder that may hold the same torrent, each tried at most twice; two rules; two launches; two requests and two
  tokens; two downloads of the installer; two peers, one on the LAN, two days and a
  cache entry that lasts one; a tick count modulo three; four bytes transferred
  and a level every three; two settings fields, one never logged, and a log cut to one line when it has more
  than two, or three where the cut failed; three directories, one refused; three queued torrents, for an order that
  a third can break; one pool thread, so that a job can be queued at the quit.
  `Wrap`, `MaxReal`, `MaxNow`, `MaxAge`, `MaxDays`, `MaxChecks`, `MaxTries`, `MaxTokens`,
  `MaxTimers`, `MaxRows`, `MaxTold`, `MaxSize`, `MaxLog`, `Keep` and `TrimAt` are those bounds; the values are
  small but each lets its limit be reached and passed.
* `MaxAlerts`, `MaxExtractions`: two, so that a finish and a state update, or two
  extractions, can be outstanding in either order.

`CHECK_DEADLOCK` is off in the `AutoShutdown` runs and in `Services`: after the
quit and the last job, those processes have nothing left to do. A `SessionManager`
run can always launch again.

### Fairness

`SessionManager!FairSpec`: weak fairness of libtorrent's thread (it services its
queue), of returning calls, of the tick timer, of the handlers of a started
pass, and of `shutdown()`'s loop, which has a deadline. The 120 s autosave
timer competes with the tick for an idle event loop, hence strong fairness: Qt
delivers a due timer sooner or later but it is not enabled all the time. Nothing is
assumed of users, downloads or crashes.

`AutoShutdown!FairSpec`: weak fairness of dispatching a popped batch and of pool
jobs; strong fairness of the queued signals and `singleShot(0)` calls, which
wait for an idle loop. The countdown timer, the user and libtorrent owe nothing.

`Policies`: weak fairness of the two polls that resume, which are 30 s timers of
an event loop that goes on; nothing is owed by the user, libtorrent or the power.
`Services`: weak fairness of the timers (`Tick`, `CheckIdle`, `CheckNow`), of pool
jobs starting and noticing their cancel event, of netsh, which the code gives a
timeout, of the blocklist worker and its queued answer, and of `shutdown()`
returning, which has a deadline. A scan, a hash or a download owes no end.

## 4. Proofs

The theorems of the session and of auto-shutdown hold for every finite set of
torrents, any set of threads, any `Full`, drain rate and bounds
(`ConstantsAssumption`, `BoundsAssumption`); those of `Policies` for any set of
torrents and of volumes, with no assumption but that `NoVolume` is no volume;
those of `Services` for any value of its constants under the assumptions it names:
bounds are naturals, the empty choice (`None`, `Corrupt`) is none of the values,
there is a rate, a profile content and a default to start from, the arguments of
the launches are finitely many, a log keeps at least one line and no more than it is
trimmed at. The algorithms add four: there are finitely many rule names and queued
torrents, as in any process; no pattern is the token for the empty one; and
`Base` is at least 3 (the code has 1 GiB), so that each threshold is at least a byte
above the one before, rounding included.

**SessionManager.** `PendingIsAnswerable`, `NoSpuriousFinish` and
`OnlyRemovalDeletes` are not inductive. A handler trusts what it pops, so one
has to say why each thing in a queue is still backed by the sets and files it
was made from:

* `RestoresFirst`: the restores of a launch are distinct and ahead of any other
  request, so nothing is serviced for a torrent before its restore;
* `UntouchedUntilRestored`: until then the torrent is not in the session, its file
  is there, no alert names it, and a complete file still has its flag in
  `restoreConfirm`;
* `ReconfirmFirst`, `ReconfirmExpected`: a reconfirmation in the queue is
  preceded, for its torrent, only by the successful add, so its flag cannot be
  cleared before it is handled;
* `RemovalsMeant`: a removal requested or reported is one the user asked for;
* `OffIsEmpty`: between two processes the queues are empty.

With `TypeOK` these make `IInv`, and `SessionManagerProofs` proves it. The proof reduces every action to one of
three facts: appending requests keeps the invariant (`RequestKeeps`), servicing
the first request and posting its answers does (`NetKeeps`), and taking the
first alert off does (`HandlerKeeps`). The other lemmas (`Type...`) say that each
action keeps the types.
Theorems: `Invariance`, `TypeCorrect`, `RestoresAnswerable`, `FinishesGenuine`,
`DeletionsMeant`.

The other promises relate the four places a torrent is known in, and lean on
everything in flight between them. `SessionInvariants` says how, one torrent at a
time, for a torrent that is not `raced`:

* `Incarnations`: nothing names an incarnation to come, so an alert that names
  the torrent now in the session is about that one and no other; a save
  answered for it claims no more than it has now. This alone gives the
  refinement: `StoreKept` maps each step of `SessionManager` to a step of
  `ResumeStore` or a stutter.
* `Calling`, `AnswersHold`: a thread is in one call, every add in the queue has
  the thread that waits for it, and what libtorrent answered is still true when
  the call returns. GUI handlers run between the answer and the return, so this
  needs that no removal of the torrent is in flight, that its row is there and
  that its pending restore can only be ended by the GUI thread itself.
* `RowsOK`: a handle names the torrent in the session until its removal is
  reported; a restore that is waited for has an answer (`AnswerTrue`) whose
  incarnation the handler can bind, ahead of any report of its removal
  (`AnswerBeforeRemoval`); once settled, a row has its handle or the call that
  will bind it.
* `SavesOK`: saves of one incarnation never go backwards, an unchanged torrent
  is in its file or in a save about to be written, and a save that failed since
  the last tick had nothing to add. `shutdown()` clears a torrent on the answer
  to any save, a periodic one or a failure included; this is why that is enough.

`Inductive` is their conjunction with `IInv`; `SessionRaces` checks it with TLC and
`SessionInductive` proves it. The proofs treat a step as one about a single
torrent: `RowAside`, `CallsAside`, `SavesAside` and `SavesPopped` say that the rows
and saves of the others do not notice, given how the queues changed
(`AlertsGrow`, `AlertsPop`, `CmdsGrow`, `CmdsPop`).
Theorems: `StoreKept`, `RowsAgree`, `HandlesHaveRecords`, `LiveKnown`, `RowsLive`,
`FilesHaveRows`, `SessionInductive`, `CleanExit`.

**AutoShutdown.** No property is inductive alone, but the conjunction of the
safety properties is: a deferred countdown has a job to wait for only because
`WorkIsCounted` keeps the pending count from reaching zero early, and nothing is
pending after the quit only because `OneTimer` leaves `stop()` no second timer
to miss. TLC checks each conjunct in the `AutoShutdown` run.
Theorems: `Invariance`, `TypeCorrect`, `JobsCounted`, `SingleTimer`,
`QuietQuit`, `DeferralHasCause`.

**Policies.** `PauseSticks` is not inductive: a torrent that is held and paused
but left auto-managed would be started by the next turn of libtorrent's queue.
`HeldOutOfQueue` adds that whoever holds a torrent also took it out of the queue, and
`RestoreKept` that a row waiting for its restore has no torrent in libtorrent and no
error noted; with `TypeOK` and `ForgottenWithRow` they make `IInv`. All pausers go through
`PauseAll` and `ResumeAll`, so one lemma on each carries most cases of the proof
(`PauseAllKeeps`, `ResumeAllKeeps`). The two action properties follow from what
such a call does to one torrent (`PauseAllSteps`, `ResumeAllSteps`).
Theorems: `TypeCorrect`, `HeldTorrentsStayPaused`, `NothingWatchesARemovedRow`,
`ThemeHoldsIncomplete`, `LimitHoldsOnce`.

**Services.** Each service has its invariant `...Inv` with a lemma for its initial
states (`...Init`) and one for its steps (`...Step`). Their conjunction, `ServicesInv`,
is an invariant of `Spec` because a step of one service leaves the variables of the
others alone (`TrafficStays` to `ProcessStays`). Few of the promises are inductive as
they stand; what the code relies on, and the invariant has to say, is for instance:

* `Statistics` (`StatisticsKept`): for the store in use as for the copy that is surely
  on the disk, total plus counter less stored counter stays below what was
  transferred, so a commit lost in a crash is counted again but not twice;
* `PeerStores` (`PeersKept`): what is folded plus what a live connection reports is
  never more than what was received; expiry is stable, so a cache that agrees with
  its file today still does tomorrow (`SinceAgree`, `SinceTwice`);
* `Labels` (`LabelsKept`): after a crash only the torrents with a resume file are
  right; the clean-up at launch, not the removal, repairs the others;
* `Storage` (`StorageKept`): while the files are not where libtorrent has them, no
  path told or still to be told is theirs, so a lock looks in vain and is `blind`; a
  lock that found them has them where libtorrent does;
* `RssFeed` (`FeedKept`), `WatchFolder` (`FolderKept`): an item handed over is marked
  seen already; a file in the folder whose move never failed has not been tried, and
  what a file added is in the session until it leaves it, so that the session refuses
  it to a second try;
* `Journal` (`JournalKept`): a disk not seen yet, a path whose warning is still to come
  and a torrent not yet written of have no line;
* `SettingsStore` (`Undoable` itself): what was last saved, when it is known, is what
  the file holds, so a save logs the file and not a stale copy of it; trimming never
  drops the last line (`TrimKeepsLast`, with `Keep` at least 1);
* `IpBlocklist` (`BlocklistKept`): the session is paused exactly while it waits, and
  only an unreadable list ends the wait without a filter;
* `Updates` (`UpdatesKept`): what is offered has no task any more, and a verified
  file is good or gone;
* `Rechecks`: a running clock is no older than the last recheck, nor than the process,
  which makes `RechecksApart`.

Theorems: `ServicesInductive`, `LimitsInForce`, `FilesFollowMemory`,
`BytesCountedOnce`, `EachGivenOnce`, `ChecksComeFirst`, `LastWriteUndoable`,
`PagesCurrent`, `LateAnswersHarmless`, `RechecksSpaced`, `ServicesTyped`,
`AlgorithmsAgree`, `OrderKept`.

**Algorithms.** What they compute is an induction over data, for which the library's
theorems take an operator that no installed prover can instantiate. `AlgorithmProofs`
takes the least number at which a statement fails (`LeastNumber`), and shows that a
value mapped by any n steps in turn has a history (`Iteration`); the recursive
functions of the models (`Deadlines!Swept`, `Deadlines!Offset`, `Statistics!Growth`)
get their equations from it. With these:

* `RoutingRules`: `KeptElements` says that keeping some positions of a list gives
  those elements in their order (`RanksAreOnto`: every rank has its position). A
  reordering is then a permutation of the rules whatever stale list it comes with
  (`ReorderedRules`); the names stay distinct (`NamesCounted`), and the first match is
  the one chosen (`MatchIsFirst`). Distinct names are needed: `by_name` would drop
  the first of two rules of one name.
* `Deadlines`: moving a torrent up takes none of the others behind another
  (`UpKeeps`), so every prefix of a sweep leaves a torrent that is not urgent behind
  those it was behind (`SweepOrders`).
* `Deadlines!StreamsHead`: the pieces that hold a byte of a stretch are an interval
  (`PiecesAre`, from `PieceStarts`: a piece starts at or before a byte exactly when
  it is at most the piece of that byte), and the end of the torrent never cuts the
  head of the largest file short (`OffsetsGrow`, `HeadOfStretch`).
* `Statistics!LevelReached`: thresholds grow strictly (`ThresholdsGrow`), so one
  level is reached (`LevelReachedOnce`), and the two loops end on it from an estimate
  one off on either side (`LevelIs`).
* `Limits!IdleMeasured`: a number has one remainder (`RemainderIs`), so the
  difference is right on either side of the wrap (`IdleIsMeasured`).
* `DangerScanner!ScansRight`: a score is the sum of its signs, cut at 100
  (`ScoreIs`), which a further sign can only raise (`SignsAdd`).

**Only model-checked.** The liveness properties `RestoreResolves`, `RemovalCompletes`,
`CompletionSaved`, `DeferredIsRetried`, `PowerResumes`, `ReconnectResumes` and
`WaitsEnd`: TLAPS does not reason about fairness and `ENABLED` here. Every
invariant and every action property of the passing runs is a theorem.

## 5. Abstractions and what is left out

* A dead handle is known to be dead at once. libtorrent may report it valid for
  a moment after the removal; the code then does what it does for a live one.
* Writing a resume file does not fail, and the directory is not deleted by hand.
* The alert queue does not overflow; `_restore_previous_session` raises its
  limit to four alerts per restored torrent.
* Page calls delivered by `processEvents()` inside `shutdown()` are not modelled
  for `SessionManager`.
* In `SessionManager`, metadata, trackers, files, queue positions, speeds,
  blocklist and storage moves do not touch the state modelled; other modules
  have those that keep state of their own.
* What a feed, a page, a release or a settings file contains is a choice among
  the cases the code tells apart; parsing is not modelled.
* Writing the tags and categories, or the resume file of a removed torrent being
  deleted, does not fail; writes of share limits, peer stores, statistics, settings,
  the log and the copies may.
* A service's inputs are free in `Services`: a sequence that the pages would not
  send in practice is allowed too.
* A wait of a fixed time (debounce, half a minute, timers) is a step that may
  come at any moment after it is due.

### Not modelled

Components with no state of their own that could go wrong: notifications,
clipboard, sound and start-up registration (calls into the desktop), stylesheets
and layout, translations and formatting, conversions of libtorrent data for
display, packaging, and the scripts beside the program. The parsing of `.torrent`
files, feeds, blocklists and release answers is pure. What two processes launched
at the very same instant do to one pipe is Windows' decision. `PROJECT.json`
gives the reason for each component.

## 6. Plan

Done: `SessionManager`, `AutoShutdown`, `Policies`, the services, `ResumeStore` and
its refinement; every safety property a passing run checks is proved, for the session,
for auto-shutdown, for the pausers and for the services with their algorithms.

Left:

1. Write failures in `SessionManager`, and an alert queue that overflows: the first
   needs a resume file that stays older than `atTick` says, the second a bound on
   `alerts` past which the newest is lost, and both a weaker `CleanExitKeepsProgress`.
2. What a hash in `raced` still has: the row, the handle and the file may disagree.
   The next launch starts from the file alone; no property says yet what is then lost.
