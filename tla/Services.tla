------------------------------ MODULE Services ------------------------------
(***************************************************************************)
(* The services around the session, side by side.  They share no state in  *)
(* these models -- what passes between them (the Settings object, the      *)
(* session's signals) is an input of each -- so an interleaving of two is  *)
(* worth the two alone, and a behaviour here is one of one service, chosen *)
(* in the initial state.                                                   *)
(***************************************************************************)
EXTENDS Naturals, FiniteSets

CONSTANTS
    Torrents, OneTorrent, None,
    Rates, Turtle, Day, Wrap, IdleAfter,                        \* Limits
    Ssids, NoSsid, Profiles, Contents, Nothing,                 \* NetworkProfiles
    MaxActive, MaxRows,                                         \* Governor
    Peers, Private, MaxBytes, MaxNow, MaxAge,                   \* PeerStores
    Blocks,                                                     \* IpBlocklist
    Items, Magnets, MaxChecks,                                  \* RssFeed
    Files, MaxTries,                                            \* WatchFolder
    Names, Patterns,                                            \* RoutingRules
    Links,                                                      \* AddPage
    Launches,                                                   \* Launch
    Clients, MaxTokens,                                         \* RemoteAccess
    MaxReal, Base,                                              \* Statistics
    Fields, Excluded, Values, Default, Corrupt, Keep, TrimAt,
    MaxLog,                                                     \* SettingsStore
    Tags, Categories,                                           \* Labels
    Places, Denied, MaxTold,                                    \* Storage
    Mounts, Paths,                                              \* Journal
    Interval, MaxDays,                                          \* Rechecks
    Revisions, MaxTimers,                                       \* Window
    Downloads,                                                  \* Updates
    Queued, NoDeadline, HeadPieces, MaxSize,                    \* Deadlines
    Scans, Fetches, Extractions, Creations, Queries, Threads    \* BackgroundTasks

ASSUME LimitsAssumption ==
    Rates # {} /\ {Day, Wrap} \subseteq Nat \ {0}
ASSUME ProfilesAssumption == Contents # {}
ASSUME GovernorAssumption == MaxActive \in Nat \ {0} /\ MaxRows \in Nat
ASSUME PeersAssumption ==
    MaxBytes \in Nat /\ MaxNow \in Nat /\ MaxAge \in Nat
ASSUME LaunchAssumption == IsFiniteSet(Launches) /\ None \notin Launches
ASSUME StatisticsAssumption == MaxReal \in Nat /\ Base \in Nat /\ Base >= 3
ASSUME FeedAssumption == MaxChecks \in Nat
ASSUME BlocklistAssumption == Blocks \in Nat
ASSUME RulesAssumption == IsFiniteSet(Names)
ASSUME PatternsAssumption == "blank" \notin Patterns
ASSUME RemoteAssumption == MaxTokens \in Nat \ {0}
ASSUME FolderAssumption ==
    MaxTries \in Nat /\ {"partial", "bad"} \cap OneTorrent = {}
ASSUME SettingsAssumption ==
    /\ Default \in Values /\ {None, Corrupt} \cap [Fields -> Values] = {}
    /\ Keep \in Nat \ {0} /\ TrimAt \in Nat /\ Keep <= TrimAt /\ MaxLog \in Nat
ASSUME DeadlinesAssumption ==
    IsFiniteSet(Queued) /\ HeadPieces \in Nat /\ MaxSize \in Nat
ASSUME WindowAssumption == MaxTimers \in Nat /\ None \notin Revisions
ASSUME StorageAssumption == MaxTold \in Nat
ASSUME RechecksAssumption == Interval \in Nat /\ MaxDays \in Nat
ASSUME JournalAssumption ==
    Mounts \cap Paths = {} /\ Mounts \cap OneTorrent = {} /\ Paths \cap OneTorrent = {}

VARIABLE which        \* the service under study

\* What moves traffic.
VARIABLES
    base, schedule, hour, idleOn, throttled, turtle, rate, overruled,    \* Limits
    switchOn, profilesSettings, applied, profileList, links, ssid,
    lastSsid, query, answer, inFlight,    \* NetworkProfiles
    governorEnabled, high, throttling, maxActive, slots, rssPaused,
    historyPaused, governorLive, lastKnown, governorRows, missed,    \* Governor
    sharesProcess, tracked, saving, sharesStored, sharesFailed,    \* ShareLimits
    link, received, peersActive, peersRecord, recordFile, recordDirty,
    recordFresh, peersNow, cache, cacheFile, cacheDirty, cacheFresh,
    peersFailed,    \* PeerStores
    blocklistEnabled, blocklistLines, blocklistPaused, waiting, filter,
    worker, read, blocklistLoaded, quit    \* IpBlocklist

\* What brings torrents in.
VARIABLES
    subscription, latest, feedPaused, checks, feedSeen, jobs, feedFiles,
    feedTorrents, metadata, scans, scanned, handed,    \* RssFeed
    folderState, folderPlace, content, folderSession, adds, tries,
    folderStuck, folderGone,    \* WatchFolder
    ruleList, rulesLoaded,    \* RoutingRules
    addPath, cached, addPending, selected, shown, unticked, magnet, addAdded,
    skipped,    \* AddPage
    launchStage, inbox, page, works, launchPending, opened, lost,    \* Launch
    remoteEnabled, token, remoteSaved, running, request, key, alive    \* RemoteAccess

\* What is remembered.
VARIABLES
    statisticsLive, counter, statisticsResume, current, lastSeen, db,
    durable, real, exact,    \* Statistics
    settingsNow, settingsFile, lastSaved, log, torn, backup, before,
    writer,    \* SettingsStore
    up, labelsLive, labelsResume, tags, category, labelsStored, given,    \* Labels
    storagePath, storagePlace, storageFiles, moving, told, storageSaved,
    readOnly, locked, blind,    \* Storage
    present, journalSeen, asking, space, journalActive, warning, warned,
    journalTorrents, journaled, journalLines,    \* Journal
    rechecksNow, rechecksEnabled, state, last, rechecked, rechecksStarted    \* Rechecks

\* The window and the process.
VARIABLES
    windowRecord, changed, row, windowLoaded, visible, windowLive, resizing,
    overlay, fits, timers,    \* Window
    check, release, asset, releaseUrl, task, updatesFile, updatesStuck,
    offered, launched, browser, updatesCancelled,    \* Updates
    deadlinesRows, queue, deadlinesActive, left,    \* Deadlines
    phase, tasksStage, tasksCancelled, busy, written    \* BackgroundTasks

L == INSTANCE Limits
N == INSTANCE NetworkProfiles WITH
    settings <- profilesSettings, profiles <- profileList,
    Names <- Profiles
G == INSTANCE Governor WITH
    enabled <- governorEnabled, live <- governorLive, rows <- governorRows,
    Torrents <- OneTorrent
H == INSTANCE ShareLimits WITH
    process <- sharesProcess, stored <- sharesStored, failed <- sharesFailed
P == INSTANCE PeerStores WITH
    active <- peersActive, record <- peersRecord, now <- peersNow,
    failed <- peersFailed
B == INSTANCE IpBlocklist WITH
    enabled <- blocklistEnabled, lines <- blocklistLines,
    paused <- blocklistPaused, loaded <- blocklistLoaded
F == INSTANCE RssFeed WITH
    paused <- feedPaused, seen <- feedSeen, files <- feedFiles,
    torrents <- feedTorrents
W == INSTANCE WatchFolder WITH
    folder <- folderState, place <- folderPlace, session <- folderSession,
    stuck <- folderStuck, gone <- folderGone, Infos <- OneTorrent
R == INSTANCE RoutingRules WITH
    rules <- ruleList, loaded <- rulesLoaded
A == INSTANCE AddPage WITH
    path <- addPath, pending <- addPending, added <- addAdded,
    Magnets <- Links
O == INSTANCE Launch WITH
    stage <- launchStage, pending <- launchPending
C == INSTANCE RemoteAccess WITH
    enabled <- remoteEnabled, saved <- remoteSaved
T == INSTANCE Statistics WITH
    live <- statisticsLive, resume <- statisticsResume
S == INSTANCE SettingsStore WITH
    settings <- settingsNow, file <- settingsFile
E == INSTANCE Labels WITH
    live <- labelsLive, resume <- labelsResume, stored <- labelsStored
M == INSTANCE Storage WITH
    path <- storagePath, place <- storagePlace, files <- storageFiles,
    saved <- storageSaved
J == INSTANCE Journal WITH
    seen <- journalSeen, active <- journalActive,
    torrents <- journalTorrents, lines <- journalLines,
    Torrents <- OneTorrent
K == INSTANCE Rechecks WITH
    now <- rechecksNow, enabled <- rechecksEnabled, Torrents <- OneTorrent,
    started <- rechecksStarted, MaxNow <- MaxDays
V == INSTANCE Window WITH
    record <- windowRecord, loaded <- windowLoaded, live <- windowLive,
    Torrents <- OneTorrent
U == INSTANCE Updates WITH
    file <- updatesFile, stuck <- updatesStuck, cancelled <- updatesCancelled
Y == INSTANCE Deadlines WITH
    rows <- deadlinesRows, active <- deadlinesActive
Q == INSTANCE BackgroundTasks WITH
    stage <- tasksStage, cancelled <- tasksCancelled
D == INSTANCE DangerScanner

limitsVars ==
    <<base, schedule, hour, idleOn, throttled, turtle, rate, overruled>>
profilesVars ==
    <<switchOn, profilesSettings, applied, profileList, links, ssid,
      lastSsid, query, answer, inFlight>>
governorVars ==
    <<governorEnabled, high, throttling, maxActive, slots, rssPaused,
      historyPaused, governorLive, lastKnown, governorRows, missed>>
sharesVars == <<sharesProcess, tracked, saving, sharesStored, sharesFailed>>
peersVars ==
    <<link, received, peersActive, peersRecord, recordFile, recordDirty,
      recordFresh, peersNow, cache, cacheFile, cacheDirty, cacheFresh,
      peersFailed>>
blocklistVars ==
    <<blocklistEnabled, blocklistLines, blocklistPaused, waiting, filter,
      worker, read, blocklistLoaded, quit>>
feedVars ==
    <<subscription, latest, feedPaused, checks, feedSeen, jobs, feedFiles,
      feedTorrents, metadata, scans, scanned, handed>>
folderVars ==
    <<folderState, folderPlace, content, folderSession, adds, tries,
      folderStuck, folderGone>>
rulesVars == <<ruleList, rulesLoaded>>
addVars ==
    <<addPath, cached, addPending, selected, shown, unticked, magnet,
      addAdded, skipped>>
launchVars ==
    <<launchStage, inbox, page, works, launchPending, opened, lost>>
remoteVars ==
    <<remoteEnabled, token, remoteSaved, running, request, key, alive>>
statisticsVars ==
    <<statisticsLive, counter, statisticsResume, current, lastSeen, db,
      durable, real, exact>>
settingsVars ==
    <<settingsNow, settingsFile, lastSaved, log, torn, backup, before,
      writer>>
labelsVars ==
    <<up, labelsLive, labelsResume, tags, category, labelsStored, given>>
storageVars ==
    <<storagePath, storagePlace, storageFiles, moving, told, storageSaved,
      readOnly, locked, blind>>
journalVars ==
    <<present, journalSeen, asking, space, journalActive, warning, warned,
      journalTorrents, journaled, journalLines>>
rechecksVars ==
    <<rechecksNow, rechecksEnabled, state, last, rechecked, rechecksStarted>>
windowVars ==
    <<windowRecord, changed, row, windowLoaded, visible, windowLive,
      resizing, overlay, fits, timers>>
updatesVars ==
    <<check, release, asset, releaseUrl, task, updatesFile, updatesStuck,
      offered, launched, browser, updatesCancelled>>
deadlinesVars == <<deadlinesRows, queue, deadlinesActive, left>>
tasksVars == <<phase, tasksStage, tasksCancelled, busy, written>>

traffic ==
    <<limitsVars, profilesVars, governorVars, sharesVars, peersVars,
      blocklistVars>>
sources ==
    <<feedVars, folderVars, rulesVars, addVars, launchVars, remoteVars>>
records ==
    <<statisticsVars, settingsVars, labelsVars, storageVars, journalVars,
      rechecksVars>>
process ==
    <<windowVars, updatesVars, deadlinesVars, tasksVars>>

Services == {"stateless"} \cup
    {"limits", "profiles", "governor", "shares", "peers", "blocklist",
     "feed", "folder", "rules", "add", "launch", "remote", "statistics",
     "settings", "labels", "storage", "journal", "rechecks", "window",
     "updates", "deadlines", "tasks"}

Traffic ==
    /\ UNCHANGED <<which, sources, records, process>>
    /\ \/ which = "limits" /\ L!Next
          /\ UNCHANGED <<profilesVars, governorVars, sharesVars, peersVars,
                        blocklistVars>>
       \/ which = "profiles" /\ N!Next
          /\ UNCHANGED <<limitsVars, governorVars, sharesVars, peersVars,
                        blocklistVars>>
       \/ which = "governor" /\ G!Next
          /\ UNCHANGED <<limitsVars, profilesVars, sharesVars, peersVars,
                        blocklistVars>>
       \/ which = "shares" /\ H!Next
          /\ UNCHANGED <<limitsVars, profilesVars, governorVars, peersVars,
                        blocklistVars>>
       \/ which = "peers" /\ P!Next
          /\ UNCHANGED <<limitsVars, profilesVars, governorVars, sharesVars,
                        blocklistVars>>
       \/ which = "blocklist" /\ B!Next
          /\ UNCHANGED <<limitsVars, profilesVars, governorVars, sharesVars,
                        peersVars>>

Sources ==
    /\ UNCHANGED <<which, traffic, records, process>>
    /\ \/ which = "feed" /\ F!Next
          /\ UNCHANGED <<folderVars, rulesVars, addVars, launchVars,
                        remoteVars>>
       \/ which = "folder" /\ W!Next
          /\ UNCHANGED <<feedVars, rulesVars, addVars, launchVars, remoteVars>>
       \/ which = "rules" /\ R!Next
          /\ UNCHANGED <<feedVars, folderVars, addVars, launchVars, remoteVars>>
       \/ which = "add" /\ A!Next
          /\ UNCHANGED <<feedVars, folderVars, rulesVars, launchVars,
                        remoteVars>>
       \/ which = "launch" /\ O!Next
          /\ UNCHANGED <<feedVars, folderVars, rulesVars, addVars, remoteVars>>
       \/ which = "remote" /\ C!Next
          /\ UNCHANGED <<feedVars, folderVars, rulesVars, addVars, launchVars>>

Records ==
    /\ UNCHANGED <<which, traffic, sources, process>>
    /\ \/ which = "statistics" /\ T!Next
          /\ UNCHANGED <<settingsVars, labelsVars, storageVars, journalVars,
                        rechecksVars>>
       \/ which = "settings" /\ S!Next
          /\ UNCHANGED <<statisticsVars, labelsVars, storageVars, journalVars,
                        rechecksVars>>
       \/ which = "labels" /\ E!Next
          /\ UNCHANGED <<statisticsVars, settingsVars, storageVars,
                        journalVars, rechecksVars>>
       \/ which = "storage" /\ M!Next
          /\ UNCHANGED <<statisticsVars, settingsVars, labelsVars,
                        journalVars, rechecksVars>>
       \/ which = "journal" /\ J!Next
          /\ UNCHANGED <<statisticsVars, settingsVars, labelsVars,
                        storageVars, rechecksVars>>
       \/ which = "rechecks" /\ K!Next
          /\ UNCHANGED <<statisticsVars, settingsVars, labelsVars,
                        storageVars, journalVars>>

Process ==
    /\ UNCHANGED <<which, traffic, sources, records>>
    /\ \/ which = "window" /\ V!Next
          /\ UNCHANGED <<updatesVars, deadlinesVars, tasksVars>>
       \/ which = "updates" /\ U!Next
          /\ UNCHANGED <<windowVars, deadlinesVars, tasksVars>>
       \/ which = "deadlines" /\ Y!Next
          /\ UNCHANGED <<windowVars, updatesVars, tasksVars>>
       \/ which = "tasks" /\ Q!Next
          /\ UNCHANGED <<windowVars, updatesVars, deadlinesVars>>

vars == <<which, traffic, sources, records, process>>

\* A service that has several initial states takes them when it is studied.
Init ==
    /\ which \in Services
    /\ L!Init /\ N!Init /\ G!Init /\ H!Init /\ P!Init /\ B!Init
    /\ F!Init /\ W!Init /\ R!Init /\ A!Init /\ O!Init /\ C!Init
    /\ T!Init /\ S!Init /\ E!Init /\ M!Init /\ J!Init /\ K!Init
    /\ V!Init /\ U!Init /\ Y!Init /\ Q!Init
    /\ which # "blocklist" => ~blocklistEnabled /\ blocklistLines = 0
    /\ which # "folder" => folderState = "none"
    /\ which # "storage" => storagePath = CHOOSE p \in Places \ Denied : TRUE

Next == Traffic \/ Sources \/ Records \/ Process

\* The fairness of each service: its timers fire, its pool tasks run.
Fairness ==
    /\ WF_limitsVars(which = "limits" /\ L!Tick)
    /\ WF_limitsVars(which = "limits"
               /\ \E tick, input \in 0 .. Wrap - 1 : L!CheckIdle(tick, input))
    /\ WF_profilesVars(which = "profiles" /\ N!CheckNow)
    /\ WF_profilesVars(which = "profiles" /\ N!Netsh)
    /\ WF_profilesVars(which = "profiles" /\ N!SsidReady)
    /\ WF_governorVars(which = "governor" /\ G!CheckNow)
    /\ WF_blocklistVars(which = "blocklist" /\ B!ParseFails)
    /\ WF_blocklistVars(which = "blocklist" /\ B!ParseBlock)
    /\ WF_blocklistVars(which = "blocklist" /\ B!Answer)
    /\ WF_blocklistVars(which = "blocklist" /\ B!Loaded)
    /\ \A t \in Q!Tasks :
           /\ WF_tasksVars(which = "tasks" /\ Q!Start(t))
           /\ WF_tasksVars(which = "tasks" /\ Q!Notices(t))
    /\ \A t \in Queries : WF_tasksVars(which = "tasks" /\ Q!Ends(t))
    /\ WF_tasksVars(which = "tasks" /\ (Q!ShutdownReturns \/ Q!Exit))

Spec == Init /\ [][Next]_vars /\ Fairness

-----------------------------------------------------------------------------
(* What the services promise                                               *)

TypeOK ==
    /\ which \in Services
    /\ which = "limits" => L!TypeOK
    /\ which = "profiles" => N!TypeOK
    /\ which = "governor" => G!TypeOK
    /\ which = "shares" => H!TypeOK
    /\ which = "peers" => P!TypeOK
    /\ which = "blocklist" => B!TypeOK
    /\ which = "feed" => F!TypeOK
    /\ which = "folder" => W!TypeOK
    /\ which = "rules" => R!TypeOK
    /\ which = "add" => A!TypeOK
    /\ which = "launch" => O!TypeOK
    /\ which = "remote" => C!TypeOK
    /\ which = "statistics" => T!TypeOK
    /\ which = "settings" => S!TypeOK
    /\ which = "labels" => E!TypeOK
    /\ which = "storage" => M!TypeOK
    /\ which = "journal" => J!TypeOK
    /\ which = "rechecks" => K!TypeOK
    /\ which = "window" => V!TypeOK
    /\ which = "updates" => U!TypeOK
    /\ which = "deadlines" => Y!TypeOK
    /\ which = "tasks" => Q!TypeOK

\* What is in force is what the settings, the clock and the machine call for:
\* the speed limit (bandwidth_scheduler, idle_activity_service), the services
\* held back (memory_pressure_governor), the query awaited
\* (network_profile_switcher).
InForce == L!RateIsIntended /\ G!HeldTogether /\ N!OneQuery

\* A file follows what is in memory, through debounced, failed and interrupted
\* writes: share limits, peer stores, tags.
StoresFollow == H!FileFollows /\ P!StoresFollow /\ E!TagsFollow

\* No byte is counted twice, by the statistics over restarts, removals and
\* lost commits, or by the peer reputations over reconnections.
CountedOnce == T!BytesAddUp /\ P!NoByteTwice

\* Nothing is handed over or told twice: an item of a feed, a file of the
\* watched folder, the argument of a launch, an episode of the journal.
GivenOnce ==
    /\ F!HandedOnce
    /\ W!TriedOnce /\ W!AddedOnce /\ W!PlaceTells
    /\ O!OpenedOnce
    /\ J!ToldOnce

\* Nothing goes on unchecked: no torrent before the IP filter or the scan of
\* a feed's item, no installer before its checksum, no remote request
\* without the token.
CheckedFirst ==
    B!FilteredFirst /\ F!ScannedFirst /\ U!OnlyVerified /\ C!NeverOpen

\* The algorithms give what their definition says: the first routing rule
\* that matches, the level of a total, the danger score and exclusions, the
\* pieces a player needs first, the time since the last input.
AgreesWithReference ==
    /\ which = "rules" => R!NamesUnique /\ R!FirstMatchWins
    /\ which = "statistics" => T!LevelReached
    /\ which = "stateless" => D!ScansRight /\ Y!StreamsHead /\ L!IdleMeasured

\* The last write of the settings can be undone, where what undoes it could be
\* written (settings_history, bridge_profile_security).
Undoable == S!Undoable

\* What is shown is what there is: the pages, what Start would add, where the
\* files are and whether they are locked (spike_window, bridge_downloads,
\* bridge_add, session_manager).
PageIsCurrent ==
    V!PageIsCurrent /\ A!OneChoice /\ M!PathFollows /\ M!LockTells

\* An answer that comes after what it was asked for is over changes nothing,
\* nor does a request whose token was replaced since.
LateAnswersIgnored ==
    B!NoLateResume /\ N!LateAnswerIgnored /\ C!ReplacedIsRefused

\* No reordering of the rules loses one, no finished torrent is rechecked before
\* an interval since its last recheck and since the launch, and the deadline sweep only moves what is urgent.
NothingOutOfTurn == R!NoRuleLost /\ K!Spaced /\ Y!SweepKeepsOrder

\* What is waited for comes: the blocklist, the netsh answer, the end of
\* turtle mode and of memory pressure, and of the process once it quits.
WaitsEnd ==
    /\ B!WaitEnds
    /\ N!QueryAnswered
    /\ L!TurtleEnds
    /\ G!PressureLifted
    /\ Q!QuitEnds
=============================================================================
