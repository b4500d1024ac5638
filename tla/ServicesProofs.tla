--------------------------- MODULE ServicesProofs ---------------------------
(***************************************************************************)
(* The safety promises of the services, for every value of the constants.  *)
(***************************************************************************)
EXTENDS AlgorithmProofs

-----------------------------------------------------------------------------
(* Limits                                                                  *)

LimitsInv == L!TypeOK /\ L!RateIsIntended

\* The rate in force is the intended one when the application starts.
LEMMA LimitsInit == L!Init => LimitsInv
<1> SUFFICES ASSUME L!Init PROVE LimitsInv
  OBVIOUS
<1> USE DEF L!Init
<1>1. base \in Rates
  BY LimitsAssumption
<1>2. hour \in L!Hours
  BY LimitsAssumption DEF L!Hours
<1>3. schedule \in L!Schedule
  BY <1>1, <1>2 DEF L!Schedule
<1>4. rate = L!Intended
  BY DEF L!Intended, L!CurrentLimit
<1> QED
  BY <1>1, <1>2, <1>3, <1>4 DEF LimitsInv, L!TypeOK, L!RateIsIntended

\* Whatever decides of the rate applies it, or has overruled the schedule.
LEMMA LimitsStep == LimitsInv /\ L!Next => LimitsInv'
<1> SUFFICES ASSUME LimitsInv, L!Next PROVE LimitsInv'
  OBVIOUS
<1> USE DEF LimitsInv, L!TypeOK, L!RateIsIntended, L!Intended, L!CurrentLimit,
            L!settings
<1>1. ASSUME NEW s \in L!Schedule, NEW believed, L!Evaluate(s, believed),
             base' = base, schedule' = s, UNCHANGED <<hour, turtle>>,
             idleOn' \in BOOLEAN,
             (believed = throttled /\ schedule = s) \/ believed = "unknown"
      PROVE  LimitsInv'
  <2>1. s.limit \in Rates
    BY DEF L!Schedule
  <2> QED BY <1>1, <2>1 DEF L!Evaluate
<1>2. CASE L!Tick
  BY <1>1, <1>2 DEF L!Tick
<1>3. ASSUME NEW s \in L!Schedule, NEW on \in BOOLEAN, L!SaveAutomation(s, on)
      PROVE  LimitsInv'
  BY <1>1, <1>3 DEF L!SaveAutomation
<1>4. ASSUME NEW r \in Rates, L!SaveGeneral(r) PROVE LimitsInv'
  <2>1. overruled' \in BOOLEAN
    BY <1>4 DEF L!SaveGeneral
  <2>2. overruled' \/ (overruled = FALSE /\ (turtle \/ throttled = "yes"))
    BY <1>4 DEF L!SaveGeneral
  <2>3. base' \in Rates /\ rate' \in Rates \cup {Turtle} /\ UNCHANGED <<schedule, hour, idleOn, throttled, turtle>>
    BY <1>4 DEF L!SaveGeneral
  <2>4. L!TypeOK'
    BY <2>1, <2>3
  <2>5. rate' = L!Intended' \/ overruled'
    BY <1>4, <2>2, <2>3 DEF L!SaveGeneral
  <2> HIDE DEF L!TypeOK, L!Intended
  <2> QED BY <2>4, <2>5
<1>7. ASSUME NEW r \in Rates, L!ApplyProfile(r) PROVE LimitsInv'
  <2>1. overruled' \in BOOLEAN
    BY <1>7 DEF L!ApplyProfile
  <2>2. overruled' \/ (turtle = FALSE /\ throttled # "yes")
    BY <1>7 DEF L!ApplyProfile
  <2>3. base' \in Rates /\ rate' \in Rates \cup {Turtle} /\ UNCHANGED <<schedule, hour, idleOn, throttled, turtle>>
    BY <1>7 DEF L!ApplyProfile
  <2>4. L!TypeOK'
    BY <2>1, <2>3
  <2>5. rate' = L!Intended' \/ overruled'
    BY <1>7, <2>2, <2>3 DEF L!ApplyProfile
  <2> HIDE DEF L!TypeOK, L!Intended
  <2> QED BY <2>4, <2>5
<1>5. ASSUME NEW tick, NEW input, L!CheckIdle(tick, input) PROVE LimitsInv'
  BY <1>5 DEF L!CheckIdle, L!SetTurtleMode, L!Schedule
<1>6. CASE L!Clock
  BY <1>6, LimitsAssumption DEF L!Clock, L!Hours
<1> QED BY <1>2, <1>3, <1>4, <1>5, <1>6, <1>7 DEF L!Next

-----------------------------------------------------------------------------
(* NetworkProfiles                                                         *)

ProfilesInv == N!TypeOK /\ N!OneQuery

\* No query is out when the application starts.
LEMMA ProfilesInit == N!Init => ProfilesInv
<1> SUFFICES ASSUME N!Init PROVE ProfilesInv
  OBVIOUS
<1>1. {profilesSettings, applied} \subseteq Contents
  BY ProfilesAssumption DEF N!Init
<1> QED
  BY <1>1 DEF N!Init, ProfilesInv, N!TypeOK, N!OneQuery

\* A query starts with none out, and ends in the handler of its answer.
LEMMA ProfilesStep == ProfilesInv /\ N!Next => ProfilesInv'
<1> SUFFICES ASSUME ProfilesInv, N!Next PROVE ProfilesInv'
  OBVIOUS
<1> USE DEF ProfilesInv, N!TypeOK, N!OneQuery, N!stores, N!asked
<1>1. ASSUME NEW n \in Profiles, N!ApplyProfile(n) PROVE ProfilesInv'
  BY <1>1 DEF N!ApplyProfile, N!ApplyContent
<1>2. ASSUME NEW n \in Profiles, N!SaveFromSettings(n) PROVE ProfilesInv'
  BY <1>2 DEF N!SaveFromSettings
<1>3. ASSUME NEW n \in Profiles, N!DeleteProfile(n) PROVE ProfilesInv'
  BY <1>3 DEF N!DeleteProfile
<1>4. ASSUME NEW c \in Contents, N!SaveGeneral(c) PROVE ProfilesInv'
  BY <1>4 DEF N!SaveGeneral
<1>5. ASSUME NEW s \in Ssids, N!DeleteAssociation(s) PROVE ProfilesInv'
  BY <1>5 DEF N!DeleteAssociation
<1>6. ASSUME NEW s \in Ssids, NEW n \in Profiles, N!SaveAssociation(s, n)
      PROVE  ProfilesInv'
  BY <1>6 DEF N!SaveAssociation
<1>7. ASSUME NEW on \in BOOLEAN, N!SetSwitchEnabled(on) PROVE ProfilesInv'
  BY <1>7 DEF N!SetSwitchEnabled
<1>8. CASE N!CheckNow
  BY <1>8 DEF N!CheckNow
<1>9. CASE N!Netsh
  BY <1>9 DEF N!Netsh
<1>10. CASE N!SsidReady
  <2> DEFINE found == IF N!Heeded /\ links[answer] # Nothing
                      THEN profileList[links[answer]] ELSE Nothing
  <2>1. found \in Contents \cup {Nothing}
    BY DEF N!Heeded
  <2>2. {profilesSettings', applied'} \subseteq Contents
    BY <1>10, <2>1 DEF N!SsidReady, N!ApplyContent
  <2>3. lastSsid' \in Ssids \cup {NoSsid}
    BY <1>10 DEF N!SsidReady
  <2> QED BY <1>10, <2>2, <2>3 DEF N!SsidReady
<1>11. CASE N!Roam
  BY <1>11 DEF N!Roam
<1> QED
  BY <1>1, <1>2, <1>3, <1>4, <1>5, <1>6, <1>7, <1>8, <1>9, <1>10, <1>11
  DEF N!Next

-----------------------------------------------------------------------------
(* Governor                                                                *)

GovernorInv == G!TypeOK /\ G!HeldTogether

\* Nothing is held back when the application starts.
LEMMA GovernorInit == G!Init => GovernorInv
<1> SUFFICES ASSUME G!Init PROVE GovernorInv
  OBVIOUS
<1>1. {maxActive, slots} \subseteq 1 .. MaxActive
  BY GovernorAssumption DEF G!Init
<1>2. governorRows \in [OneTorrent -> 0 .. MaxRows]
  BY GovernorAssumption DEF G!Init
<1> QED
  BY <1>1, <1>2 DEF G!Init, GovernorInv, G!TypeOK, G!HeldTogether

\* The governor holds the services back, and lets them go, in one step.
LEMMA GovernorStep == GovernorInv /\ G!Next => GovernorInv'
<1> SUFFICES ASSUME GovernorInv, G!Next PROVE GovernorInv'
  OBVIOUS
<1> USE DEF GovernorInv, G!TypeOK, G!HeldTogether, G!governor, G!history,
            G!SetPaused, G!SetMaxActiveDownloads
<1>1. CASE G!CheckNow
  <2>1. (IF maxActive \div 2 = 0 THEN 1 ELSE maxActive \div 2) \in 1 .. MaxActive
    BY GovernorAssumption
  <2>2. CASE G!ApplyPressure
    BY <1>1, <2>1, <2>2 DEF G!CheckNow, G!ApplyPressure
  <2>3. CASE G!RestoreAll
    BY <1>1, <2>3 DEF G!CheckNow, G!RestoreAll
  <2> QED BY <1>1, <2>2, <2>3 DEF G!CheckNow
<1>2. CASE G!SaveSettings
  BY <1>2 DEF G!SaveSettings
<1>3. CASE G!Memory
  BY <1>3 DEF G!Memory
<1>4. CASE G!Relaunch
  BY <1>4 DEF G!Relaunch
<1>5. ASSUME NEW t \in OneTorrent, G!Add(t) PROVE GovernorInv'
  BY <1>5 DEF G!Add
<1>6. ASSUME NEW t \in OneTorrent, G!StatusUpdated(t) PROVE GovernorInv'
  BY <1>6 DEF G!StatusUpdated
<1>7. ASSUME NEW t \in OneTorrent, G!TorrentRemoved(t) PROVE GovernorInv'
  <2>1. governorRows' \in [OneTorrent -> 0 .. MaxRows]
    BY <1>7, GovernorAssumption DEF G!TorrentRemoved
  <2>2. missed' \in [OneTorrent -> 0 .. MaxRows]
    BY <1>7, GovernorAssumption DEF G!TorrentRemoved
  <2> QED BY <1>7, <2>1, <2>2 DEF G!TorrentRemoved
<1> QED
  BY <1>1, <1>2, <1>3, <1>4, <1>5, <1>6, <1>7 DEF G!Next

-----------------------------------------------------------------------------
(* ShareLimits                                                             *)

SharesInv == H!TypeOK /\ H!FileFollows

\* The file agrees with memory when the application starts.
LEMMA SharesInit == H!Init => SharesInv
BY DEF H!Init, SharesInv, H!TypeOK, H!FileFollows, H!Limits

\* A change starts the timer, and only a write that fails leaves the file
\* behind without it.
LEMMA SharesStep == SharesInv /\ H!Next => SharesInv'
<1> SUFFICES ASSUME SharesInv, H!Next PROVE SharesInv'
  OBVIOUS
<1> USE DEF SharesInv, H!TypeOK, H!FileFollows, H!Limits, H!ScheduleSave,
            H!Alive
<1>1. ASSUME NEW h \in Torrents, H!Track(h) \/ H!Reached(h) \/ H!Untrack(h)
      PROVE  SharesInv'
  BY <1>1 DEF H!Track, H!Reached, H!Untrack
<1>2. CASE H!SaveTimer
  BY <1>2 DEF H!SaveTimer, H!Save
<1>3. CASE H!Quit
  BY <1>3 DEF H!Quit, H!Save
<1>4. CASE H!End
  BY <1>4 DEF H!End
<1>5. CASE H!Launch
  BY <1>5 DEF H!Launch
<1> QED
  BY <1>1, <1>2, <1>3, <1>4, <1>5 DEF H!Next

-----------------------------------------------------------------------------
(* PeerStores                                                              *)

PeersKept ==
    \A p \in Peers :
        /\ peersActive[p] # P!Nil => peersRecord[p] + peersActive[p] <= received[p]
        /\ link[p] # P!Nil => peersRecord[p] + link[p] <= received[p]
        /\ recordFile[p] <= peersRecord[p]

PeersInv == P!TypeOK /\ P!NoByteTwice /\ P!StoresFollow /\ PeersKept

\* The cache without the entries of before day n, as Purged gives it today.
Since(c, n) == [p \in Private |-> IF c[p] < n - MaxAge THEN P!Nil ELSE c[p]]

\* What is purged today and agrees still does tomorrow: it only loses more.
LEMMA SinceAgree ==
    ASSUME NEW c \in [Private -> Int], NEW d \in [Private -> Int], NEW n \in Int,
           Since(c, n) = Since(d, n)
    PROVE  Since(c, n + 1) = Since(d, n + 1)
<1> SUFFICES ASSUME NEW p \in Private PROVE Since(c, n + 1)[p] = Since(d, n + 1)[p]
  BY DEF Since
<1>1. Since(c, n)[p] = Since(d, n)[p]
  OBVIOUS
<1> QED BY <1>1, PeersAssumption DEF Since, P!Nil

\* Purging twice is purging once.
LEMMA SinceTwice ==
    ASSUME NEW c \in [Private -> Int], NEW n \in Int
    PROVE  Since(Since(c, n), n) = Since(c, n)
BY PeersAssumption DEF Since, P!Nil

\* What is purged is a cache still.
LEMMA SinceType ==
    ASSUME NEW c \in [Private -> P!Nil .. MaxNow], NEW n \in Int
    PROVE  Since(c, n) \in [Private -> P!Nil .. MaxNow]
BY PeersAssumption DEF Since, P!Nil

\* The stores are empty, in memory and in their files, before the first peer.
LEMMA PeersInit == P!Init => PeersInv
<1> SUFFICES ASSUME P!Init PROVE PeersInv
  OBVIOUS
<1>1. P!Nil \in P!Nil .. MaxBytes /\ P!Nil \in P!Nil .. MaxNow
      /\ 0 \in 0 .. MaxBytes /\ 0 \in 0 .. MaxNow
  BY PeersAssumption DEF P!Nil
<1>2. P!TypeOK
  BY <1>1 DEF P!Init, P!TypeOK
<1> QED
  BY <1>2 DEF P!Init, PeersInv, PeersKept, P!NoByteTwice, P!StoresFollow, P!Nil

\* What the entries of the cache must be for the store to follow.
LEMMA PurgedIsSince ==
    ASSUME NEW c PROVE P!Purged(c) = Since(c, peersNow)
BY DEF P!Purged, Since

\* Observing folds the bytes of a connection that is over, once.
LEMMA PeersObserve ==
    ASSUME PeersInv, NEW ok \in BOOLEAN, P!Observe(ok), UNCHANGED P!network
    PROVE  /\ peersRecord' \in [Peers -> 0 .. MaxBytes]
           /\ peersActive' = link
           /\ recordFile' \in [Peers -> 0 .. MaxBytes]
           /\ {recordDirty', recordFresh'} \subseteq BOOLEAN
           /\ recordFile' = peersRecord' \/ recordDirty'
           /\ P!NoByteTwice' /\ PeersKept'
<1> DEFINE gone == {p \in Peers : peersActive[p] # P!Nil /\ link[p] = P!Nil}
           folded == [p \in Peers |-> IF p \in gone
                                      THEN peersRecord[p] + peersActive[p]
                                      ELSE peersRecord[p]]
           dirty == recordDirty \/ gone # {}
<1> USE PeersAssumption DEF PeersInv, P!TypeOK, P!Nil
<1>1. peersRecord' = folded /\ peersActive' = link
  BY DEF P!Observe
<1>2. ASSUME NEW p \in Peers
      PROVE  /\ folded[p] \in 0 .. MaxBytes
             /\ folded[p] <= received[p]
             /\ peersRecord[p] <= folded[p]
             /\ link[p] # P!Nil => folded[p] + link[p] <= received[p]
  BY <1>2 DEF PeersKept, P!NoByteTwice
<1>3. folded \in [Peers -> 0 .. MaxBytes]
  BY <1>2
<1>4. \/ /\ recordFile' = folded /\ recordDirty' = FALSE /\ recordFresh' = TRUE
      \/ /\ recordFile' = recordFile /\ recordFresh' = recordFresh
         /\ recordDirty' = TRUE
      \/ /\ recordFile' = recordFile /\ recordFresh' = recordFresh
         /\ recordDirty' = dirty
  BY DEF P!Observe, P!SaveRecords
<1>5. ~dirty => folded = peersRecord /\ recordFile = peersRecord
  <2> SUFFICES ASSUME ~dirty PROVE folded = peersRecord /\ recordFile = peersRecord
    OBVIOUS
  <2>1. \A p \in Peers : folded[p] = peersRecord[p]
    OBVIOUS
  <2> QED BY <2>1 DEF P!StoresFollow
<1>6. dirty \in BOOLEAN
  OBVIOUS
<1>7. received' = received /\ link' = link
  BY DEF P!network
<1> HIDE DEF folded, dirty, gone
<1>8. recordFile' = peersRecord' \/ recordDirty'
  BY <1>1, <1>4, <1>5, <1>6
<1>9. recordFile' \in [Peers -> 0 .. MaxBytes] /\ {recordDirty', recordFresh'} \subseteq BOOLEAN
  BY <1>3, <1>4, <1>6
<1>10. \A p \in Peers : recordFile'[p] <= folded[p]
  BY <1>2, <1>3, <1>4 DEF PeersKept
<1>11. P!NoByteTwice'
  BY <1>1, <1>2, <1>7 DEF P!NoByteTwice
<1>12. PeersKept'
  BY <1>1, <1>2, <1>7, <1>10 DEF PeersKept
<1> QED BY <1>1, <1>3, <1>8, <1>9, <1>11, <1>12

\* The cache follows a connected peer, or the write that failed is known.
LEMMA PeersRecord ==
    ASSUME PeersInv, NEW ok \in BOOLEAN, P!RecordPeers(ok), UNCHANGED P!network
    PROVE  /\ {cache', cacheFile'} \subseteq [Private -> P!Nil .. MaxNow]
           /\ {cacheDirty', cacheFresh', peersFailed'} \subseteq BOOLEAN
           /\ cacheDirty' \/ peersFailed' \/ (P!Purged(cacheFile) = P!Purged(cache))'
<1> DEFINE reached == {p \in Private : link[p] # P!Nil}
           looked == [p \in Private |-> IF p \in reached THEN peersNow ELSE cache[p]]
           c == P!Purged(looked)
<1> USE DEF PeersInv, P!TypeOK
<1>1. c \in [Private -> P!Nil .. MaxNow]
  <2>1. looked \in [Private -> P!Nil .. MaxNow] /\ peersNow \in Int
    BY PeersAssumption DEF P!Nil
  <2>2. c = Since(looked, peersNow)
    BY PurgedIsSince
  <2> HIDE DEF looked, c
  <2> QED BY <2>1, <2>2, SinceType
<1>2. CASE reached = {}
  BY <1>2 DEF P!RecordPeers, P!lan, P!StoresFollow, P!network, P!Purged
<1>3. CASE reached # {}
  <2>1. /\ cache' = c
        /\ IF cacheFresh
           THEN cacheDirty' = TRUE /\ UNCHANGED <<cacheFile, cacheFresh, peersFailed>>
           ELSE P!SaveCache(c, ok) /\ cacheFresh' = ok
    BY <1>3 DEF P!RecordPeers
  <2> HIDE DEF c
  <2> QED BY <1>1, <2>1 DEF P!SaveCache
<1> QED BY <1>2, <1>3

\* No byte of a peer is folded twice, and the files of both stores follow.
LEMMA PeersStep == PeersInv /\ P!Next => PeersInv'
<1> SUFFICES ASSUME PeersInv, P!Next PROVE PeersInv'
  OBVIOUS
<1> USE PeersAssumption
<1>1. ASSUME NEW p \in Peers, P!Connect(p) \/ P!Receive(p) PROVE PeersInv'
  <2>1. /\ link' \in [Peers -> P!Nil .. MaxBytes]
        /\ received' \in [Peers -> 0 .. MaxBytes]
        /\ \A q \in Peers :
              /\ received[q] <= received'[q]
              /\ link'[q] # P!Nil => peersRecord[q] + link'[q] <= received'[q]
    BY <1>1 DEF P!Connect, P!Receive, PeersInv, P!TypeOK, PeersKept, P!NoByteTwice, P!Nil
  <2>2. UNCHANGED <<peersNow, P!reputation, P!lan>>
    BY <1>1 DEF P!Connect, P!Receive
  <2>3. P!TypeOK'
    BY <2>1, <2>2 DEF PeersInv, P!TypeOK, P!reputation, P!lan
  <2>4. P!NoByteTwice' /\ PeersKept'
    BY <2>1, <2>2 DEF PeersInv, P!TypeOK, PeersKept, P!NoByteTwice, P!reputation, P!Nil
  <2>5. P!StoresFollow'
    BY <2>2 DEF PeersInv, P!StoresFollow, P!reputation, P!lan, P!Purged
  <2> QED BY <2>3, <2>4, <2>5 DEF PeersInv
<1>2. CASE P!Time
  <2>1. peersNow' \in 0 .. MaxNow /\ peersNow' \in {peersNow, peersNow + 1}
    BY <1>2 DEF P!Time, PeersInv, P!TypeOK
  <2>2. P!TypeOK'
    BY <1>2, <2>1 DEF P!Time, PeersInv, P!TypeOK
  <2>3. P!NoByteTwice' /\ PeersKept'
    BY <1>2 DEF P!Time, PeersInv, PeersKept, P!NoByteTwice
  <2>4. Since(cacheFile, peersNow) = Since(cache, peersNow)
        => Since(cacheFile, peersNow') = Since(cache, peersNow')
    <3>1. cache \in [Private -> Int] /\ cacheFile \in [Private -> Int] /\ peersNow \in Int
      BY DEF PeersInv, P!TypeOK, P!Nil
    <3> QED BY <2>1, <3>1, SinceAgree
  <2>5. P!StoresFollow'
    BY <1>2, <2>4 DEF P!Time, PeersInv, P!StoresFollow, P!Purged, Since
  <2> QED BY <2>2, <2>3, <2>5 DEF PeersInv
<1>3. ASSUME NEW observed \in BOOLEAN, NEW recorded \in BOOLEAN,
             NEW ok1 \in BOOLEAN, NEW ok2 \in BOOLEAN,
             P!GetPeerInfo(observed, recorded, ok1, ok2)
      PROVE  PeersInv'
  <2>1. /\ peersRecord' \in [Peers -> 0 .. MaxBytes]
        /\ peersActive' \in [Peers -> P!Nil .. MaxBytes]
        /\ recordFile' \in [Peers -> 0 .. MaxBytes]
        /\ {recordDirty', recordFresh'} \subseteq BOOLEAN
        /\ recordFile' = peersRecord' \/ recordDirty'
        /\ P!NoByteTwice' /\ PeersKept'
    <3>1. CASE observed
      <4>1. P!Observe(ok1) /\ UNCHANGED P!network
        BY <1>3, <3>1 DEF P!GetPeerInfo
      <4> QED BY <4>1, PeersObserve DEF PeersInv, P!TypeOK
    <3>2. CASE ~observed
      <4>1. UNCHANGED <<P!network, P!reputation>>
        BY <1>3, <3>2 DEF P!GetPeerInfo
      <4> QED BY <4>1 DEF PeersInv, P!TypeOK, PeersKept, P!NoByteTwice,
                          P!StoresFollow, P!network, P!reputation
    <3> QED BY <3>1, <3>2
  <2>2. /\ {cache', cacheFile'} \subseteq [Private -> P!Nil .. MaxNow]
        /\ {cacheDirty', cacheFresh', peersFailed'} \subseteq BOOLEAN
        /\ cacheDirty' \/ peersFailed' \/ (P!Purged(cacheFile) = P!Purged(cache))'
    <3>1. CASE recorded /\ ok1
      <4>1. P!RecordPeers(ok2) /\ UNCHANGED P!network
        BY <1>3, <3>1 DEF P!GetPeerInfo
      <4> QED BY <4>1, PeersRecord
    <3>2. CASE ~(recorded /\ ok1)
      <4>1. UNCHANGED <<P!network, P!lan>>
        BY <1>3, <3>2 DEF P!GetPeerInfo
      <4> QED BY <4>1 DEF PeersInv, P!TypeOK, P!StoresFollow, P!network, P!lan,
                          P!Purged
    <3> QED BY <3>1, <3>2
  <2>3. UNCHANGED <<link, received, peersNow>>
    BY <1>3 DEF P!GetPeerInfo, P!network
  <2>4. P!TypeOK'
    BY <2>1, <2>2, <2>3 DEF PeersInv, P!TypeOK
  <2>5. P!StoresFollow'
    BY <2>1, <2>2 DEF P!StoresFollow
  <2> QED BY <2>1, <2>4, <2>5 DEF PeersInv
<1>4. CASE P!Reconnect
  <2>1. cache' = Since(cache, peersNow) /\ UNCHANGED <<cacheFile, cacheDirty, peersFailed, peersNow>>
    BY <1>4 DEF P!Reconnect, P!Purged, Since
  <2>2. cache \in [Private -> P!Nil .. MaxNow] /\ cache \in [Private -> Int]
        /\ peersNow \in Int
    BY DEF PeersInv, P!TypeOK, P!Nil
  <2>3. cache' \in [Private -> P!Nil .. MaxNow]
    BY <2>1, <2>2, SinceType
  <2>4. /\ link' \in [Peers -> P!Nil .. MaxBytes]
        /\ \A q \in Peers : link'[q] # P!Nil => link'[q] \in {0, link[q]}
        /\ \A q \in Peers : link[q] = P!Nil \/ link'[q] = link[q]
    BY <1>4 DEF P!Reconnect, PeersInv, P!TypeOK, P!Nil
  <2>5. UNCHANGED <<received, P!reputation, cacheFresh>>
    BY <1>4 DEF P!Reconnect
  <2>6. P!TypeOK'
    BY <2>1, <2>3, <2>4, <2>5 DEF PeersInv, P!TypeOK, P!reputation
  <2>7. P!NoByteTwice' /\ PeersKept'
    BY <2>4, <2>5 DEF PeersInv, P!TypeOK, PeersKept, P!NoByteTwice, P!reputation, P!Nil
  <2>8. Since(cache', peersNow) = Since(cache, peersNow)
    BY <2>1, <2>2, SinceTwice
  <2>9. P!StoresFollow'
    BY <2>1, <2>5, <2>8 DEF PeersInv, P!StoresFollow, P!reputation, P!Purged, Since
  <2> QED BY <2>6, <2>7, <2>9 DEF PeersInv
<1>5. ASSUME NEW flushed \in BOOLEAN, P!Relaunch(flushed) PROVE PeersInv'
  <2>1. PICK r \in [Peers -> 0 .. MaxBytes], c \in [Private -> P!Nil .. MaxNow] :
             /\ peersRecord' = r /\ recordFile' = r
             /\ cache' = Since(c, peersNow) /\ cacheFile' = c
             /\ r \in {peersRecord, recordFile}
    BY <1>5 DEF P!Relaunch, PeersInv, P!TypeOK, P!Purged, Since
  <2>2. /\ link' = [p \in Peers |-> P!Nil] /\ peersActive' = link'
        /\ recordDirty' = FALSE /\ recordFresh' = FALSE /\ cacheDirty' = FALSE
        /\ cacheFresh' = FALSE /\ peersFailed' = FALSE
        /\ UNCHANGED <<received, peersNow>>
    BY <1>5 DEF P!Relaunch
  <2>3. c \in [Private -> Int] /\ peersNow \in Int
    BY DEF PeersInv, P!TypeOK, P!Nil
  <2>4. cache' \in [Private -> P!Nil .. MaxNow]
    BY <2>1, <2>3, SinceType
  <2>10. link' \in [Peers -> P!Nil .. MaxBytes]
    BY <2>2 DEF P!Nil
  <2>5. P!TypeOK'
    BY <2>1, <2>2, <2>4, <2>10 DEF PeersInv, P!TypeOK
  <2>6. \A q \in Peers : r[q] <= received[q]
    BY <2>1 DEF PeersInv, P!TypeOK, PeersKept, P!NoByteTwice
  <2>7. P!NoByteTwice' /\ PeersKept'
    BY <2>1, <2>2, <2>6 DEF PeersKept, P!NoByteTwice
  <2>8. Since(Since(c, peersNow), peersNow) = Since(c, peersNow)
    BY <2>3, SinceTwice
  <2>9. P!StoresFollow'
    BY <2>1, <2>2, <2>8 DEF P!StoresFollow, P!Purged, Since
  <2> QED BY <2>5, <2>7, <2>9 DEF PeersInv
<1> QED BY <1>1, <1>2, <1>3, <1>4, <1>5 DEF P!Next

-----------------------------------------------------------------------------
(* Labels                                                                  *)

LabelsKept ==
    /\ up => \A t \in Torrents : /\ tags[t] = given[t]
                                 /\ t \notin labelsLive \cup labelsResume => tags[t] = {}
    /\ ~up => \A t \in labelsResume : tags[t] = given[t]

LabelsInv == E!TypeOK /\ LabelsKept

\* No torrent is tagged before the first one is added.
LEMMA LabelsInit == E!Init => LabelsInv
BY DEF E!Init, LabelsInv, E!TypeOK, LabelsKept

\* The tags on file are those the user left, for as long as the torrent is.
LEMMA LabelsStep == LabelsInv /\ E!Next => LabelsInv'
<1> SUFFICES ASSUME LabelsInv, E!Next PROVE LabelsInv'
  OBVIOUS
<1> USE DEF LabelsInv, LabelsKept, E!TypeOK, E!Without, E!Cleared
<1>1. ASSUME NEW t \in Torrents, E!Add(t) PROVE LabelsInv'
  BY <1>1 DEF E!Add
<1>2. ASSUME NEW t \in Torrents, E!SaveResume(t) PROVE LabelsInv'
  BY <1>2 DEF E!SaveResume
<1>3. ASSUME NEW t \in Torrents, E!Removed(t) PROVE LabelsInv'
  BY <1>3 DEF E!Removed
<1>4. ASSUME NEW t \in Torrents, E!DiesRemoving(t) PROVE LabelsInv'
  <2>1. PICK done \in 0 .. 2 : E!Cleared(t, done)
    BY <1>4 DEF E!DiesRemoving
  <2>2. labelsResume' \subseteq labelsResume /\ tags' = tags
    BY <2>1
  <2>3. labelsStored' \in [Torrents -> Categories \cup {None}]
    BY <2>1
  <2>4. given' \in [Torrents -> SUBSET Tags]
        /\ \A u \in labelsResume' : given'[u] = given[u]
    BY <2>1
  <2> QED BY <1>4, <2>2, <2>3, <2>4 DEF E!DiesRemoving
<1>5. ASSUME NEW t \in Torrents, NEW g \in Tags, E!AddTag(t, g) PROVE LabelsInv'
  BY <1>5 DEF E!AddTag
<1>6. ASSUME NEW t \in Torrents, NEW g \in Tags, E!RemoveTag(t, g) PROVE LabelsInv'
  BY <1>6 DEF E!RemoveTag
<1>7. ASSUME NEW t \in Torrents, NEW c \in Categories \cup {None},
             E!SetTorrentCategory(t, c)
      PROVE  LabelsInv'
  BY <1>7 DEF E!SetTorrentCategory
<1>8. CASE E!Exit
  BY <1>8 DEF E!Exit
<1>9. CASE E!Launch
  BY <1>9 DEF E!Launch, E!DropOrphans
<1> QED
  BY <1>1, <1>2, <1>3, <1>4, <1>5, <1>6, <1>7, <1>8, <1>9 DEF E!Next

-----------------------------------------------------------------------------
(* Statistics                                                              *)

\* What the invariant says of the counter and of one copy of the store, the
\* one in use or the one that is surely on the disk.
CopyKept(copy) ==
    /\ copy.total <= real /\ copy.total + counter - copy.count <= real
    /\ exact /\ statisticsLive =>
          copy.total + counter - copy.count = real /\ copy.count <= counter

StatisticsKept ==
    /\ lastSeen \in {T!NoCount, db.count}
    /\ statisticsResume <= counter /\ counter <= real
    /\ ~statisticsLive => /\ counter = 0 /\ current = T!NoCount /\ lastSeen = T!NoCount
                          /\ exact => db.total = real
                          /\ exact /\ db.count = 0 => durable.total = real /\ durable.count = 0
    /\ CopyKept(db) /\ CopyKept(durable)
    /\ current # T!NoCount =>
          /\ current <= counter /\ db.total + counter - current <= real
          /\ exact => db.count <= current

StatisticsInv == T!TypeOK /\ StatisticsKept

\* The amount of a commit: what was transferred since, and never less than 0.
LEMMA Counted ==
    ASSUME NEW x \in Int
    PROVE  T!Max({0, x}) = IF x > 0 THEN x ELSE 0
BY DEF T!Max

\* No byte, and no count at all, are within the bounds of a counter.
LEMMA CountBounds == 0 \in 0 .. MaxReal /\ {0, T!NoCount} \subseteq T!NoCount .. MaxReal
BY StatisticsAssumption DEF T!NoCount

\* Nothing is transferred, counted or saved when the application starts.
LEMMA StatisticsInit == T!Init => StatisticsInv
<1> SUFFICES ASSUME T!Init PROVE StatisticsInv
  OBVIOUS
<1>1. db = durable /\ db \in [total : Nat, count : Nat] /\ db.total = 0 /\ db.count = 0
  BY DEF T!Init
<1>2. T!TypeOK
  BY <1>1, CountBounds DEF T!Init, T!TypeOK
<1>3. CopyKept(db) /\ CopyKept(durable)
  BY <1>1 DEF T!Init, CopyKept
<1> QED
  BY <1>1, <1>2, <1>3 DEF T!Init, StatisticsInv, StatisticsKept

\* A commit adds what the counter gained since the last one, or less.
LEMMA StatisticsCommit ==
    ASSUME StatisticsInv, current # T!NoCount, T!Commit(current)
    PROVE  /\ db' \in [total : Nat, count : Nat] /\ durable' = db
           /\ db'.count = current
           /\ db'.total = db.total + IF current > db.count THEN current - db.count ELSE 0
<1>1. T!LastSeen = db.count /\ current \in Nat /\ db.count \in Nat /\ db.total \in Nat
  BY StatisticsAssumption DEF StatisticsInv, T!TypeOK, StatisticsKept, T!LastSeen, T!NoCount
<1>2. T!Max({0, current - db.count}) = IF current > db.count THEN current - db.count ELSE 0
  BY <1>1, Counted
<1>3. /\ db' = [total |-> db.total + T!Max({0, current - db.count}), count |-> current]
      /\ durable' = db
  BY <1>1 DEF T!Commit
<1> QED BY <1>1, <1>2, <1>3

\* A byte is counted when the counter passes it, once, and none is missed
\* that the counter has not lost.
LEMMA StatisticsStep == StatisticsInv /\ T!Next => StatisticsInv'
<1> SUFFICES ASSUME StatisticsInv, T!Next PROVE StatisticsInv'
  OBVIOUS
<1>1. /\ db \in [total : Nat, count : Nat] /\ db.total \in Nat /\ db.count \in Nat
      /\ durable \in [total : Nat, count : Nat] /\ durable.total \in Nat /\ durable.count \in Nat
  BY DEF StatisticsInv, T!TypeOK
<1> USE StatisticsAssumption
    DEF StatisticsInv, T!TypeOK, StatisticsKept, CopyKept, T!NoCount
<1>2. CASE T!Flush
  <2>1. CASE current \in {T!NoCount, T!LastSeen}
    BY <1>1, <1>2, <2>1 DEF T!Flush, T!LastSeen
  <2>2. CASE current \notin {T!NoCount, T!LastSeen}
    <3>1. T!Commit(current) /\ lastSeen' = current
      BY <1>2, <2>2 DEF T!Flush
    <3>2. current # T!NoCount /\ UNCHANGED <<statisticsLive, counter, statisticsResume, current, real, exact>>
      BY <1>2, <2>2 DEF T!Flush
    <3>3. /\ db' \in [total : Nat, count : Nat] /\ durable' = db
          /\ db'.count = current
          /\ db'.total = db.total + IF current > db.count THEN current - db.count ELSE 0
      BY <3>1, <3>2, StatisticsCommit
    <3>4. T!TypeOK'
      BY <3>1, <3>2, <3>3
    <3>5. CopyKept(db)' /\ CopyKept(durable)'
      BY <1>1, <3>2, <3>3
    <3> QED BY <1>1, <3>1, <3>2, <3>3, <3>4, <3>5
  <2> QED BY <2>1, <2>2
<1>3. CASE T!StatusUpdated
  BY <1>1, <1>3 DEF T!StatusUpdated
<1>4. CASE T!TorrentRemoved
  <2>1. /\ statisticsLive /\ statisticsLive' = FALSE /\ counter' = 0 /\ statisticsResume' = 0
        /\ current' = T!NoCount /\ lastSeen' = T!NoCount /\ real' = real
        /\ exact' \in BOOLEAN
        /\ exact' => exact /\ counter = IF current = T!NoCount THEN db.count ELSE current
    BY <1>4 DEF T!TorrentRemoved, T!LastSeen
  <2>2. /\ db' \in [total : Nat, count : Nat] /\ durable' \in [total : Nat, count : Nat]
        /\ db'.total <= real /\ durable'.total <= real
        /\ durable'.total - durable'.count <= real
        /\ exact' => db'.total = real
        /\ exact' /\ db'.count = 0 => durable'.total = real /\ durable'.count = 0
    <3>1. CASE current = T!NoCount
      BY <1>1, <1>4, <2>1, <3>1 DEF T!TorrentRemoved
    <3>2. CASE current # T!NoCount
      <4>1. T!Commit(current)
        BY <1>4, <3>2 DEF T!TorrentRemoved
      <4>2. /\ db' \in [total : Nat, count : Nat] /\ durable' = db
            /\ db'.count = current
            /\ db'.total = db.total + IF current > db.count THEN current - db.count ELSE 0
        BY <3>2, <4>1, StatisticsCommit
      <4> QED BY <1>1, <2>1, <3>2, <4>2
    <3> QED BY <3>1, <3>2
  <2>5. real \in 0 .. MaxReal
    OBVIOUS
  <2>3. T!TypeOK'
    <3> USE CountBounds
    <3> HIDE DEF StatisticsInv, StatisticsKept, CopyKept, T!NoCount
    <3> QED BY <2>1, <2>2, <2>5
  <2>4. CopyKept(db)' /\ CopyKept(durable)'
    BY <2>1, <2>2
  <2> QED BY <2>1, <2>2, <2>3, <2>4
<1>5. CASE T!Add
  BY <1>1, <1>5 DEF T!Add
<1>6. CASE T!Transfer
  BY <1>1, <1>6 DEF T!Transfer
<1>7. CASE T!SaveResume
  BY <1>1, <1>7 DEF T!SaveResume
<1>8. CASE T!Relaunch
  <2>1. /\ current' = T!NoCount /\ lastSeen' = T!NoCount
        /\ counter' = statisticsResume /\ durable' = db' /\ db' \in {db, durable}
        /\ UNCHANGED <<statisticsLive, statisticsResume, real>>
        /\ exact' \in BOOLEAN
        /\ exact' => exact /\ statisticsResume = counter /\ (statisticsLive \/ db' = db)
    BY <1>8 DEF T!Relaunch
  <2>2. T!TypeOK'
    BY <1>1, <2>1, CountBounds
  <2>3. CopyKept(db)'
    BY <1>1, <2>1
  <2>4. CopyKept(durable)'
    BY <2>1, <2>3
  <2> QED BY <1>1, <2>1, <2>2, <2>3, <2>4
<1> QED
  BY <1>2, <1>3, <1>4, <1>5, <1>6, <1>7, <1>8 DEF T!Next

-----------------------------------------------------------------------------
(* RssFeed                                                                 *)

FeedKept == \A i \in Items : handed[i] > 0 => i \in feedSeen

FeedInv == F!TypeOK /\ F!HandedOnce /\ F!ScannedFirst /\ FeedKept

\* Nothing is seen or handed over before the feed is subscribed to.
LEMMA FeedInit == F!Init => FeedInv
<1> SUFFICES ASSUME F!Init PROVE FeedInv
  OBVIOUS
<1>1. handed \in [Items -> Nat] /\ 0 \in 0 .. MaxChecks
  BY FeedAssumption DEF F!Init
<1>2. feedTorrents \in [Items -> {"none", "awaiting", "started"}]
  BY DEF F!Init
<1>3. F!TypeOK
  BY <1>1, <1>2 DEF F!Init, F!TypeOK
<1>4. F!HandedOnce /\ F!ScannedFirst /\ FeedKept
  BY DEF F!Init, F!HandedOnce, F!ScannedFirst, FeedKept
<1> QED
  BY <1>3, <1>4 DEF FeedInv

\* What is handed over is marked in the same step, and what is marked is
\* never a candidate again.
LEMMA FeedStep == FeedInv /\ F!Next => FeedInv'
<1> SUFFICES ASSUME FeedInv, F!Next PROVE FeedInv'
  OBVIOUS
<1> USE FeedAssumption
    DEF FeedInv, F!TypeOK, F!HandedOnce, F!ScannedFirst, FeedKept, F!feed, F!session
<1>1. ASSUME NEW on \in {"on", "off"}, NEW latestOnly \in BOOLEAN, F!EditFeed(on, latestOnly)
      PROVE  FeedInv'
  BY <1>1 DEF F!EditFeed
<1>2. ASSUME NEW on \in BOOLEAN, F!SetPaused(on) PROVE FeedInv'
  BY <1>2 DEF F!SetPaused
<1>3. CASE F!CheckNow \/ F!FetchFails
  BY <1>3 DEF F!CheckNow, F!FetchFails
<1>4. CASE F!Restart
  <2>1. PICK gone \in SUBSET Items :
             /\ feedTorrents' = [i \in Items |-> IF i \in gone THEN "none" ELSE feedTorrents[i]]
             /\ metadata' = metadata \ gone /\ scanned' = scanned \ gone
    BY <1>4 DEF F!Restart
  <2>2. feedTorrents' \in [Items -> {"none", "awaiting", "started"}]
    BY <2>1
  <2>3. /\ checks' = 0 /\ feedPaused' = FALSE
        /\ jobs' = {} /\ feedFiles' = {} /\ scans' = {}
    BY <1>4 DEF F!Restart
  <2>5. UNCHANGED <<subscription, latest, feedSeen, handed>>
    BY <1>4 DEF F!Restart
  <2>4. F!TypeOK'
    <3>1. checks' \in 0 .. MaxChecks
      BY <2>3
    <3>2. (feedSeen \cup jobs \cup feedFiles \cup metadata \cup scans \cup scanned)' \subseteq Items
      BY <2>1, <2>3, <2>5
    <3> QED BY <2>2, <2>3, <2>5, <3>1, <3>2
  <2> QED BY <2>1, <2>3, <2>4, <2>5
<1>5. ASSUME NEW matching \in SUBSET Items, F!FeedFetched(matching) PROVE FeedInv'
  <2> DEFINE candidates == IF subscription = "on" THEN matching \ feedSeen ELSE {}
             chosen == IF latest THEN F!Newest(candidates) ELSE candidates
  <2>1. chosen \subseteq candidates /\ candidates \subseteq Items
        /\ \A i \in candidates : i \notin feedSeen
    BY DEF F!Newest
  <2>2. /\ checks' = checks - 1 /\ checks > 0
        /\ feedSeen' = feedSeen \cup candidates
        /\ jobs' = jobs \cup (chosen \ Magnets)
        /\ feedTorrents' = [i \in Items |-> IF i \in chosen \cap Magnets THEN "awaiting"
                                           ELSE feedTorrents[i]]
        /\ scans' = scans \cup (chosen \cap Magnets)
        /\ handed' = [i \in Items |-> IF i \in chosen THEN handed[i] + 1 ELSE handed[i]]
        /\ UNCHANGED <<subscription, latest, feedPaused, feedFiles, metadata, scanned>>
    BY <1>5 DEF F!FeedFetched
  <2> HIDE DEF candidates, chosen
  <2>3. F!TypeOK'
    BY <2>1, <2>2
  <2> QED BY <2>1, <2>2, <2>3
<1>6. ASSUME NEW i \in Items, F!DownloadFails(i) \/ F!Download(i) PROVE FeedInv'
  BY <1>6 DEF F!DownloadFails, F!Download
<1>7. ASSUME NEW i \in Items, NEW refused \in BOOLEAN, F!TorrentDownloaded(i, refused)
      PROVE  FeedInv'
  BY <1>7 DEF F!TorrentDownloaded
<1>8. ASSUME NEW i \in Items, F!MetadataReceived(i) PROVE FeedInv'
  BY <1>8 DEF F!MetadataReceived
<1>9. ASSUME NEW i \in Items, F!AddByHand(i) \/ F!Remove(i) PROVE FeedInv'
  BY <1>9 DEF F!AddByHand, F!Remove
<1> QED
  BY <1>1, <1>2, <1>3, <1>4, <1>5, <1>6, <1>7, <1>8, <1>9 DEF F!Next

-----------------------------------------------------------------------------
(* WatchFolder                                                             *)

FolderKept ==
    \A f \in Files :
        /\ f \notin folderStuck /\ folderPlace[f] = "folder" => tries[f] = 0
        /\ adds[f] <= tries[f]
        /\ adds[f] > 0 =>
               content[f] \in OneTorrent /\ (content[f] \in folderSession \/ f \in folderGone)

FolderInv == W!TypeOK /\ W!TriedOnce /\ W!AddedOnce /\ W!PlaceTells /\ FolderKept

\* The folder is empty before the first file is dropped.
LEMMA FolderInit == W!Init => FolderInv
BY FolderAssumption
DEF W!Init, FolderInv, W!TypeOK, W!TriedOnce, W!AddedOnce, W!PlaceTells, FolderKept

\* A scan counts what it tries and what it adds.  A file it adds was not added
\* before, or its torrent has left: the session has what the file once added.
LEMMA FolderScan ==
    ASSUME FolderInv, NEW tried \in SUBSET Files, NEW adders \in SUBSET Files,
           NEW unmoved \in SUBSET Files, W!Scan(tried, adders, unmoved)
    PROVE  FolderInv'
<1> USE FolderAssumption DEF FolderInv, W!TypeOK
<1>1. /\ adders \subseteq tried
      /\ \A f \in adders : content[f] \in OneTorrent \ folderSession
      /\ \A f \in tried : folderPlace[f] = "folder" /\ tries[f] < MaxTries
  BY DEF W!Scan, W!Taken, W!Found
<1>2. /\ folderSession' = folderSession \cup {content[f] : f \in adders}
      /\ adds' = [f \in Files |-> IF f \in adders THEN adds[f] + 1 ELSE adds[f]]
      /\ folderPlace' = [f \in Files |-> IF f \in tried \ unmoved
             THEN (IF f \in adders THEN "processed" ELSE "failed") ELSE folderPlace[f]]
      /\ tries' = [f \in Files |-> IF f \in tried THEN tries[f] + 1 ELSE tries[f]]
      /\ folderStuck' = folderStuck \cup unmoved
      /\ UNCHANGED <<folderState, content, folderGone>>
  BY DEF W!Scan, W!Target
<1>3. \A f \in Files : tries[f] \in 0 .. MaxTries /\ adds[f] \in 0 .. MaxTries /\ adds[f] <= tries[f]
  BY DEF FolderKept
<1>4. \A f \in adders : adds[f] = 0 \/ f \in folderGone
  BY <1>1, <1>3 DEF FolderKept
<1>5. \A f \in Files :
         /\ tries'[f] = (IF f \in tried THEN tries[f] + 1 ELSE tries[f])
         /\ adds'[f] = (IF f \in adders THEN adds[f] + 1 ELSE adds[f])
         /\ tries'[f] \in 0 .. MaxTries /\ adds'[f] \in 0 .. MaxTries /\ adds'[f] <= tries'[f]
  BY <1>1, <1>2, <1>3
<1>6. W!TypeOK'
  <2>1. /\ tries' \in [Files -> 0 .. MaxTries] /\ adds' \in [Files -> 0 .. MaxTries]
        /\ folderPlace' \in [Files -> {"nowhere", "folder", "processed", "failed"}]
    BY <1>2, <1>5
  <2>2. {content[f] : f \in adders} \subseteq OneTorrent
    BY <1>1
  <2> QED BY <1>2, <2>1, <2>2
<1>7. W!TriedOnce'
  BY <1>1, <1>2, <1>3, <1>5 DEF W!TriedOnce, FolderKept
<1>8. W!AddedOnce'
  BY <1>2, <1>3, <1>4, <1>5 DEF W!AddedOnce
<1>9. W!PlaceTells'
  <2>1. ASSUME NEW f \in tried PROVE f \in folderStuck \/ adds[f] = 0
    BY <1>1, <1>3, <2>1 DEF FolderKept
  <2> QED BY <1>1, <1>2, <1>3, <1>5, <2>1 DEF W!PlaceTells
<1>10. FolderKept'
  BY <1>1, <1>2, <1>5 DEF FolderKept
<1> QED BY <1>6, <1>7, <1>8, <1>9, <1>10

\* What a file added stays added: only a scan counts, and only a torrent that
\* leaves is marked gone.
LEMMA FolderStep == FolderInv /\ W!Next => FolderInv'
<1> SUFFICES ASSUME FolderInv, W!Next PROVE FolderInv'
  OBVIOUS
<1> USE FolderAssumption
    DEF FolderInv, W!TypeOK, W!TriedOnce, W!AddedOnce, W!PlaceTells, FolderKept
<1>1. ASSUME NEW f \in Files, W!Drop(f) PROVE FolderInv'
  BY <1>1 DEF W!Drop
<1>2. ASSUME NEW f \in Files, NEW c \in {"bad"} \cup OneTorrent, W!Written(f, c)
      PROVE  FolderInv'
  BY <1>2 DEF W!Written
<1>3. ASSUME NEW t \in OneTorrent, W!AddElsewhere(t) PROVE FolderInv'
  BY <1>3 DEF W!AddElsewhere
<1>4. ASSUME NEW t \in OneTorrent, W!Leave(t) PROVE FolderInv'
  BY <1>4 DEF W!Leave
<1>5. CASE W!Switch
  BY <1>5 DEF W!Switch
<1> QED
  BY <1>1, <1>2, <1>3, <1>4, <1>5, FolderScan DEF W!Next

-----------------------------------------------------------------------------
(* Journal                                                                 *)

JournalKept ==
    /\ \A m \in present \ journalSeen : journalLines[m] = 0
    /\ \A p \in journalActive :
          /\ warning /\ p \notin warned => journalLines[p] = 0
          /\ space[p] = "enough" => journalLines[p] = 0
    /\ \A t \in journalTorrents \ journaled : journalLines[t] = 0

JournalInv == J!TypeOK /\ J!ToldOnce /\ JournalKept

\* Nothing is told before anything happens.
LEMMA JournalInit == J!Init => JournalInv
<1> SUFFICES ASSUME J!Init PROVE JournalInv
  OBVIOUS
<1>1. journalLines \in [J!Subjects -> 0 .. 2] /\ \A s \in J!Subjects : journalLines[s] <= 1
  BY DEF J!Init
<1>2. space \in [Paths -> {"enough", "low", "unknown"}]
  BY DEF J!Init
<1> QED
  BY <1>1, <1>2 DEF J!Init, JournalInv, J!TypeOK, J!ToldOnce, JournalKept

\* A line is written on a subject that has none since its episode began.
LEMMA JournalStep == JournalInv /\ J!Next => JournalInv'
<1> SUFFICES ASSUME JournalInv, J!Next PROVE JournalInv'
  OBVIOUS
<1> USE JournalAssumption
    DEF JournalInv, J!TypeOK, J!ToldOnce, JournalKept, J!Subjects, J!Written, J!Fresh,
        J!disks, J!spaces, J!errors
<1>1. ASSUME NEW m \in Mounts, J!Insert(m) PROVE JournalInv'
  BY <1>1 DEF J!Insert
<1>2. ASSUME NEW m \in Mounts, J!Eject(m) PROVE JournalInv'
  BY <1>2 DEF J!Eject
<1>3. CASE J!SetAsking
  BY <1>3 DEF J!SetAsking
<1>4. CASE J!CheckDisks
  BY <1>4 DEF J!CheckDisks
<1>5. CASE J!SetWarning
  BY <1>5 DEF J!SetWarning
<1>6. CASE J!CheckSpace
  BY <1>6 DEF J!CheckSpace, J!Warned, J!Low, J!Recovered
<1>7. ASSUME NEW p \in Paths, J!DownloadTo(p) PROVE JournalInv'
  BY <1>7 DEF J!DownloadTo
<1>8. ASSUME NEW p \in Paths, NEW s \in {"enough", "low", "unknown"}, J!SpaceBecomes(p, s)
      PROVE  JournalInv'
  BY <1>8 DEF J!SpaceBecomes
<1>9. ASSUME NEW t \in OneTorrent, J!Add(t) PROVE JournalInv'
  BY <1>9 DEF J!Add
<1>10. ASSUME NEW t \in OneTorrent, J!FileError(t) PROVE JournalInv'
  BY <1>10 DEF J!FileError
<1>11. ASSUME NEW t \in OneTorrent, J!Removed(t) PROVE JournalInv'
  BY <1>11 DEF J!Removed
<1> QED
  BY <1>1, <1>2, <1>3, <1>4, <1>5, <1>6, <1>7, <1>8, <1>9, <1>10, <1>11 DEF J!Next

-----------------------------------------------------------------------------
(* Launch                                                                  *)

\* The primaries an argument is in the pipe of, or waits for the page of.
Pipes(a) == {p \in Launches : a \in inbox[p]}
Waits(a) == {p \in Launches : launchPending[p] = a}

Starting(a) == IF launchStage[a] \in {"new", "alone"} THEN 1 ELSE 0
Missed(a) == IF a \in lost THEN 1 ELSE 0

LaunchInv == O!TypeOK /\ O!OpenedOnce

\* The two names of the cardinal are one operator.
LEMMA SameCardinality ==
    ASSUME NEW set PROVE O!Cardinality(set) = Cardinality(set)
BY DEF O!Cardinality, Cardinality

\* The places of an argument, in the terms the proof uses.
LEMMA PlacesAre ==
    ASSUME NEW a \in Launches
    PROVE  O!PlacesOf(a) = Starting(a) + Cardinality(Pipes(a)) + Cardinality(Waits(a))
                           + opened[a] + Missed(a)
BY SameCardinality DEF O!PlacesOf, Starting, Pipes, Waits, Missed

\* Each of the five counts is a number, for one of them to be 1 and no other.
LEMMA PlacesCounted ==
    ASSUME O!TypeOK, NEW a \in Launches
    PROVE  /\ IsFiniteSet(Pipes(a)) /\ Cardinality(Pipes(a)) \in Nat
           /\ IsFiniteSet(Waits(a)) /\ Cardinality(Waits(a)) \in Nat
           /\ Starting(a) \in {0, 1} /\ Missed(a) \in {0, 1} /\ opened[a] \in Nat
           /\ \A p \in Pipes(a) : Cardinality(Pipes(a)) >= 1
           /\ \A p \in Waits(a) : Cardinality(Waits(a)) >= 1
<1>1. Pipes(a) \in SUBSET Launches /\ Waits(a) \in SUBSET Launches
  BY DEF Pipes, Waits
<1>2. IsFiniteSet(Pipes(a)) /\ IsFiniteSet(Waits(a))
  BY <1>1, FS_Subset, LaunchAssumption
<1>3. Cardinality(Pipes(a)) \in Nat /\ Cardinality(Waits(a)) \in Nat
  BY <1>2, FS_CardinalityType
<1>4. \A set : IsFiniteSet(set) => (Cardinality(set) = 0 <=> set = {})
  BY FS_EmptySet
<1>5. ASSUME NEW p \in Pipes(a) PROVE Cardinality(Pipes(a)) >= 1
  BY <1>2, <1>3, <1>4
<1>6. ASSUME NEW p \in Waits(a) PROVE Cardinality(Waits(a)) >= 1
  BY <1>2, <1>3, <1>4
<1> QED
  BY <1>2, <1>3, <1>5, <1>6 DEF O!TypeOK, Starting, Missed

\* Every argument starts where its process is.
LEMMA LaunchInit == O!Init => LaunchInv
<1> SUFFICES ASSUME O!Init PROVE LaunchInv
  OBVIOUS
<1>1. O!TypeOK
  <2>1. /\ launchStage \in [Launches -> {"new", "alone", "primary", "gone"}]
        /\ page \in [Launches -> {"loading", "loaded"}] /\ works \in [Launches -> BOOLEAN]
        /\ launchPending \in [Launches -> Launches \cup {None}]
    BY DEF O!Init
  <2>2. inbox \in [Launches -> SUBSET Launches] /\ opened \in [Launches -> Nat]
    BY DEF O!Init
  <2> QED BY <2>1, <2>2 DEF O!Init, O!TypeOK
<1>2. ASSUME NEW a \in Launches PROVE O!PlacesOf(a) = 1
  <2>1. Pipes(a) = {} /\ Waits(a) = {}
    BY LaunchAssumption DEF O!Init, Pipes, Waits
  <2>2. Cardinality(Pipes(a)) = 0 /\ Cardinality(Waits(a)) = 0
    BY <2>1, FS_EmptySet
  <2>3. Starting(a) = 1 /\ Missed(a) = 0 /\ opened[a] = 0
    BY DEF O!Init, Starting, Missed
  <2> QED BY <2>2, <2>3, PlacesAre
<1> QED BY <1>1, <1>2 DEF LaunchInv, O!OpenedOnce

\* An argument that is opened, or waits for its page, or takes the place of
\* another there, gains one place among those; the other is lost instead.
LEMMA LaunchOpens ==
    ASSUME LaunchInv, NEW a \in Launches, NEW p \in Launches, O!OpenSource(a, p),
           a \notin lost, p \notin Waits(a)
    PROVE  /\ launchPending' \in [Launches -> Launches \cup {None}]
           /\ opened' \in [Launches -> Nat] /\ lost' \subseteq Launches
           /\ \A b \in Launches :
                Cardinality(Waits(b)') + opened'[b] + Missed(b)'
                  = Cardinality(Waits(b)) + opened[b] + Missed(b) + IF b = a THEN 1 ELSE 0
<1>1. O!TypeOK /\ \A b \in Launches : O!PlacesOf(b) = 1
  BY DEF LaunchInv, O!OpenedOnce
<1>2. CASE page[p] = "loaded"
  <2>1. launchPending' = launchPending /\ O!RunOpenSource(a, p)
    BY <1>2 DEF O!OpenSource
  <2>2. \A b \in Launches : Waits(b)' = Waits(b)
    BY <2>1 DEF Waits
  <2>3. /\ opened' \in [Launches -> Nat] /\ lost' \subseteq Launches
        /\ \A b \in Launches :
             opened'[b] + Missed(b)' = opened[b] + Missed(b) + IF b = a THEN 1 ELSE 0
    BY <1>1, <2>1 DEF O!RunOpenSource, O!TypeOK, Missed
  <2>4. \A b \in Launches : /\ opened[b] \in Nat /\ opened'[b] \in Nat
                            /\ Missed(b) \in Nat /\ Missed(b)' \in Nat
                            /\ Cardinality(Waits(b)) \in Nat
    BY <1>1, <2>3, PlacesCounted DEF Missed
  <2> QED BY <1>1, <2>1, <2>2, <2>3, <2>4 DEF O!TypeOK
<1>3. CASE page[p] # "loaded"
  <2>1. /\ launchPending' = [launchPending EXCEPT ![p] = a] /\ opened' = opened
        /\ lost' = IF launchPending[p] = None THEN lost ELSE lost \cup {launchPending[p]}
    BY <1>3 DEF O!OpenSource
  <2>2. launchPending' \in [Launches -> Launches \cup {None}] /\ lost' \subseteq Launches
        /\ opened' \in [Launches -> Nat]
    BY <1>1, <2>1 DEF O!TypeOK
  <2>3. ASSUME NEW b \in Launches
        PROVE  Cardinality(Waits(b)') + opened'[b] + Missed(b)'
                  = Cardinality(Waits(b)) + opened[b] + Missed(b) + IF b = a THEN 1 ELSE 0
    <3>1. /\ IsFiniteSet(Waits(b)) /\ Cardinality(Waits(b)) \in Nat /\ opened[b] \in Nat
          /\ Missed(b) \in {0, 1} /\ Cardinality(Pipes(b)) \in Nat /\ Starting(b) \in {0, 1}
          /\ \A q \in Waits(b) : Cardinality(Waits(b)) >= 1
      BY <1>1, PlacesCounted
    <3>2. CASE b = a
      <4>1. Waits(b)' = Waits(b) \cup {p} /\ p \notin Waits(b)
        BY <1>1, <2>1, <3>2 DEF Waits, O!TypeOK
      <4>2. Cardinality(Waits(b) \cup {p}) = Cardinality(Waits(b)) + 1
        BY <3>1, <4>1, FS_AddElement
      <4>3. Missed(b)' = Missed(b)
        BY <1>1, <2>1, <3>2, <4>1 DEF Missed, Waits, O!TypeOK
      <4> QED BY <2>1, <3>1, <3>2, <4>1, <4>2, <4>3
    <3>3. CASE b # a /\ launchPending[p] = b
      <4>1. Waits(b)' = Waits(b) \ {p} /\ p \in Waits(b)
        BY <1>1, <2>1, <3>3 DEF Waits, O!TypeOK
      <4>2. Cardinality(Waits(b) \ {p}) = Cardinality(Waits(b)) - 1
        BY <3>1, <4>1, FS_RemoveElement
      <4>3. Missed(b) = 0
        BY <1>1, <3>1, <4>1, PlacesAre
      <4>4. Missed(b)' = 1
        BY <2>1, <3>3, LaunchAssumption DEF Missed
      <4> QED BY <2>1, <3>1, <3>3, <4>1, <4>2, <4>3, <4>4
    <3>4. CASE b # a /\ launchPending[p] # b
      <4>1. Waits(b)' = Waits(b)
        BY <1>1, <2>1, <3>4 DEF Waits, O!TypeOK
      <4>2. Missed(b)' = Missed(b)
        BY <2>1, <3>4 DEF Missed
      <4> QED BY <2>1, <3>1, <3>4, <4>1, <4>2
    <3> QED BY <3>2, <3>3, <3>4
  <2> QED BY <2>2, <2>3
<1> QED BY <1>2, <1>3

\* What one count loses another gains.
LEMMA OneMoves ==
    ASSUME NEW n1 \in Int, NEW n2 \in Int, NEW n3 \in Int, NEW n4 \in Int, NEW n5 \in Int,
           NEW m1 \in Int, NEW m2 \in Int, NEW m3 \in Int, NEW m4 \in Int, NEW m5 \in Int,
           n1 + n2 + n3 + n4 + n5 = 1,
           m1 = n1, m2 = n2 - 1, m3 + m4 + m5 = n3 + n4 + n5 + 1
    PROVE  m1 + m2 + m3 + m4 + m5 = 1
OBVIOUS

\* The counts of the next state are numbers too.
LEMMA PlacesNext ==
    ASSUME O!TypeOK', NEW a \in Launches
    PROVE  /\ Cardinality(Pipes(a)') \in Nat /\ Cardinality(Waits(a)') \in Nat
           /\ opened'[a] \in Nat /\ Missed(a)' \in {0, 1}
<1>1. Pipes(a)' \in SUBSET Launches /\ Waits(a)' \in SUBSET Launches
  BY DEF Pipes, Waits
<1>2. IsFiniteSet(Pipes(a)') /\ IsFiniteSet(Waits(a)')
  BY <1>1, FS_Subset, LaunchAssumption
<1> QED
  BY <1>2, FS_CardinalityType DEF O!TypeOK, Missed

\* Whoever it goes through, an argument leaves one place for one other.
LEMMA LaunchStep == LaunchInv /\ O!Next => LaunchInv'
<1> SUFFICES ASSUME LaunchInv, NEW p \in Launches,
                    \/ O!Probe(p) \/ O!Listen(p) \/ O!ArgumentReceived(p) \/ O!Exit(p)
                    \/ \E ok \in BOOLEAN : O!PageLoaded(p, ok)
             PROVE  LaunchInv'
  BY DEF O!Next
<1>1. O!TypeOK /\ \A b \in Launches : O!PlacesOf(b) = 1
  BY DEF LaunchInv, O!OpenedOnce
<1>2. ASSUME NEW b \in Launches
      PROVE  /\ IsFiniteSet(Pipes(b)) /\ Cardinality(Pipes(b)) \in Nat
             /\ IsFiniteSet(Waits(b)) /\ Cardinality(Waits(b)) \in Nat
             /\ Starting(b) \in {0, 1} /\ Missed(b) \in {0, 1} /\ opened[b] \in Nat
             /\ \A q \in Pipes(b) : Cardinality(Pipes(b)) >= 1
             /\ \A q \in Waits(b) : Cardinality(Waits(b)) >= 1
             /\ Starting(b) + Cardinality(Pipes(b)) + Cardinality(Waits(b))
                  + opened[b] + Missed(b) = 1
  BY <1>1, PlacesCounted, PlacesAre
<1>3. SUFFICES
        /\ O!TypeOK'
        /\ \A b \in Launches :
             Starting(b)' + Cardinality(Pipes(b)') + Cardinality(Waits(b)')
               + opened'[b] + Missed(b)' = 1
  <2>1. ASSUME NEW b \in Launches
        PROVE  O!PlacesOf(b)' = Starting(b)' + Cardinality(Pipes(b)') + Cardinality(Waits(b)')
                                + opened'[b] + Missed(b)'
    BY SameCardinality DEF O!PlacesOf, Starting, Pipes, Waits, Missed
  <2> QED BY <1>3, <2>1 DEF LaunchInv, O!OpenedOnce
<1>4. ASSUME O!Probe(p)
      PROVE  /\ O!TypeOK'
             /\ \A b \in Launches :
                  Starting(b)' + Cardinality(Pipes(b)') + Cardinality(Waits(b)')
                    + opened'[b] + Missed(b)' = 1
  <2>1. O!TypeOK'
    BY <1>1, <1>4 DEF O!Probe, O!Primaries, O!TypeOK
  <2>2. ASSUME NEW b \in Launches
        PROVE  Starting(b)' + Cardinality(Pipes(b)') + Cardinality(Waits(b)')
                    + opened'[b] + Missed(b)' = 1
    <3>1. Waits(b)' = Waits(b) /\ Missed(b)' = Missed(b) /\ opened' = opened
      BY <1>4 DEF O!Probe, Waits, Missed
    <3>2. CASE launchStage' = [launchStage EXCEPT ![p] = "alone"] /\ inbox' = inbox
      <4>1. Starting(b)' = Starting(b) /\ Pipes(b)' = Pipes(b)
        BY <1>1, <1>4, <3>2 DEF O!Probe, O!TypeOK, Starting, Pipes
      <4> QED BY <1>2, <3>1, <4>1
    <3>3. ASSUME NEW q \in O!Primaries, inbox' = [inbox EXCEPT ![q] = @ \cup {p}],
                 launchStage' = [launchStage EXCEPT ![p] = "gone"]
          PROVE  Starting(b)' + Cardinality(Pipes(b)') + Cardinality(Waits(b)')
                    + opened'[b] + Missed(b)' = 1
      <4>1. q \in Launches /\ launchStage[p] = "new"
        BY <1>4 DEF O!Probe, O!Primaries
      <4>2. CASE b = p
        <5>1. Starting(b) = 1 /\ Starting(b)' = 0
          BY <1>1, <3>3, <4>1, <4>2 DEF O!TypeOK, Starting
        <5>2. q \notin Pipes(b)
          BY <1>2, <5>1
        <5>3. Pipes(b)' = Pipes(b) \cup {q}
          BY <1>1, <3>3, <4>1, <4>2 DEF O!TypeOK, Pipes
        <5>4. Cardinality(Pipes(b) \cup {q}) = Cardinality(Pipes(b)) + 1
          BY <1>2, <5>2, FS_AddElement
        <5> QED BY <1>2, <3>1, <5>1, <5>3, <5>4
      <4>3. CASE b # p
        <5>1. Starting(b)' = Starting(b)
          BY <1>1, <3>3, <4>3 DEF O!TypeOK, Starting
        <5>2. Pipes(b)' = Pipes(b)
          BY <1>1, <3>3, <4>1, <4>3 DEF O!TypeOK, Pipes
        <5> QED BY <1>2, <3>1, <5>1, <5>2
      <4> QED BY <4>2, <4>3
    <3> QED BY <1>4, <3>2, <3>3 DEF O!Probe
  <2> QED BY <2>1, <2>2
<1>5. ASSUME O!Listen(p)
      PROVE  /\ O!TypeOK'
             /\ \A b \in Launches :
                  Starting(b)' + Cardinality(Pipes(b)') + Cardinality(Waits(b)')
                    + opened'[b] + Missed(b)' = 1
  <2>1. /\ launchStage[p] = "alone" /\ launchStage' = [launchStage EXCEPT ![p] = "primary"]
        /\ O!OpenSource(p, p) /\ UNCHANGED <<inbox, page, works>>
    BY <1>5 DEF O!Listen
  <2>2. Starting(p) = 1
    BY <2>1 DEF Starting
  <2>3. p \notin lost /\ p \notin Waits(p)
    BY <1>2, <2>2 DEF Missed
  <2>4. /\ launchPending' \in [Launches -> Launches \cup {None}]
        /\ opened' \in [Launches -> Nat] /\ lost' \subseteq Launches
        /\ \A b \in Launches :
             Cardinality(Waits(b)') + opened'[b] + Missed(b)'
               = Cardinality(Waits(b)) + opened[b] + Missed(b) + IF b = p THEN 1 ELSE 0
    BY <2>1, <2>3, LaunchOpens
  <2>5. O!TypeOK'
    BY <1>1, <2>1, <2>4 DEF O!TypeOK
  <2>6. ASSUME NEW b \in Launches
        PROVE  Starting(b)' + Cardinality(Pipes(b)') + Cardinality(Waits(b)')
                    + opened'[b] + Missed(b)' = 1
    <3>1. Pipes(b)' = Pipes(b)
      BY <2>1 DEF Pipes
    <3>2. /\ b = p => Starting(b) = 1 /\ Starting(b)' = 0
          /\ b # p => Starting(b)' = Starting(b)
      BY <1>1, <2>1 DEF Starting, O!TypeOK
    <3>3. Cardinality(Waits(b)') \in Nat /\ opened'[b] \in Nat /\ Missed(b)' \in {0, 1}
      BY <2>5, PlacesNext
    <3>5. /\ Cardinality(Pipes(b)) \in Nat /\ Cardinality(Waits(b)) \in Nat
          /\ Starting(b) \in {0, 1} /\ Missed(b) \in {0, 1} /\ opened[b] \in Nat
          /\ Starting(b) + Cardinality(Pipes(b)) + Cardinality(Waits(b))
               + opened[b] + Missed(b) = 1
      BY <1>2
    <3>6. CASE b = p
      <4>1. Cardinality(Waits(b)') + opened'[b] + Missed(b)'
              = Cardinality(Waits(b)) + opened[b] + Missed(b) + 1
        BY <2>4, <3>6
      <4> QED BY <3>1, <3>2, <3>3, <3>5, <3>6, <4>1
    <3>7. CASE b # p
      <4>1. Cardinality(Waits(b)') + opened'[b] + Missed(b)'
              = Cardinality(Waits(b)) + opened[b] + Missed(b)
        BY <2>4, <3>5, <3>7
      <4>2. Starting(b)' = Starting(b) /\ Cardinality(Pipes(b)') = Cardinality(Pipes(b))
        BY <3>1, <3>2, <3>7
      <4> QED BY <3>3, <3>5, <4>1, <4>2
    <3> QED BY <3>6, <3>7
  <2> QED BY <2>5, <2>6
<1>6. ASSUME O!ArgumentReceived(p)
      PROVE  /\ O!TypeOK'
             /\ \A b \in Launches :
                  Starting(b)' + Cardinality(Pipes(b)') + Cardinality(Waits(b)')
                    + opened'[b] + Missed(b)' = 1
  <2>1. PICK a \in inbox[p] : /\ inbox' = [inbox EXCEPT ![p] = @ \ {a}]
                              /\ O!OpenSource(a, p)
    BY <1>6 DEF O!ArgumentReceived
  <2>2. a \in Launches /\ p \in Pipes(a)
    BY <1>1, <2>1 DEF O!TypeOK, Pipes
  <2>3. a \notin lost /\ p \notin Waits(a)
    BY <1>2, <2>2 DEF Missed
  <2>4. /\ launchPending' \in [Launches -> Launches \cup {None}]
        /\ opened' \in [Launches -> Nat] /\ lost' \subseteq Launches
        /\ \A b \in Launches :
             Cardinality(Waits(b)') + opened'[b] + Missed(b)'
               = Cardinality(Waits(b)) + opened[b] + Missed(b) + IF b = a THEN 1 ELSE 0
    BY <2>1, <2>2, <2>3, LaunchOpens
  <2>7. UNCHANGED <<launchStage, page, works>>
    BY <1>6 DEF O!ArgumentReceived
  <2>5. O!TypeOK'
    BY <1>1, <2>1, <2>4, <2>7 DEF O!TypeOK
  <2>6. ASSUME NEW b \in Launches
        PROVE  Starting(b)' + Cardinality(Pipes(b)') + Cardinality(Waits(b)')
                    + opened'[b] + Missed(b)' = 1
    <3>1. /\ b = a => Cardinality(Pipes(b)') = Cardinality(Pipes(b)) - 1
          /\ b # a => Cardinality(Pipes(b)') = Cardinality(Pipes(b))
      <4>1. CASE b = a
        <5>1. Pipes(b)' = Pipes(b) \ {p} /\ p \in Pipes(b)
          BY <1>1, <2>1, <2>2, <4>1 DEF Pipes, O!TypeOK
        <5>2. Cardinality(Pipes(b) \ {p}) = Cardinality(Pipes(b)) - 1
          BY <1>2, <5>1, FS_RemoveElement
        <5> QED BY <4>1, <5>1, <5>2
      <4>2. CASE b # a
        <5>1. Pipes(b)' = Pipes(b)
          BY <1>1, <2>1, <4>2 DEF Pipes, O!TypeOK
        <5> QED BY <1>2, <4>2, <5>1
      <4> QED BY <4>1, <4>2
    <3>2. Starting(b)' = Starting(b)
      BY <2>7 DEF Starting
    <3>3. /\ Cardinality(Pipes(b)') \in Nat /\ Cardinality(Waits(b)') \in Nat
          /\ opened'[b] \in Nat /\ Missed(b)' \in {0, 1}
      BY <2>5, PlacesNext
    <3>5. /\ Cardinality(Pipes(b)) \in Nat /\ Cardinality(Waits(b)) \in Nat
          /\ Starting(b) \in {0, 1} /\ Missed(b) \in {0, 1} /\ opened[b] \in Nat
          /\ Starting(b) + Cardinality(Pipes(b)) + Cardinality(Waits(b))
               + opened[b] + Missed(b) = 1
      BY <1>2
    <3>6. CASE b = a
      <4>1. Cardinality(Waits(b)') + opened'[b] + Missed(b)'
              = Cardinality(Waits(b)) + opened[b] + Missed(b) + 1
        BY <2>4, <3>6
      <4>2. Cardinality(Pipes(b)') = Cardinality(Pipes(b)) - 1
        BY <3>1, <3>6
      <4>3. Starting(b)' \in Int /\ Starting(b) \in Int
            /\ Missed(b) \in Int /\ Missed(b)' \in Int
        BY <3>2, <3>3, <3>5
      <4> QED BY <3>2, <3>3, <3>5, <4>1, <4>2, <4>3, OneMoves
    <3>7. CASE b # a
      <4>1. Cardinality(Waits(b)') + opened'[b] + Missed(b)'
              = Cardinality(Waits(b)) + opened[b] + Missed(b)
        BY <2>4, <3>5, <3>7
      <4>2. Cardinality(Pipes(b)') = Cardinality(Pipes(b))
        BY <3>1, <3>7
      <4> QED BY <3>2, <3>3, <3>5, <4>1, <4>2
    <3> QED BY <3>6, <3>7
  <2> QED BY <2>5, <2>6
<1>7. ASSUME NEW ok \in BOOLEAN, O!PageLoaded(p, ok)
      PROVE  /\ O!TypeOK'
             /\ \A b \in Launches :
                  Starting(b)' + Cardinality(Pipes(b)') + Cardinality(Waits(b)')
                    + opened'[b] + Missed(b)' = 1
  <2>1. UNCHANGED <<launchStage, inbox, lost>>
    BY <1>7 DEF O!PageLoaded
  <2>2. page' \in [Launches -> {"loading", "loaded"}] /\ works' \in [Launches -> BOOLEAN]
    BY <1>1, <1>7 DEF O!PageLoaded, O!TypeOK
  <2>3. launchPending' \in [Launches -> Launches \cup {None}] /\ opened' \in [Launches -> Nat]
    BY <1>1, <1>7 DEF O!PageLoaded, O!TypeOK
  <2>4. O!TypeOK'
    BY <1>1, <2>1, <2>2, <2>3 DEF O!TypeOK
  <2>5. ASSUME NEW b \in Launches
        PROVE  Starting(b)' + Cardinality(Pipes(b)') + Cardinality(Waits(b)')
                    + opened'[b] + Missed(b)' = 1
    <3>1. Starting(b)' = Starting(b) /\ Pipes(b)' = Pipes(b) /\ Missed(b)' = Missed(b)
      BY <2>1 DEF Starting, Pipes, Missed
    <3>2. Cardinality(Waits(b)') + opened'[b] = Cardinality(Waits(b)) + opened[b]
      <4>1. CASE ok /\ launchPending[p] # None
        <5>1. /\ launchPending[p] \in Launches
              /\ opened' = [opened EXCEPT ![launchPending[p]] = @ + 1]
              /\ launchPending' = [launchPending EXCEPT ![p] = None]
          BY <1>1, <1>7, <4>1 DEF O!PageLoaded, O!TypeOK
        <5>2. CASE b = launchPending[p]
          <6>1. Waits(b)' = Waits(b) \ {p} /\ p \in Waits(b)
            BY <1>1, <5>1, <5>2, LaunchAssumption DEF Waits, O!TypeOK
          <6>2. Cardinality(Waits(b) \ {p}) = Cardinality(Waits(b)) - 1
            BY <1>2, <6>1, FS_RemoveElement
          <6>3. opened'[b] = opened[b] + 1
            BY <1>1, <5>1, <5>2 DEF O!TypeOK
          <6> QED BY <1>2, <6>1, <6>2, <6>3
        <5>3. CASE b # launchPending[p]
          <6>1. Waits(b)' = Waits(b)
            BY <1>1, <5>1, <5>3, LaunchAssumption DEF Waits, O!TypeOK
          <6>2. opened'[b] = opened[b]
            BY <1>1, <5>1, <5>3 DEF O!TypeOK
          <6> QED BY <6>1, <6>2
        <5> QED BY <5>2, <5>3
      <4>2. CASE ~(ok /\ launchPending[p] # None)
        <5>1. UNCHANGED <<launchPending, opened>>
          BY <1>7, <4>2 DEF O!PageLoaded
        <5> QED BY <5>1 DEF Waits
      <4> QED BY <4>1, <4>2
    <3>3. Cardinality(Waits(b)') \in Nat /\ opened'[b] \in Nat
      BY <2>4, PlacesNext
    <3> QED BY <1>2, <3>1, <3>2, <3>3
  <2> QED BY <2>4, <2>5
<1>8. ASSUME O!Exit(p)
      PROVE  /\ O!TypeOK'
             /\ \A b \in Launches :
                  Starting(b)' + Cardinality(Pipes(b)') + Cardinality(Waits(b)')
                    + opened'[b] + Missed(b)' = 1
  <2>1. /\ launchStage[p] = "primary" /\ launchStage' = [launchStage EXCEPT ![p] = "gone"]
        /\ lost' = lost \cup inbox[p] \cup ({launchPending[p]} \ {None})
        /\ inbox' = [inbox EXCEPT ![p] = {}]
        /\ launchPending' = [launchPending EXCEPT ![p] = None]
        /\ UNCHANGED <<page, works, opened>>
    BY <1>8 DEF O!Exit
  <2>2. O!TypeOK'
    BY <1>1, <2>1 DEF O!TypeOK
  <2>3. ASSUME NEW b \in Launches
        PROVE  Starting(b)' + Cardinality(Pipes(b)') + Cardinality(Waits(b)')
                    + opened'[b] + Missed(b)' = 1
    <3>1. Starting(b)' = Starting(b)
      BY <1>1, <2>1 DEF Starting, O!TypeOK
    <3>2. Pipes(b)' = Pipes(b) \ {p} /\ Waits(b)' = Waits(b) \ {p}
      BY <1>1, <2>1, LaunchAssumption DEF Pipes, Waits, O!TypeOK
    <3>3. Missed(b)' = IF p \in Pipes(b) \/ p \in Waits(b) THEN 1 ELSE Missed(b)
      BY <2>1, LaunchAssumption DEF Missed, Pipes, Waits
    <3>4. Cardinality(Pipes(b) \ {p})
            = IF p \in Pipes(b) THEN Cardinality(Pipes(b)) - 1 ELSE Cardinality(Pipes(b))
      BY <1>2, FS_RemoveElement
    <3>5. Cardinality(Waits(b) \ {p})
            = IF p \in Waits(b) THEN Cardinality(Waits(b)) - 1 ELSE Cardinality(Waits(b))
      BY <1>2, FS_RemoveElement
    <3>6. opened'[b] = opened[b]
      BY <2>1
    <3> QED BY <1>2, <3>1, <3>2, <3>3, <3>4, <3>5, <3>6
  <2> QED BY <2>2, <2>3
<1> QED
  BY <1>4, <1>5, <1>6, <1>7, <1>8

-----------------------------------------------------------------------------
(* IpBlocklist                                                             *)

BlocklistKept ==
    /\ blocklistPaused = waiting
    /\ worker = "failed" \/ blocklistLoaded = "nothing" => blocklistLines = 0

BlocklistInv == B!TypeOK /\ B!FilteredFirst /\ BlocklistKept

\* A session that has a filter to wait for starts paused.
LEMMA BlocklistInit == B!Init => BlocklistInv
<1> SUFFICES ASSUME B!Init PROVE BlocklistInv
  OBVIOUS
<1>1. read \in 0 .. Blocks
  BY BlocklistAssumption DEF B!Init
<1>2. worker \in {"idle", "parsing"}
  BY DEF B!Init
<1>3. B!TypeOK
  BY <1>1, <1>2 DEF B!Init, B!TypeOK
<1> QED
  BY <1>2, <1>3 DEF B!Init, BlocklistInv, B!FilteredFirst, BlocklistKept

\* Only the answer of the parse resumes it, with the filter or for want of one.
LEMMA BlocklistStep == BlocklistInv /\ B!Next => BlocklistInv'
<1> SUFFICES ASSUME BlocklistInv, B!Next PROVE BlocklistInv'
  OBVIOUS
<1> USE BlocklistAssumption
    DEF BlocklistInv, B!TypeOK, B!FilteredFirst, BlocklistKept, B!Cancelled
<1>1. CASE B!ParseFails
  BY <1>1 DEF B!ParseFails
<1>2. CASE B!ParseBlock
  BY <1>2 DEF B!ParseBlock
<1>3. CASE B!Answer
  BY <1>3 DEF B!Answer
<1>4. CASE B!Loaded
  BY <1>4 DEF B!Loaded
<1>5. CASE B!Quit
  BY <1>5 DEF B!Quit
<1> QED
  BY <1>1, <1>2, <1>3, <1>4, <1>5 DEF B!Next

-----------------------------------------------------------------------------
(* AddPage                                                                 *)

AddInv == A!TypeOK /\ A!OneChoice

\* Nothing is chosen when the page opens.
LEMMA AddInit == A!Init => AddInv
<1> SUFFICES ASSUME A!Init PROVE AddInv
  OBVIOUS
<1>1. magnet \in [Links -> {"none", "waiting", "known", "started"}]
      /\ skipped \in [A!Sources -> A!Sources \cup {None}]
  BY DEF A!Init
<1> QED
  BY <1>1 DEF A!Init, AddInv, A!TypeOK, A!OneChoice

\* A file chosen drops the magnet, and a magnet analysed drops the file.
LEMMA AddStep == AddInv /\ A!Next => AddInv'
<1> SUFFICES ASSUME AddInv, A!Next PROVE AddInv'
  OBVIOUS
<1> USE DEF AddInv, A!TypeOK, A!OneChoice, A!Sources, A!bridge, A!page, A!session,
            A!RenderScan, A!Reset, A!Skip
<1>1. ASSUME NEW f \in Files, NEW readable \in BOOLEAN, A!SelectTorrentFile(f, readable)
      PROVE  AddInv'
  BY <1>1 DEF A!SelectTorrentFile
<1>2. ASSUME NEW m \in Links, NEW ok \in BOOLEAN, A!AnalyzeMagnet(m, ok) PROVE AddInv'
  BY <1>2 DEF A!AnalyzeMagnet
<1>3. ASSUME NEW m \in Links, A!MetadataReceived(m) PROVE AddInv'
  BY <1>3 DEF A!MetadataReceived
<1>4. ASSUME NEW blocked \in BOOLEAN, A!StartMagnet(blocked) PROVE AddInv'
  BY <1>4 DEF A!StartMagnet
<1>5. ASSUME NEW s \in A!Sources, A!Remove(s) PROVE AddInv'
  BY <1>5 DEF A!Remove
<1>6. CASE A!Tick
  BY <1>6 DEF A!Tick
<1>7. CASE A!StartFile
  BY <1>7 DEF A!StartFile
<1> QED
  BY <1>1, <1>2, <1>3, <1>4, <1>5, <1>6, <1>7 DEF A!Next

-----------------------------------------------------------------------------
(* RemoteAccess                                                            *)

RemoteInv == C!TypeOK /\ C!NeverOpen /\ (running => alive)

\* The server is off when the application starts for the first time.
LEMMA RemoteInit == C!Init => RemoteInv
<1> SUFFICES ASSUME C!Init PROVE RemoteInv
  OBVIOUS
<1>1. 0 \in 0 .. MaxTokens /\ 0 \in 0 .. 0
  BY RemoteAssumption
<1>2. /\ request \in [Clients -> {"none", "accepted", "admitted"}]
      /\ key \in [Clients -> 0 .. MaxTokens]
  BY <1>1 DEF C!Init
<1>3. C!TypeOK
  BY <1>1, <1>2 DEF C!Init, C!TypeOK
<1> QED
  BY <1>3 DEF C!Init, RemoteInv, C!NeverOpen

\* A server starts with a token, and a request is admitted by it alone.
LEMMA RemoteStep == RemoteInv /\ C!Next => RemoteInv'
<1> SUFFICES ASSUME RemoteInv, C!Next PROVE RemoteInv'
  OBVIOUS
<1> USE RemoteAssumption
    DEF RemoteInv, C!TypeOK, C!NeverOpen, C!option, C!requests, C!NewToken
<1>1. ASSUME NEW ok \in BOOLEAN, C!Enable(ok) PROVE RemoteInv'
  <2>1. /\ token' \in 0 .. MaxTokens /\ remoteSaved' \in 0 .. token'
        /\ {remoteEnabled', running'} \subseteq BOOLEAN /\ alive
        /\ running' => token' # 0
        /\ UNCHANGED <<request, key, alive>>
    <3>1. CASE running
      BY <1>1, <3>1 DEF C!Enable
    <3>2. CASE ~running
      <4>1. /\ C!Start(ok) /\ alive /\ remoteEnabled' = (ok \/ remoteEnabled)
            /\ UNCHANGED <<request, key, alive>>
        BY <1>1, <3>2 DEF C!Enable
      <4>2. token' \in 0 .. MaxTokens /\ remoteSaved' \in 0 .. token' /\ token' # 0
        BY <4>1 DEF C!Start
      <4>3. running' = ok /\ remoteEnabled' \in BOOLEAN
        BY <4>1 DEF C!Start
      <4> QED BY <4>1, <4>2, <4>3
    <3> QED BY <3>1, <3>2
  <2> QED BY <2>1
<1>2. ASSUME NEW ok \in BOOLEAN, C!RegenerateToken(ok) PROVE RemoteInv'
  BY <1>2 DEF C!RegenerateToken
<1>3. ASSUME NEW ok \in BOOLEAN, C!Launch(ok) PROVE RemoteInv'
  <2>1. ~alive /\ alive' = TRUE /\ UNCHANGED <<remoteEnabled, request, key>>
    BY <1>3 DEF C!Launch
  <2>2. CASE remoteEnabled
    <3>1. /\ token' = IF remoteSaved = 0 THEN 1 ELSE remoteSaved
          /\ remoteSaved' = token' /\ running' = ok
      BY <1>3, <2>2 DEF C!Launch
    <3>2. token' \in 0 .. MaxTokens /\ remoteSaved' \in 0 .. token' /\ token' # 0
      BY <3>1
    <3> QED BY <2>1, <3>1, <3>2
  <2>3. CASE ~remoteEnabled
    <3>1. token' = remoteSaved /\ remoteSaved' = remoteSaved /\ running' = running
      BY <1>3, <2>3 DEF C!Launch
    <3>2. token' \in 0 .. MaxTokens /\ remoteSaved' \in 0 .. token' /\ ~running
      BY <2>1, <3>1
    <3> QED BY <2>1, <3>1, <3>2
  <2> QED BY <2>2, <2>3
<1>4. CASE C!Disable \/ C!RestoreSnapshot \/ C!Quit \/ C!Exit
  <2>1. CASE C!Disable
    BY <2>1 DEF C!Disable
  <2>2. CASE C!RestoreSnapshot
    BY <2>2 DEF C!RestoreSnapshot
  <2>3. CASE C!Quit
    BY <2>3 DEF C!Quit
  <2>4. CASE C!Exit
    <3>1. /\ request' \in [Clients -> {"none", "accepted", "admitted"}]
          /\ key' \in [Clients -> 0 .. MaxTokens]
          /\ \A c \in Clients : request'[c] = "none"
      BY <2>4 DEF C!Exit
    <3> QED BY <2>4, <3>1 DEF C!Exit
  <2> QED BY <1>4, <2>1, <2>2, <2>3, <2>4
<1>5. ASSUME NEW c \in Clients, C!Connect(c) PROVE RemoteInv'
  BY <1>5 DEF C!Connect
<1>6. ASSUME NEW c \in Clients, C!RequireToken(c) PROVE RemoteInv'
  BY <1>6 DEF C!RequireToken, C!TokenIsValid
<1>7. ASSUME NEW c \in Clients, C!Respond(c) PROVE RemoteInv'
  BY <1>7 DEF C!Respond
<1> QED
  BY <1>1, <1>2, <1>3, <1>4, <1>5, <1>6, <1>7 DEF C!Next

-----------------------------------------------------------------------------
(* Updates                                                                 *)

UpdatesKept ==
    /\ \A d \in offered : task[d] = "none"
    /\ \A d \in Downloads : task[d] = "verified" => updatesFile[d] \in {"good", "none"}

UpdatesInv == U!TypeOK /\ U!OnlyVerified /\ UpdatesKept

\* Nothing is downloaded, offered or run when the application starts.
LEMMA UpdatesInit == U!Init => UpdatesInv
<1> SUFFICES ASSUME U!Init PROVE UpdatesInv
  OBVIOUS
<1>1. /\ task \in [Downloads -> {"none", "bare", "hashed", "fetching", "verified", "failed"}]
      /\ updatesFile \in [Downloads -> {"none", "partial", "bad", "good"}]
  BY DEF U!Init
<1>2. U!TypeOK
  BY <1>1 DEF U!Init, U!TypeOK
<1> QED
  BY <1>2 DEF U!Init, UpdatesInv, U!OnlyVerified, UpdatesKept, U!Route

\* What is offered was verified, and no clean-up of another download touches
\* a file that is being written.
LEMMA UpdatesStep == UpdatesInv /\ U!Next => UpdatesInv'
<1> SUFFICES ASSUME UpdatesInv, U!Next PROVE UpdatesInv'
  OBVIOUS
<1> USE DEF UpdatesInv, U!TypeOK, U!OnlyVerified, UpdatesKept, U!checking, U!downloads,
            U!VerifyFailed, U!Route
<1>1. CASE U!CheckNow \/ U!FetchRelease \/ U!Checked
  BY <1>1 DEF U!CheckNow, U!FetchRelease, U!Checked
<1>2. CASE U!Quit
  BY <1>2 DEF U!Quit
<1>3. CASE U!Relaunch
  BY <1>3 DEF U!Relaunch
<1>4. ASSUME NEW d \in Downloads, U!DownloadInstaller(d) PROVE UpdatesInv'
  BY <1>4 DEF U!DownloadInstaller
<1>5. ASSUME NEW d \in Downloads, U!StartDownload(d) PROVE UpdatesInv'
  BY <1>5 DEF U!StartDownload
<1>6. ASSUME NEW d \in Downloads, U!Reported(d) PROVE UpdatesInv'
  BY <1>6 DEF U!Reported
<1>7. ASSUME NEW d \in Downloads, U!LaunchInstaller(d) PROVE UpdatesInv'
  BY <1>7 DEF U!LaunchInstaller
<1>8. ASSUME NEW d \in Downloads, U!DiscardInstaller(d) PROVE UpdatesInv'
  BY <1>8 DEF U!DiscardInstaller
<1>9. ASSUME NEW d \in Downloads, NEW o \in {"match", "mismatch", "error", "cancelled"},
             NEW r \in BOOLEAN, U!Fetched(d, o, r)
      PROVE  UpdatesInv'
  BY <1>9 DEF U!Fetched, U!Verified
<1> QED
  BY <1>1, <1>2, <1>3, <1>4, <1>5, <1>6, <1>7, <1>8, <1>9 DEF U!Next

-----------------------------------------------------------------------------
(* SettingsStore                                                           *)

\* What a line of the log can be: the values of some of the fields logged.
Lines == UNION {[fields -> Values] : fields \in SUBSET S!Logged}

SettingsKept == log \in Seq(Lines)

SettingsInv == S!TypeOK /\ S!Undoable /\ SettingsKept

\* The default is a configuration, and a line gives values to logged fields.
LEMMA LinesAre ==
    /\ \A l \in Lines : DOMAIN l \subseteq S!Logged /\ \A f \in DOMAIN l : l[f] \in Values
    /\ \A fields \in SUBSET S!Logged : \A l \in [fields -> Values] : l \in Lines
BY DEF Lines

\* The cut keeps the last line, and adds none.
LEMMA TrimKeepsLast ==
    ASSUME NEW l \in Seq(Lines), l # <<>>
    PROVE  /\ S!Trim(l) \in Seq(Lines) /\ Len(S!Trim(l)) <= Len(l)
           /\ S!Trim(l) # <<>> /\ S!Last(S!Trim(l)) = l[Len(l)]
<1>1. Len(l) \in Nat \ {0} /\ l \in [1 .. Len(l) -> Lines]
  BY LenProperties, EmptySeq
<1>2. CASE Len(l) <= TrimAt
  BY <1>1, <1>2, SettingsAssumption DEF S!Trim, S!Last
<1>3. CASE Len(l) > TrimAt
  <2> DEFINE m == Len(l) - Keep + 1
             cut == SubSeq(l, m, Len(l))
  <2>1. m \in 1 .. Len(l) /\ Len(l) - m + 1 = Keep /\ m + Keep - 1 = Len(l)
    BY <1>1, <1>3, SettingsAssumption
  <2>2. S!Trim(l) = cut
    BY <1>3 DEF S!Trim
  <2>3. \A i \in m .. Len(l) : l[i] \in Lines
    BY <1>1, <2>1
  <2>4. /\ cut \in Seq(Lines) /\ Len(cut) = Keep
        /\ \A i \in 1 .. Keep : cut[i] = l[m + i - 1]
    BY <1>1, <2>1, <2>3, SubSeqProperties
  <2> HIDE DEF m, cut
  <2>5. cut[Keep] = l[Len(l)] /\ cut # <<>> /\ Keep <= Len(l)
    BY <1>1, <1>3, <2>1, <2>4, SettingsAssumption, EmptySeq
  <2> QED BY <2>2, <2>4, <2>5, SettingsAssumption DEF S!Last
<1> QED BY <1>1, <1>2, <1>3, SettingsAssumption

\* Nothing is written, so nothing is to be undone, when the store is new.
LEMMA SettingsInit == S!Init => SettingsInv
<1> SUFFICES ASSUME S!Init PROVE SettingsInv
  OBVIOUS
<1>1. S!Defaults \in S!Config
  BY SettingsAssumption DEF S!Defaults, S!Config
<1>2. log \in Seq(Lines) /\ Len(log) = 0
  BY EmptySeq DEF S!Init
<1>3. \A l \in S!Range(log) : DOMAIN l \subseteq S!Logged
  BY <1>2, LenProperties DEF S!Range
<1>4. torn \in BOOLEAN
  BY DEF S!Init
<1>5. S!TypeOK
  BY <1>1, <1>2, <1>3, <1>4, SettingsAssumption DEF S!Init, S!TypeOK
<1> QED
  BY <1>2, <1>5, SettingsAssumption
  DEF S!Init, SettingsInv, SettingsKept, S!Undoable, S!Config

\* A log of lines has the type of the log.
LEMMA LogType ==
    ASSUME NEW l \in Seq(Lines)
    PROVE  \A x \in S!Range(l) : DOMAIN x \subseteq S!Logged
<1>1. \A i \in DOMAIN l : l[i] \in Lines
  BY LenProperties
<1> QED BY <1>1, LinesAre DEF S!Range

\* A line more, below the bound, keeps the log a log.
LEMMA LineMore ==
    ASSUME log \in Seq(Lines), Len(log) < MaxLog, NEW line \in Lines
    PROVE  /\ Append(log, line) \in Seq(Lines) /\ Append(log, line) # <<>>
           /\ Len(Append(log, line)) <= MaxLog
           /\ S!Last(Append(log, line)) = line
<1>1. Len(log) \in Nat
  BY LenProperties
<1>2. /\ Append(log, line) \in Seq(Lines)
      /\ Len(Append(log, line)) = Len(log) + 1
      /\ Append(log, line)[Len(log) + 1] = line
  BY AppendProperties
<1>3. Append(log, line) # <<>>
  BY <1>1, <1>2, EmptySeq
<1> QED BY <1>1, <1>2, <1>3, SettingsAssumption DEF S!Last

\* A line that is not written whole leaves a log, and no claim to undo.
LEMMA AppendFailsKeeps ==
    ASSUME SettingsInv, Len(log) < MaxLog, S!AppendFails
    PROVE  /\ log' \in Seq(Lines) /\ Len(log') <= MaxLog
           /\ torn' \in BOOLEAN /\ writer' = "unlogged"
<1>1. S!Half \in Lines
  <2>1. {} \in SUBSET S!Logged /\ S!Half \in [{} -> Values]
    BY DEF S!Half
  <2> QED BY <2>1, LinesAre
<1>2. log' = log \/ log' = Append(log, S!Half)
  BY DEF S!AppendFails
<1>3. log' \in Seq(Lines) /\ Len(log') <= MaxLog
  BY <1>1, <1>2, LineMore DEF SettingsInv, SettingsKept, S!TypeOK
<1> QED BY <1>3 DEF S!AppendFails, SettingsInv, S!TypeOK

\* A line that is written is the last of the log, the log cut or not.
LEMMA AppendsKeeps ==
    ASSUME SettingsInv, Len(log) < MaxLog, NEW line \in Lines, S!Appends(line)
    PROVE  /\ log' \in Seq(Lines) /\ Len(log') <= MaxLog /\ torn' = FALSE
           /\ \/ writer' = "unlogged"
              \/ writer' = "save" /\ log' # <<>> /\ S!Last(log') = line
<1>1. log \in Seq(Lines) /\ Len(log) \in Nat /\ Len(log) <= MaxLog
  BY LenProperties DEF SettingsInv, SettingsKept, S!TypeOK
<1>2. CASE torn
  <2>1. log' = log \/ log' = S!Trim(log)
    BY <1>2 DEF S!Appends
  <2>2. log' \in Seq(Lines) /\ Len(log') <= MaxLog
    <3>1. CASE log = <<>>
      <4>1. Len(log) = 0
        BY <3>1, EmptySeq
      <4>2. S!Trim(log) = log
        BY <4>1, SettingsAssumption DEF S!Trim
      <4> QED BY <1>1, <2>1, <4>2
    <3>2. CASE log # <<>>
      <4>1. S!Trim(log) \in Seq(Lines) /\ Len(S!Trim(log)) <= Len(log)
        BY <1>1, <3>2, TrimKeepsLast
      <4>2. Len(S!Trim(log)) \in Nat
        BY <4>1, LenProperties
      <4> QED BY <1>1, <2>1, <4>1, <4>2, SettingsAssumption
    <3> QED BY <3>1, <3>2
  <2> QED BY <1>2, <2>2 DEF S!Appends
<1>3. CASE ~torn
  <2> DEFINE l == Append(log, line)
  <2>1. /\ l \in Seq(Lines) /\ l # <<>> /\ Len(l) <= MaxLog /\ S!Last(l) = line
    BY <1>1, LineMore
  <2>2. log' = l \/ log' = S!Trim(l)
    BY <1>3 DEF S!Appends
  <2>3. torn' = FALSE /\ writer' = "save"
    BY <1>3 DEF S!Appends
  <2> HIDE DEF l
  <2>4. /\ S!Trim(l) \in Seq(Lines) /\ Len(S!Trim(l)) <= Len(l)
        /\ S!Trim(l) # <<>> /\ S!Last(S!Trim(l)) = l[Len(l)]
    BY <2>1, TrimKeepsLast
  <2>5. Len(l) \in Nat /\ Len(S!Trim(l)) \in Nat /\ S!Last(l) = l[Len(l)]
    BY <2>1, <2>4, LenProperties DEF S!Last
  <2> QED BY <2>1, <2>2, <2>3, <2>4, <2>5, SettingsAssumption
<1> QED BY <1>2, <1>3 DEF SettingsInv, S!TypeOK

\* A save logs what the file had, whoever wrote it: the line, if it is there,
\* undoes the save.
LEMMA SettingsSave ==
    ASSUME SettingsInv, NEW c \in S!Config, S!Save(c)
    PROVE  SettingsInv'
<1>1. /\ settingsNow' = c /\ settingsFile' = c /\ lastSaved' = c
      /\ before' = settingsFile /\ backup' = backup /\ Len(log) < MaxLog
  BY DEF S!Save
<1>2. S!LastConfig = settingsFile /\ settingsFile \in S!Config \cup {Corrupt}
  BY DEF SettingsInv, SettingsKept, S!TypeOK, S!LastConfig, S!Undoable
<1>3. log \in Seq(Lines) /\ Len(log) <= MaxLog
  BY DEF SettingsInv, SettingsKept, S!TypeOK
<1> DEFINE different == S!Changes(settingsFile, c)
           line == [f \in different |-> settingsFile[f]]
<1>t. ASSUME log' \in Seq(Lines), Len(log') <= MaxLog, torn' \in BOOLEAN,
             writer' \in {"save", "unlogged"}
      PROVE  S!TypeOK' /\ SettingsKept' /\ lastSaved' = settingsFile'
  BY <1>1, <1>2, <1>t, LogType DEF SettingsInv, S!TypeOK, SettingsKept
<1>4. CASE settingsFile \in {None, Corrupt} \/ different = {}
  <2>1. log' = log /\ torn' = torn /\ writer' = "save"
    BY <1>2, <1>4 DEF S!Save, S!RecordChange
  <2>2. settingsFile \in S!Config => \A f \in S!Logged : settingsFile[f] = c[f]
    BY <1>4, SettingsAssumption DEF S!Changes, S!Config
  <2>3. S!TypeOK' /\ SettingsKept' /\ lastSaved' = settingsFile'
    BY <1>3, <1>t, <2>1 DEF SettingsInv, S!TypeOK
  <2>4. S!Undoable'
    BY <1>1, <2>1, <2>2 DEF S!Undoable
  <2> QED BY <2>3, <2>4 DEF SettingsInv
<1>5. CASE ~(settingsFile \in {None, Corrupt} \/ different = {})
  <2>1. settingsFile \in S!Config
    BY <1>2, <1>5
  <2>2. S!AppendFails \/ S!Appends(line)
    BY <1>2, <1>5 DEF S!Save, S!RecordChange
  <2>3. line \in Lines
    <3>1. different \in SUBSET S!Logged /\ line \in [different -> Values]
      BY <2>1 DEF S!Changes, S!Config, S!Logged
    <3> QED BY <3>1, LinesAre
  <2>7. \A f \in S!Logged : (IF f \in DOMAIN line THEN line[f] ELSE c[f]) = settingsFile[f]
    BY <2>1 DEF S!Changes
  <2>8. [f \in S!Logged |-> IF f \in DOMAIN line THEN line[f] ELSE c[f]]
          = [f \in S!Logged |-> settingsFile[f]]
    BY <2>7
  <2> HIDE DEF different, line
  <2>9. /\ log' \in Seq(Lines) /\ Len(log') <= MaxLog /\ torn' \in BOOLEAN
        /\ \/ writer' = "unlogged"
           \/ writer' = "save" /\ log' # <<>> /\ S!Last(log') = line
    BY <1>1, <2>2, <2>3, AppendFailsKeeps, AppendsKeeps
  <2>10. S!TypeOK' /\ SettingsKept' /\ lastSaved' = settingsFile'
    BY <1>t, <2>9
  <2>11. S!Undoable'
    <3>1. CASE writer' = "unlogged"
      BY <2>10, <3>1 DEF S!Undoable
    <3>2. CASE writer' = "save" /\ log' # <<>> /\ S!Last(log') = line
      BY <1>1, <2>8, <3>2 DEF S!Undoable, S!Undoes
    <3> QED BY <2>9, <3>1, <3>2
  <2> QED BY <2>10, <2>11 DEF SettingsInv
<1> QED BY <1>4, <1>5

\* Whatever writes the file, its last write can be undone where what undoes it
\* was written.
LEMMA SettingsStep == SettingsInv /\ S!Next => SettingsInv'
<1> SUFFICES ASSUME SettingsInv, S!Next PROVE SettingsInv'
  OBVIOUS
<1>1. ASSUME NEW f \in Fields, NEW v \in Values
      PROVE  [settingsNow EXCEPT ![f] = v] \in S!Config
  BY DEF SettingsInv, S!TypeOK, S!Config
<1>2. ASSUME NEW f \in Fields, NEW v \in Values, S!Change(f, v) PROVE SettingsInv'
  BY <1>1, <1>2, SettingsSave DEF S!Change
<1>3. ASSUME NEW f \in Fields, NEW v \in Values, S!SaveFails(f, v) PROVE SettingsInv'
  <2>1. /\ settingsNow' = [settingsNow EXCEPT ![f] = v]
        /\ UNCHANGED <<settingsFile, lastSaved, log, torn, backup, before, writer>>
    BY <1>3 DEF S!SaveFails
  <2>2. S!TypeOK'
    BY <1>1, <2>1 DEF SettingsInv, S!TypeOK, S!Range
  <2>3. S!Undoable'
    BY <2>1 DEF SettingsInv, S!Undoable, S!Undoes, S!Last
  <2> QED BY <2>1, <2>2, <2>3 DEF SettingsInv, SettingsKept
<1>4. ASSUME NEW f \in Fields, NEW v \in Values, S!CrashAfterReplace(f, v)
      PROVE  SettingsInv'
  <2>1. /\ settingsNow' \in S!Config /\ settingsFile' = settingsNow'
        /\ lastSaved' = None /\ before' = settingsFile /\ backup' = backup
    BY <1>1, <1>4 DEF S!CrashAfterReplace
  <2>2. /\ log' \in Seq(Lines) /\ Len(log') <= MaxLog
        /\ torn' \in BOOLEAN /\ writer' = "unlogged"
    BY <1>4, AppendFailsKeeps DEF S!CrashAfterReplace
  <2>3. S!TypeOK'
    BY <2>1, <2>2, LogType DEF SettingsInv, S!TypeOK
  <2>4. S!Undoable' /\ SettingsKept'
    BY <2>1, <2>2 DEF S!Undoable, SettingsKept
  <2> QED BY <2>3, <2>4 DEF SettingsInv
<1>5. ASSUME NEW i \in DOMAIN log, S!RestoreSnapshot(i) PROVE SettingsInv'
  <2>1. log[i] \in Lines
    BY LenProperties DEF SettingsInv, SettingsKept
  <2>2. [f \in Fields |-> IF f \in DOMAIN log[i] THEN log[i][f] ELSE settingsNow[f]]
          \in S!Config
    BY <2>1, LinesAre DEF SettingsInv, S!TypeOK, S!Config
  <2> QED BY <1>5, <2>2, SettingsSave DEF S!RestoreSnapshot
<1>r. settingsFile \in S!Config =>
        /\ S!Redact(settingsFile) \in S!Config
        /\ [f \in S!Logged |-> S!Redact(settingsFile)[f]]
             = [f \in S!Logged |-> settingsFile[f]]
  BY SettingsAssumption DEF S!Config, S!Redact, S!Logged
<1>6. ASSUME NEW c \in S!Config, NEW kept \in BOOLEAN, S!ImportConfig(c, kept)
      PROVE  SettingsInv'
  <2>1. /\ before' = settingsFile /\ lastSaved' = None
        /\ writer' = IF kept THEN "import" ELSE "unsaved"
        /\ settingsFile' \in S!Config \cup {Corrupt}
        /\ UNCHANGED <<settingsNow, log, torn>>
    BY <1>6 DEF S!ImportConfig, SettingsInv, S!TypeOK
  <2>2. /\ backup' = IF kept THEN S!Redact(settingsFile) ELSE backup
        /\ kept => settingsFile # Corrupt
    BY <1>6 DEF S!ImportConfig, S!BackupCurrentConfig
  <2>3. S!Undoable'
    BY <1>r, <2>1, <2>2 DEF S!Undoable
  <2>4. S!TypeOK'
    BY <1>r, <2>1, <2>2 DEF SettingsInv, S!TypeOK, S!Range
  <2> QED BY <2>1, <2>3, <2>4 DEF SettingsInv, SettingsKept
<1>7. CASE S!ImportRaises
  <2>1. /\ writer' = IF writer = "import" THEN "unsaved" ELSE writer
        /\ backup' = S!Redact(settingsFile) /\ settingsFile # Corrupt
        /\ UNCHANGED <<settingsNow, settingsFile, lastSaved, log, torn, before>>
    BY <1>7 DEF S!ImportRaises, S!BackupCurrentConfig
  <2>2. S!TypeOK'
    BY <1>r, <2>1 DEF SettingsInv, S!TypeOK, S!Range
  <2>3. S!Undoable'
    BY <2>1 DEF SettingsInv, S!Undoable, S!Undoes, S!Last
  <2> QED BY <2>1, <2>2, <2>3 DEF SettingsInv, SettingsKept
<1>8. CASE S!DeleteBackups
  <2>1. /\ log' = <<>> /\ torn' = FALSE /\ backup' = None /\ writer' = "none"
        /\ UNCHANGED <<settingsNow, settingsFile, lastSaved, before>>
    BY <1>8 DEF S!DeleteBackups
  <2>2. log' \in Seq(Lines) /\ Len(log') = 0
    BY <2>1, EmptySeq
  <2>3. torn' \in BOOLEAN
    BY <2>1
  <2>5. Len(log') <= MaxLog /\ \A l \in S!Range(log') : DOMAIN l \subseteq S!Logged
    <3>1. Len(log') <= MaxLog
      BY <2>2, SettingsAssumption
    <3>2. \A i \in DOMAIN log' : FALSE
      BY <2>2, LenProperties
    <3> QED BY <3>1, <3>2 DEF S!Range
  <2>6. backup' \in S!Config \cup {None} /\ writer' = "none"
    BY <2>1
  <2>4. S!TypeOK'
    <3>1. UNCHANGED <<settingsNow, settingsFile, lastSaved, before>>
      BY <2>1
    <3> QED BY <2>3, <2>5, <2>6, <3>1 DEF SettingsInv, S!TypeOK
  <2> QED BY <2>1, <2>2, <2>4 DEF SettingsInv, SettingsKept, S!Undoable
<1>9. CASE S!Load
  <2>1. S!Defaults \in S!Config
    BY SettingsAssumption DEF S!Defaults, S!Config
  <2> QED BY <1>9, <2>1 DEF S!Load, SettingsInv, S!TypeOK, SettingsKept, S!Undoable,
                          S!Undoes, S!Range, S!Last
<1> QED
  BY <1>2, <1>3, <1>4, <1>5, <1>6, <1>7, <1>8, <1>9 DEF S!Next

-----------------------------------------------------------------------------
(* Window                                                                  *)

WindowInv ==
    /\ V!TypeOK /\ V!PageIsCurrent
    /\ ~windowLoaded => \A t \in OneTorrent : row[t] = None

\* No row is shown before the page is loaded.
LEMMA WindowInit == V!Init => WindowInv
<1> SUFFICES ASSUME V!Init PROVE WindowInv
  OBVIOUS
<1>1. windowRecord \in [OneTorrent -> Revisions \cup {None}] /\ row = windowRecord
  BY DEF V!Init
<1>2. timers \in 0 .. MaxTimers
  BY WindowAssumption DEF V!Init
<1> QED
  BY <1>1, <1>2 DEF V!Init, WindowInv, V!TypeOK, V!PageIsCurrent

\* A row is behind its record only until the next alert, or while nobody looks.
LEMMA WindowStep == WindowInv /\ V!Next => WindowInv'
<1> SUFFICES ASSUME WindowInv, V!Next PROVE WindowInv'
  OBVIOUS
<1> USE WindowAssumption
    DEF WindowInv, V!TypeOK, V!PageIsCurrent, V!rows, V!resize, V!Push
<1>1. ASSUME NEW t \in OneTorrent, V!Added(t) PROVE WindowInv'
  BY <1>1 DEF V!Added
<1>2. ASSUME NEW t \in OneTorrent, V!Removed(t) PROVE WindowInv'
  BY <1>2 DEF V!Removed
<1>3. ASSUME NEW t \in OneTorrent, V!Progress(t) PROVE WindowInv'
  BY <1>3 DEF V!Progress
<1>4. CASE V!StatusBatch
  BY <1>4 DEF V!StatusBatch
<1>5. CASE V!PageLoaded
  BY <1>5 DEF V!PageLoaded
<1>6. ASSUME NEW b \in BOOLEAN, V!ShowOrHide(b) PROVE WindowInv'
  BY <1>6 DEF V!ShowOrHide, V!SetLive
<1>7. ASSUME NEW b \in BOOLEAN, V!BeginResizeFreeze(b) PROVE WindowInv'
  BY <1>7 DEF V!BeginResizeFreeze
<1>8. CASE V!Resize
  BY <1>8 DEF V!Resize
<1>9. CASE V!EndResizeFreeze
  <2>1. timers' \in 0 .. MaxTimers /\ timers' > 0
    BY <1>9 DEF V!EndResizeFreeze
  <2>2. /\ resizing' = FALSE /\ fits' = TRUE
        /\ UNCHANGED <<windowRecord, changed, row, windowLoaded, visible, windowLive, overlay>>
    BY <1>9 DEF V!EndResizeFreeze
  <2>3. V!TypeOK'
    BY <2>1, <2>2
  <2> QED BY <2>1, <2>2, <2>3
<1>10. CASE V!ReleaseResizeOverlay
  BY <1>10 DEF V!ReleaseResizeOverlay
<1> QED
  BY <1>1, <1>2, <1>3, <1>4, <1>5, <1>6, <1>7, <1>8, <1>9, <1>10 DEF V!Next

-----------------------------------------------------------------------------
(* Storage                                                                 *)

\* While the files are not where libtorrent has them, no path that was told,
\* or will be, is theirs: an archive lock cannot find them.
StorageKept ==
    /\ told \in Seq(Places \ Denied)
    /\ storageFiles # storagePlace =>
          /\ storagePath # storageFiles
          /\ \A k \in 1 .. Len(told) : told[k] # storageFiles
    /\ locked /\ ~blind => storageFiles = storagePlace

StorageInv == M!TypeOK /\ M!PathFollows /\ M!LockTells /\ StorageKept

\* The files start where the record says.
LEMMA StorageInit == M!Init => StorageInv
<1> SUFFICES ASSUME M!Init PROVE StorageInv
  OBVIOUS
<1>1. /\ told \in Seq(Places \ Denied) /\ told \in Seq(Places)
      /\ Len(told) = 0 /\ Len(told) <= MaxTold
  BY EmptySeq, StorageAssumption DEF M!Init
<1> QED
  BY <1>1 DEF M!Init, StorageInv, M!TypeOK, M!PathFollows, M!LockTells, StorageKept

\* An alert more carries libtorrent's path, and is the last to be heard.
LEMMA ToldMore ==
    ASSUME StorageInv, NEW p \in Places \ Denied, Len(told) < MaxTold,
           told' = Append(told, p)
    PROVE  /\ told' \in Seq(Places \ Denied) /\ told' \in Seq(Places)
           /\ Len(told') <= MaxTold /\ told' # <<>> /\ told'[Len(told')] = p
           /\ \A k \in 1 .. Len(told') : told'[k] = p \/ \E j \in 1 .. Len(told) : told'[k] = told[j]
<1>1. told \in Seq(Places \ Denied) /\ told \in Seq(Places) /\ Len(told) \in Nat
  BY LenProperties DEF StorageInv, StorageKept, M!TypeOK
<1>2. /\ told' \in Seq(Places \ Denied) /\ told' # <<>> /\ Len(told') = Len(told) + 1
      /\ \A k \in 1 .. Len(told) : told'[k] = told[k]
      /\ told'[Len(told) + 1] = p
  BY <1>1, AppendProperties
<1>3. told' \in Seq(Places)
  BY <1>1, AppendProperties
<1> QED BY <1>1, <1>2, <1>3, StorageAssumption

\* The record follows the alerts, and a lock that found the files keeps them
\* read-only.
LEMMA StorageStep == StorageInv /\ M!Next => StorageInv'
<1> SUFFICES ASSUME StorageInv, M!Next PROVE StorageInv'
  OBVIOUS
<1>1. ASSUME NEW p \in Places, M!MoveStorage(p) PROVE StorageInv'
  BY <1>1
  DEF M!MoveStorage, M!IsSafeMoveDestination, StorageInv, M!TypeOK, M!PathFollows,
      M!LockTells, StorageKept
<1>2. ASSUME NEW on \in BOOLEAN, M!LockTorrent(on) PROVE StorageInv'
  BY <1>2
  DEF M!LockTorrent, M!ChmodTorrentFiles, StorageInv, M!TypeOK, M!PathFollows,
      M!LockTells, StorageKept
<1>3. ASSUME NEW clean \in BOOLEAN, M!Restart(clean) PROVE StorageInv'
  <2>1. /\ told' \in Seq(Places \ Denied) /\ told' \in Seq(Places)
        /\ Len(told') = 0 /\ Len(told') <= MaxTold
    BY <1>3, EmptySeq, StorageAssumption DEF M!Restart
  <2>2. /\ storageSaved' \in Places \ Denied /\ storagePlace' = storageSaved'
        /\ storagePath' = storageSaved' /\ moving' = None /\ told' = <<>> /\ locked' = FALSE
        /\ UNCHANGED <<storageFiles, readOnly, blind>>
    BY <1>3 DEF M!Restart, StorageInv, M!TypeOK
  <2>3. M!TypeOK'
    BY <2>1, <2>2 DEF StorageInv, M!TypeOK
  <2>4. M!PathFollows' /\ M!LockTells'
    BY <2>2 DEF M!PathFollows, M!LockTells
  <2>5. StorageKept'
    BY <2>1, <2>2 DEF StorageKept
  <2> QED BY <2>3, <2>4, <2>5 DEF StorageInv
<1>4. CASE M!Moved
  <2>1. moving \in Places \ Denied /\ Len(told) < MaxTold /\ told' = Append(told, moving)
    BY <1>4 DEF M!Moved, StorageInv, M!TypeOK
  <2>2. PICK p \in Places \ Denied : p = moving
    BY <2>1
  <2>3. /\ told' \in Seq(Places \ Denied) /\ told' \in Seq(Places)
        /\ Len(told') <= MaxTold /\ told' # <<>> /\ told'[Len(told')] = p
        /\ \A k \in 1 .. Len(told') : told'[k] = p \/ \E j \in 1 .. Len(told) : told'[k] = told[j]
    BY <2>1, <2>2, ToldMore
  <2>4. /\ storagePlace' = p /\ moving' = None
        /\ storageFiles' = IF storageFiles = storagePlace THEN p ELSE storageFiles
        /\ UNCHANGED <<storagePath, storageSaved, readOnly, locked, blind>>
    BY <1>4, <2>2 DEF M!Moved
  <2>5. M!TypeOK'
    BY <2>3, <2>4 DEF StorageInv, M!TypeOK
  <2>6. StorageKept'
    BY <2>3, <2>4 DEF StorageInv, StorageKept
  <2> QED BY <2>3, <2>4, <2>5, <2>6 DEF StorageInv, M!PathFollows, M!LockTells
<1>5. CASE M!MoveFails
  BY <1>5
  DEF M!MoveFails, StorageInv, M!TypeOK, M!PathFollows, M!LockTells, StorageKept
<1>6. CASE M!PostStatus
  <2>1. storagePlace \in Places \ Denied /\ Len(told) < MaxTold
        /\ told' = Append(told, storagePlace)
    BY <1>6 DEF M!PostStatus, StorageInv, M!TypeOK
  <2>2. PICK p \in Places \ Denied : p = storagePlace
    BY <2>1
  <2>3. /\ told' \in Seq(Places \ Denied) /\ told' \in Seq(Places)
        /\ Len(told') <= MaxTold /\ told' # <<>> /\ told'[Len(told')] = p
        /\ \A k \in 1 .. Len(told') : told'[k] = p \/ \E j \in 1 .. Len(told) : told'[k] = told[j]
    BY <2>1, <2>2, ToldMore
  <2>4. UNCHANGED <<storagePath, storagePlace, storageFiles, moving, storageSaved, readOnly,
                    locked, blind>>
    BY <1>6 DEF M!PostStatus
  <2> QED BY <2>2, <2>3, <2>4
          DEF StorageInv, M!TypeOK, M!PathFollows, M!LockTells, StorageKept
<1>7. CASE M!OnStorageMoved
  <2>1. /\ told # <<>> /\ storagePath' = Head(told) /\ told' = Tail(told)
        /\ UNCHANGED <<storagePlace, storageFiles, moving, storageSaved, readOnly, locked, blind>>
    BY <1>7 DEF M!OnStorageMoved
  <2>2. /\ told \in Seq(Places \ Denied) /\ told \in Seq(Places)
        /\ Len(told) \in Nat \ {0} /\ Len(told) <= MaxTold
    BY <2>1, EmptySeq DEF StorageInv, StorageKept, M!TypeOK
  <2>3. /\ told' \in Seq(Places \ Denied) /\ told' \in Seq(Places)
        /\ Len(told') = Len(told) - 1
        /\ \A k \in 1 .. Len(told') : told'[k] = told[k + 1]
        /\ storagePath' = told[1] /\ storagePath' \in Places \ Denied
    BY <2>1, <2>2, HeadTailProperties
  <2>4. told' = <<>> <=> Len(told') = 0
    BY <2>3, EmptySeq
  <2>5. M!TypeOK'
    BY <2>1, <2>2, <2>3, StorageAssumption DEF StorageInv, M!TypeOK
  <2>6. M!PathFollows'
    BY <2>1, <2>2, <2>3, <2>4 DEF StorageInv, M!PathFollows
  <2>7. StorageKept'
    BY <2>1, <2>2, <2>3 DEF StorageInv, StorageKept
  <2> QED BY <2>1, <2>5, <2>6, <2>7 DEF StorageInv, M!LockTells
<1>8. CASE M!SaveResume
  BY <1>8
  DEF M!SaveResume, StorageInv, M!TypeOK, M!PathFollows, M!LockTells, StorageKept
<1>9. CASE M!Redownload
  BY <1>9
  DEF M!Redownload, StorageInv, M!TypeOK, M!PathFollows, M!LockTells, StorageKept
<1> QED
  BY <1>1, <1>2, <1>3, <1>4, <1>5, <1>6, <1>7, <1>8, <1>9 DEF M!Next

-----------------------------------------------------------------------------
(* Rechecks                                                                *)

RechecksInv ==
    /\ K!TypeOK
    /\ \A t \in OneTorrent :
          /\ rechecked[t] <= rechecksNow
          /\ last[t] # K!Never => rechecked[t] <= last[t] /\ rechecksStarted <= last[t]

\* Nothing has been rechecked when the application starts.
LEMMA RechecksInit == K!Init => RechecksInv
<1> SUFFICES ASSUME K!Init PROVE RechecksInv
  OBVIOUS
<1>1. K!Never \in K!Never .. MaxDays /\ 0 \in 0 .. MaxDays /\ K!Never <= 0
  BY RechecksAssumption DEF K!Never
<1>2. /\ last \in [OneTorrent -> K!Never .. MaxDays]
      /\ rechecked \in [OneTorrent -> K!Never .. MaxDays]
      /\ state \in [OneTorrent -> {"finished", "checking", "other"}]
  BY <1>1 DEF K!Init
<1>3. /\ rechecksNow \in 0 .. MaxDays /\ rechecksEnabled \in BOOLEAN
      /\ rechecksStarted \in 0 .. rechecksNow
  <2>1. rechecksNow = 0 /\ rechecksStarted = 0 /\ rechecksEnabled = FALSE
    BY DEF K!Init
  <2>2. 0 \in 0 .. 0
    OBVIOUS
  <2> QED BY <1>1, <2>1, <2>2
<1>4. \A t \in OneTorrent : rechecked[t] <= rechecksNow /\ last[t] = K!Never
  BY <1>1 DEF K!Init
<1> QED
  BY <1>2, <1>3, <1>4 DEF RechecksInv, K!TypeOK

\* A clock that runs was started in this process, and started, or started
\* again, by the last recheck or since.
LEMMA RechecksStep == RechecksInv /\ K!Next => RechecksInv'
<1> SUFFICES ASSUME RechecksInv, K!Next PROVE RechecksInv'
  OBVIOUS
<1> USE RechecksAssumption DEF RechecksInv, K!TypeOK, K!Never
<1>1. CASE K!NextDay
  BY <1>1 DEF K!NextDay
<1>2. CASE K!SetEnabled
  BY <1>2 DEF K!SetEnabled
<1>3. CASE K!EvaluateNow
  <2>1. /\ last' = [t \in OneTorrent |-> K!Clock(t)]
        /\ rechecked' = [t \in OneTorrent |-> IF t \in K!Due THEN rechecksNow ELSE rechecked[t]]
        /\ state' = [t \in OneTorrent |-> IF t \in K!Due THEN "checking" ELSE state[t]]
        /\ UNCHANGED <<rechecksNow, rechecksEnabled, rechecksStarted>>
    BY <1>3 DEF K!EvaluateNow
  <2>2. ASSUME NEW t \in OneTorrent
        PROVE  /\ K!Clock(t) \in {K!Never, rechecksNow, last[t]}
               /\ K!Clock(t) \in K!Never .. MaxDays
               /\ t \in K!Due => K!Clock(t) = rechecksNow
    BY DEF K!Clock, K!Due, K!Finished
  <2>3. last' \in [OneTorrent -> K!Never .. MaxDays]
    BY <2>1, <2>2
  <2>4. rechecked' \in [OneTorrent -> K!Never .. MaxDays]
        /\ state' \in [OneTorrent -> {"finished", "checking", "other"}]
    BY <2>1
  <2>5. ASSUME NEW t \in OneTorrent
        PROVE  /\ rechecked'[t] <= rechecksNow'
               /\ last'[t] # K!Never =>
                      rechecked'[t] <= last'[t] /\ rechecksStarted' <= last'[t]
    BY <2>1, <2>2
  <2> QED BY <2>1, <2>3, <2>4, <2>5
<1>4. CASE K!Restart
  BY <1>4 DEF K!Restart
<1>5. ASSUME NEW t \in OneTorrent, NEW s \in {"finished", "checking", "other"},
             K!StateBecomes(t, s)
      PROVE  RechecksInv'
  BY <1>5 DEF K!StateBecomes
<1> QED
  BY <1>1, <1>2, <1>3, <1>4, <1>5 DEF K!Next

\* A torrent is due when its clock says so, and the clock is no older than
\* its last recheck, nor than the process.
LEMMA RechecksApart ==
    ASSUME RechecksInv, K!Next, NEW t \in OneTorrent, rechecked'[t] # rechecked[t]
    PROVE  /\ rechecksNow - rechecksStarted >= Interval
           /\ rechecked[t] = K!Never \/ rechecksNow - rechecked[t] >= Interval
<1>1. CASE K!EvaluateNow
  <2>1. t \in K!Due
    BY <1>1 DEF K!EvaluateNow
  <2> QED BY <2>1, RechecksAssumption DEF K!Due, RechecksInv, K!TypeOK, K!Never
<1>2. CASE K!NextDay \/ K!SetEnabled \/ K!Restart
  BY <1>2 DEF K!NextDay, K!SetEnabled, K!Restart
<1>3. ASSUME NEW u \in OneTorrent, NEW s \in {"finished", "checking", "other"},
             K!StateBecomes(u, s)
      PROVE  FALSE
  BY <1>3 DEF K!StateBecomes
<1> QED BY <1>1, <1>2, <1>3 DEF K!Next

-----------------------------------------------------------------------------
(* All of them                                                             *)

TrafficInv == LimitsInv /\ ProfilesInv /\ GovernorInv /\ SharesInv /\ PeersInv /\ BlocklistInv
SourcesInv == FeedInv /\ FolderInv /\ RulesInv /\ AddInv /\ LaunchInv /\ RemoteInv
RecordsInv == StatisticsInv /\ SettingsInv /\ LabelsInv /\ StorageInv /\ JournalInv /\ RechecksInv
ProcessInv == WindowInv /\ UpdatesInv /\ DeadlinesInv /\ Q!TypeOK

ServicesInv ==
    which \in Services /\ TrafficInv /\ SourcesInv /\ RecordsInv /\ ProcessInv

\* A service of Traffic that takes no step keeps its invariant.
LEMMA TrafficStays ==
    TrafficInv =>
        /\ UNCHANGED limitsVars => LimitsInv'
        /\ UNCHANGED profilesVars => ProfilesInv'
        /\ UNCHANGED governorVars => GovernorInv'
        /\ UNCHANGED sharesVars => SharesInv'
        /\ UNCHANGED peersVars => PeersInv'
        /\ UNCHANGED blocklistVars => BlocklistInv'
<1> SUFFICES ASSUME TrafficInv
             PROVE  /\ UNCHANGED limitsVars => LimitsInv'
                    /\ UNCHANGED profilesVars => ProfilesInv'
                    /\ UNCHANGED governorVars => GovernorInv'
                    /\ UNCHANGED sharesVars => SharesInv'
                    /\ UNCHANGED peersVars => PeersInv'
                    /\ UNCHANGED blocklistVars => BlocklistInv'
  OBVIOUS
<1>1. UNCHANGED limitsVars => LimitsInv'
  BY DEF limitsVars, TrafficInv, LimitsInv, L!TypeOK, L!RateIsIntended, L!Intended,
         L!CurrentLimit
<1>2. UNCHANGED profilesVars => ProfilesInv'
  BY DEF profilesVars, TrafficInv, ProfilesInv, N!TypeOK, N!OneQuery
<1>3. UNCHANGED governorVars => GovernorInv'
  BY DEF governorVars, TrafficInv, GovernorInv, G!TypeOK, G!HeldTogether
<1>4. UNCHANGED sharesVars => SharesInv'
  BY DEF sharesVars, TrafficInv, SharesInv, H!TypeOK, H!FileFollows, H!Limits
<1>5. UNCHANGED peersVars => PeersInv'
  BY DEF peersVars, TrafficInv, PeersInv, P!TypeOK, P!NoByteTwice, P!StoresFollow,
         PeersKept, P!Nil, P!Purged
<1>6. UNCHANGED blocklistVars => BlocklistInv'
  BY DEF blocklistVars, TrafficInv, BlocklistInv, B!TypeOK, B!FilteredFirst, BlocklistKept
<1> QED BY <1>1, <1>2, <1>3, <1>4, <1>5, <1>6

\* A service of Sources that takes no step keeps its invariant.
LEMMA SourcesStays ==
    SourcesInv =>
        /\ UNCHANGED feedVars => FeedInv'
        /\ UNCHANGED folderVars => FolderInv'
        /\ UNCHANGED rulesVars => RulesInv'
        /\ UNCHANGED addVars => AddInv'
        /\ UNCHANGED launchVars => LaunchInv'
        /\ UNCHANGED remoteVars => RemoteInv'
<1> SUFFICES ASSUME SourcesInv
             PROVE  /\ UNCHANGED feedVars => FeedInv'
                    /\ UNCHANGED folderVars => FolderInv'
                    /\ UNCHANGED rulesVars => RulesInv'
                    /\ UNCHANGED addVars => AddInv'
                    /\ UNCHANGED launchVars => LaunchInv'
                    /\ UNCHANGED remoteVars => RemoteInv'
  OBVIOUS
<1>1. UNCHANGED feedVars => FeedInv'
  BY DEF feedVars, SourcesInv, FeedInv, F!TypeOK, F!HandedOnce, F!ScannedFirst,
         FeedKept
<1>2. UNCHANGED folderVars => FolderInv'
  BY DEF folderVars, SourcesInv, FolderInv, W!TypeOK, W!TriedOnce, W!AddedOnce,
         W!PlaceTells, FolderKept
<1>3. UNCHANGED addVars => AddInv'
  BY DEF addVars, SourcesInv, AddInv, A!TypeOK, A!OneChoice
<1>4. UNCHANGED launchVars => LaunchInv'
  BY DEF launchVars, SourcesInv, LaunchInv, O!TypeOK, O!OpenedOnce, O!PlacesOf
<1>5. UNCHANGED remoteVars => RemoteInv'
  BY DEF remoteVars, SourcesInv, RemoteInv, C!TypeOK, C!NeverOpen
<1>6. UNCHANGED rulesVars => RulesInv'
  BY DEF rulesVars, SourcesInv, RulesInv
<1> QED BY <1>1, <1>2, <1>3, <1>4, <1>5, <1>6

\* A service of Records that takes no step keeps its invariant.
LEMMA RecordsStays ==
    RecordsInv =>
        /\ UNCHANGED statisticsVars => StatisticsInv'
        /\ UNCHANGED settingsVars => SettingsInv'
        /\ UNCHANGED labelsVars => LabelsInv'
        /\ UNCHANGED storageVars => StorageInv'
        /\ UNCHANGED journalVars => JournalInv'
        /\ UNCHANGED rechecksVars => RechecksInv'
<1> SUFFICES ASSUME RecordsInv
             PROVE  /\ UNCHANGED statisticsVars => StatisticsInv'
                    /\ UNCHANGED settingsVars => SettingsInv'
                    /\ UNCHANGED labelsVars => LabelsInv'
                    /\ UNCHANGED storageVars => StorageInv'
                    /\ UNCHANGED journalVars => JournalInv'
                    /\ UNCHANGED rechecksVars => RechecksInv'
  OBVIOUS
<1>1. UNCHANGED statisticsVars => StatisticsInv'
  BY DEF statisticsVars, RecordsInv, StatisticsInv, T!TypeOK, StatisticsKept, T!NoCount,
         CopyKept
<1>2. UNCHANGED settingsVars => SettingsInv'
  BY DEF settingsVars, RecordsInv, SettingsInv, S!TypeOK, S!Undoable, SettingsKept,
         S!Logged, S!Undoes, Lines
<1>3. UNCHANGED labelsVars => LabelsInv'
  BY DEF labelsVars, RecordsInv, LabelsInv, E!TypeOK, LabelsKept
<1>4. UNCHANGED storageVars => StorageInv'
  BY DEF storageVars, RecordsInv, StorageInv, M!TypeOK, M!PathFollows, M!LockTells,
         StorageKept
<1>5. UNCHANGED journalVars => JournalInv'
  BY DEF journalVars, RecordsInv, JournalInv, J!TypeOK, J!ToldOnce, JournalKept
<1>6. UNCHANGED rechecksVars => RechecksInv'
  BY DEF rechecksVars, RecordsInv, RechecksInv, K!TypeOK
<1> QED BY <1>1, <1>2, <1>3, <1>4, <1>5, <1>6

\* A service of Process that takes no step keeps its invariant.
LEMMA ProcessStays ==
    ProcessInv =>
        /\ UNCHANGED windowVars => WindowInv'
        /\ UNCHANGED updatesVars => UpdatesInv'
        /\ UNCHANGED deadlinesVars => DeadlinesInv'
        /\ UNCHANGED tasksVars => Q!TypeOK'
<1> SUFFICES ASSUME ProcessInv
             PROVE  /\ UNCHANGED windowVars => WindowInv'
                    /\ UNCHANGED updatesVars => UpdatesInv'
                    /\ UNCHANGED deadlinesVars => DeadlinesInv'
                    /\ UNCHANGED tasksVars => Q!TypeOK'
  OBVIOUS
<1>1. UNCHANGED windowVars => WindowInv'
  BY DEF windowVars, ProcessInv, WindowInv, V!TypeOK, V!PageIsCurrent
<1>2. UNCHANGED updatesVars => UpdatesInv'
  BY DEF updatesVars, ProcessInv, UpdatesInv, U!TypeOK, U!OnlyVerified, UpdatesKept
<1>3. UNCHANGED deadlinesVars => DeadlinesInv'
  BY DEF deadlinesVars, ProcessInv, DeadlinesInv
<1>4. UNCHANGED tasksVars => Q!TypeOK'
  BY DEF tasksVars, ProcessInv, Q!TypeOK
<1> QED BY <1>1, <1>2, <1>3, <1>4

\* One service of Traffic takes its step, or none does; the others stay.
LEMMA TrafficSteps == TrafficInv /\ (Traffic \/ UNCHANGED traffic) => TrafficInv'
<1> SUFFICES ASSUME TrafficInv, Traffic \/ UNCHANGED traffic PROVE TrafficInv'
  OBVIOUS
<1>1. LimitsInv'
  <2>1. L!Next \/ UNCHANGED limitsVars
    BY DEF Traffic, traffic
  <2> QED BY <2>1, TrafficStays, LimitsStep DEF TrafficInv
<1>2. ProfilesInv'
  <2>1. N!Next \/ UNCHANGED profilesVars
    BY DEF Traffic, traffic
  <2> QED BY <2>1, TrafficStays, ProfilesStep DEF TrafficInv
<1>3. GovernorInv'
  <2>1. G!Next \/ UNCHANGED governorVars
    BY DEF Traffic, traffic
  <2> QED BY <2>1, TrafficStays, GovernorStep DEF TrafficInv
<1>4. SharesInv'
  <2>1. H!Next \/ UNCHANGED sharesVars
    BY DEF Traffic, traffic
  <2> QED BY <2>1, TrafficStays, SharesStep DEF TrafficInv
<1>5. PeersInv'
  <2>1. P!Next \/ UNCHANGED peersVars
    BY DEF Traffic, traffic
  <2> QED BY <2>1, TrafficStays, PeersStep DEF TrafficInv
<1>6. BlocklistInv'
  <2>1. B!Next \/ UNCHANGED blocklistVars
    BY DEF Traffic, traffic
  <2> QED BY <2>1, TrafficStays, BlocklistStep DEF TrafficInv
<1> QED BY <1>1, <1>2, <1>3, <1>4, <1>5, <1>6 DEF TrafficInv

\* One service of Sources takes its step, or none does; the others stay.
LEMMA SourcesSteps == SourcesInv /\ (Sources \/ UNCHANGED sources) => SourcesInv'
<1> SUFFICES ASSUME SourcesInv, Sources \/ UNCHANGED sources PROVE SourcesInv'
  OBVIOUS
<1>1. FeedInv'
  <2>1. F!Next \/ UNCHANGED feedVars
    BY DEF Sources, sources
  <2> QED BY <2>1, SourcesStays, FeedStep DEF SourcesInv
<1>2. FolderInv'
  <2>1. W!Next \/ UNCHANGED folderVars
    BY DEF Sources, sources
  <2> QED BY <2>1, SourcesStays, FolderStep DEF SourcesInv
<1>3. AddInv'
  <2>1. A!Next \/ UNCHANGED addVars
    BY DEF Sources, sources
  <2> QED BY <2>1, SourcesStays, AddStep DEF SourcesInv
<1>4. LaunchInv'
  <2>1. O!Next \/ UNCHANGED launchVars
    BY DEF Sources, sources
  <2> QED BY <2>1, SourcesStays, LaunchStep DEF SourcesInv
<1>5. RemoteInv'
  <2>1. C!Next \/ UNCHANGED remoteVars
    BY DEF Sources, sources
  <2> QED BY <2>1, SourcesStays, RemoteStep DEF SourcesInv
<1>6. RulesInv'
  <2>1. R!Next \/ UNCHANGED rulesVars
    BY DEF Sources, sources
  <2> QED BY <2>1, SourcesStays, RulesStep DEF SourcesInv
<1> QED BY <1>1, <1>2, <1>3, <1>4, <1>5, <1>6 DEF SourcesInv

\* One service of Records takes its step, or none does; the others stay.
LEMMA RecordsSteps == RecordsInv /\ (Records \/ UNCHANGED records) => RecordsInv'
<1> SUFFICES ASSUME RecordsInv, Records \/ UNCHANGED records PROVE RecordsInv'
  OBVIOUS
<1>1. StatisticsInv'
  <2>1. T!Next \/ UNCHANGED statisticsVars
    BY DEF Records, records
  <2> QED BY <2>1, RecordsStays, StatisticsStep DEF RecordsInv
<1>2. SettingsInv'
  <2>1. S!Next \/ UNCHANGED settingsVars
    BY DEF Records, records
  <2> QED BY <2>1, RecordsStays, SettingsStep DEF RecordsInv
<1>3. LabelsInv'
  <2>1. E!Next \/ UNCHANGED labelsVars
    BY DEF Records, records
  <2> QED BY <2>1, RecordsStays, LabelsStep DEF RecordsInv
<1>4. StorageInv'
  <2>1. M!Next \/ UNCHANGED storageVars
    BY DEF Records, records
  <2> QED BY <2>1, RecordsStays, StorageStep DEF RecordsInv
<1>5. JournalInv'
  <2>1. J!Next \/ UNCHANGED journalVars
    BY DEF Records, records
  <2> QED BY <2>1, RecordsStays, JournalStep DEF RecordsInv
<1>6. RechecksInv'
  <2>1. K!Next \/ UNCHANGED rechecksVars
    BY DEF Records, records
  <2> QED BY <2>1, RecordsStays, RechecksStep DEF RecordsInv
<1> QED BY <1>1, <1>2, <1>3, <1>4, <1>5, <1>6 DEF RecordsInv

\* One service of Process takes its step, or none does; the others stay.
LEMMA ProcessSteps == ProcessInv /\ (Process \/ UNCHANGED process) => ProcessInv'
<1> SUFFICES ASSUME ProcessInv, Process \/ UNCHANGED process PROVE ProcessInv'
  OBVIOUS
<1>1. WindowInv'
  <2>1. V!Next \/ UNCHANGED windowVars
    BY DEF Process, process
  <2> QED BY <2>1, ProcessStays, WindowStep DEF ProcessInv
<1>2. UpdatesInv'
  <2>1. U!Next \/ UNCHANGED updatesVars
    BY DEF Process, process
  <2> QED BY <2>1, ProcessStays, UpdatesStep DEF ProcessInv
<1>3. DeadlinesInv'
  <2>1. Y!Next \/ UNCHANGED deadlinesVars
    BY DEF Process, process
  <2> QED BY <2>1, ProcessStays, DeadlinesStep DEF ProcessInv
<1>4. Q!TypeOK'
  <2>1. Q!Next \/ UNCHANGED tasksVars
    BY DEF Process, process
  <2> QED BY <2>1, ProcessStays, TasksStep DEF ProcessInv
<1> QED BY <1>1, <1>2, <1>3, <1>4 DEF ProcessInv

\* Every service starts in its invariant.
LEMMA ServicesInit == Init => ServicesInv
<1> SUFFICES ASSUME Init PROVE ServicesInv
  OBVIOUS
<1>1. TrafficInv
  BY LimitsInit, ProfilesInit, GovernorInit, SharesInit, PeersInit, BlocklistInit
  DEF Init, TrafficInv
<1>2. SourcesInv
  BY FeedInit, FolderInit, RulesInit, AddInit, LaunchInit, RemoteInit DEF Init, SourcesInv
<1>3. RecordsInv
  BY StatisticsInit, SettingsInit, LabelsInit, StorageInit, JournalInit, RechecksInit
  DEF Init, RecordsInv
<1>4. ProcessInv
  BY WindowInit, UpdatesInit, DeadlinesInit, TasksStep DEF Init, ProcessInv
<1> QED
  BY <1>1, <1>2, <1>3, <1>4 DEF Init, ServicesInv

\* A step is one of one group, and the three others stay as they are.
LEMMA ServicesStep == ServicesInv /\ [Next]_vars => ServicesInv'
<1> SUFFICES ASSUME ServicesInv, [Next]_vars PROVE ServicesInv'
  OBVIOUS
<1>1. TrafficInv'
  BY TrafficSteps DEF ServicesInv, Next, vars, Sources, Records, Process
<1>2. SourcesInv'
  BY SourcesSteps DEF ServicesInv, Next, vars, Traffic, Records, Process
<1>3. RecordsInv'
  BY RecordsSteps DEF ServicesInv, Next, vars, Traffic, Sources, Process
<1>4. ProcessInv'
  BY ProcessSteps DEF ServicesInv, Next, vars, Traffic, Sources, Records
<1>5. (which \in Services)'
  BY DEF ServicesInv, Next, vars, Traffic, Sources, Records, Process, Services
<1> QED
  BY <1>1, <1>2, <1>3, <1>4, <1>5 DEF ServicesInv

\* All the services keep what they promise, whatever the limits, the
\* torrents, the peers, the files and the bounds are.
THEOREM ServicesInductive == Spec => []ServicesInv
  BY ServicesInit, ServicesStep, PTL DEF Spec

\* Every service keeps its state in the types of its model.
THEOREM ServicesTyped == Spec => []TypeOK
<1>1. ServicesInv => TypeOK
  <2> SUFFICES ASSUME ServicesInv PROVE TypeOK
    OBVIOUS
  <2>1. which \in Services
    BY DEF ServicesInv
  <2>2. L!TypeOK /\ N!TypeOK /\ G!TypeOK /\ H!TypeOK /\ P!TypeOK /\ B!TypeOK
    BY DEF ServicesInv, TrafficInv, LimitsInv, ProfilesInv, GovernorInv, SharesInv, PeersInv,
           BlocklistInv
  <2>3. F!TypeOK /\ W!TypeOK /\ A!TypeOK /\ O!TypeOK /\ C!TypeOK
    BY DEF ServicesInv, SourcesInv, FeedInv, FolderInv, AddInv, LaunchInv, RemoteInv
  <2>4. T!TypeOK /\ S!TypeOK /\ E!TypeOK /\ M!TypeOK /\ J!TypeOK /\ K!TypeOK
    BY DEF ServicesInv, RecordsInv, StatisticsInv, SettingsInv, LabelsInv, StorageInv,
           JournalInv, RechecksInv
  <2>5. V!TypeOK /\ U!TypeOK /\ Q!TypeOK
    BY DEF ServicesInv, ProcessInv, WindowInv, UpdatesInv
  <2>6. R!TypeOK
    BY NamesCounted DEF ServicesInv, SourcesInv
  <2>7. Y!TypeOK
    BY DeadlinesTyped DEF ServicesInv, ProcessInv
  <2> QED BY <2>1, <2>2, <2>3, <2>4, <2>5, <2>6, <2>7 DEF TypeOK
<1> QED
  BY <1>1, ServicesInductive, PTL

\* The algorithms give what they are defined to give: the rules have distinct
\* names and the first that matches is the one chosen, the level of a total is
\* the one reached whatever the estimate it starts from, every executable is
\* flagged and no sign of danger lowers a score, the first pieces of the
\* largest file are those that get a deadline, and the time since the last
\* input is right though the tick count wrapped.
THEOREM AlgorithmsAgree == Spec => []AgreesWithReference
<1>1. ServicesInv => AgreesWithReference
  <2> SUFFICES ASSUME ServicesInv PROVE AgreesWithReference
    OBVIOUS
  <2>1. R!NamesUnique /\ R!FirstMatchWins
    BY NamesCounted, MatchIsFirst DEF ServicesInv, SourcesInv
  <2>2. T!LevelReached
    BY LevelsAreReached DEF ServicesInv, RecordsInv, StatisticsInv
  <2>3. D!ScansRight /\ Y!StreamsHead /\ L!IdleMeasured
    BY ScannerIsRight, HeadStreams, IdleIsMeasured
  <2> QED BY <2>1, <2>2, <2>3 DEF AgreesWithReference
<1> QED
  BY <1>1, ServicesInductive, PTL

\* The rate in force is the one the schedule, turtle mode and the idle
\* machine call for; the governor holds back its services together; one netsh
\* query runs at a time.
THEOREM LimitsInForce == Spec => []InForce
<1>1. ServicesInv => InForce
  BY DEF ServicesInv, TrafficInv, LimitsInv, GovernorInv, ProfilesInv, InForce
<1> QED
  BY <1>1, ServicesInductive, PTL

\* The files of the share limits, of the peer stores and of the tags follow
\* what is in memory through debounced, failed and interrupted writes.
THEOREM FilesFollowMemory == Spec => []StoresFollow
<1>1. ServicesInv => StoresFollow
  BY DEF ServicesInv, TrafficInv, RecordsInv, SharesInv, PeersInv, LabelsInv,
         LabelsKept, StoresFollow, E!TagsFollow
<1> QED
  BY <1>1, ServicesInductive, PTL

\* No byte is counted twice over restarts, removals, lost commits and
\* reconnections.
THEOREM BytesCountedOnce == Spec => []CountedOnce
<1>1. ServicesInv => CountedOnce
  <2> SUFFICES ASSUME ServicesInv PROVE CountedOnce
    OBVIOUS
  <2>1. StatisticsInv /\ P!NoByteTwice
    BY DEF ServicesInv, TrafficInv, RecordsInv, PeersInv
  <2>2. T!LastSeen = db.count
    BY <2>1 DEF StatisticsInv, StatisticsKept, T!LastSeen
  <2>3. T!BytesAddUp
    BY <2>1, <2>2 DEF StatisticsInv, StatisticsKept, CopyKept, T!BytesAddUp
  <2> QED BY <2>1, <2>3 DEF CountedOnce
<1> QED
  BY <1>1, ServicesInductive, PTL

\* Nothing is handed over or told twice by the feeds, the watched folder, a
\* launch and the journal.
THEOREM EachGivenOnce == Spec => []GivenOnce
<1>1. ServicesInv => GivenOnce
  BY DEF ServicesInv, SourcesInv, RecordsInv, FeedInv, FolderInv, LaunchInv,
         JournalInv, GivenOnce
<1> QED
  BY <1>1, ServicesInductive, PTL

\* No torrent before the IP filter or its scan, no installer before its
\* checksum, no remote request without the token.
THEOREM ChecksComeFirst == Spec => []CheckedFirst
<1>1. ServicesInv => CheckedFirst
  BY DEF ServicesInv, TrafficInv, SourcesInv, ProcessInv, BlocklistInv, FeedInv,
         UpdatesInv, RemoteInv, CheckedFirst
<1> QED
  BY <1>1, ServicesInductive, PTL

\* The last write of settings.json, by a save or by an import, can be undone.
THEOREM LastWriteUndoable == Spec => []Undoable
<1>1. ServicesInv => Undoable
  BY DEF ServicesInv, RecordsInv, SettingsInv, Undoable
<1> QED
  BY <1>1, ServicesInductive, PTL

\* The pages show the session, the add page what Start would add, and the
\* record where libtorrent has the files and whether they are locked.
THEOREM PagesCurrent == Spec => []PageIsCurrent
<1>1. ServicesInv => PageIsCurrent
  BY DEF ServicesInv, SourcesInv, RecordsInv, ProcessInv, WindowInv, AddInv,
         StorageInv, PageIsCurrent
<1> QED
  BY <1>1, ServicesInductive, PTL

\* The answer of the parser resumes nothing once the program has stopped its
\* timer; the answer of netsh changes nothing once the switch is off; and a
\* remote request whose token was replaced in the settings file is not let in.
THEOREM LateAnswersHarmless == Spec => LateAnswersIgnored
<1>1. [Next]_vars => [quit = "stopped" => blocklistPaused' = blocklistPaused]_(B!vars)
  <2> SUFFICES ASSUME [Next]_vars, quit = "stopped"
               PROVE  UNCHANGED B!vars \/ blocklistPaused' = blocklistPaused
    OBVIOUS
  <2>1. B!Next \/ UNCHANGED blocklistVars
    BY DEF Next, vars, traffic, Traffic, Sources, Records, Process
  <2> QED
    BY <2>1
    DEF blocklistVars, B!vars, B!Next, B!ParseFails, B!ParseBlock, B!Answer, B!Loaded, B!Quit
<1>2. [Next]_vars => [~switchOn /\ query = "answered" /\ query' = "none"
                        => applied' = applied]_(N!vars)
  <2> SUFFICES ASSUME [Next]_vars, ~switchOn, query = "answered", query' = "none"
               PROVE  UNCHANGED N!vars \/ applied' = applied
    OBVIOUS
  <2>1. N!Next \/ UNCHANGED profilesVars
    BY DEF Next, vars, traffic, Traffic, Sources, Records, Process
  <2>2. CASE N!SsidReady
    BY <2>2 DEF N!SsidReady, N!Heeded
  <2>3. CASE N!Next /\ ~N!SsidReady
    BY <2>3
    DEF N!Next, N!ApplyProfile, N!SaveFromSettings, N!DeleteProfile, N!SaveGeneral,
        N!DeleteAssociation, N!SaveAssociation, N!SetSwitchEnabled, N!CheckNow, N!Netsh,
        N!Roam, N!asked
  <2> QED
    BY <2>1, <2>2, <2>3 DEF profilesVars, N!vars, N!stores, N!asked
<1>3. ServicesInv /\ [Next]_vars
        => [\A c \in Clients :
              request[c] = "accepted" /\ request'[c] = "admitted"
                => key[c] >= remoteSaved]_(C!vars)
  <2> SUFFICES ASSUME ServicesInv, [Next]_vars, ~UNCHANGED C!vars, NEW c \in Clients,
                      request[c] = "accepted", request'[c] = "admitted"
               PROVE  key[c] >= remoteSaved
    OBVIOUS
  <2>1. C!TypeOK
    BY DEF ServicesInv, SourcesInv, RemoteInv
  <2>2. token \in Nat /\ remoteSaved \in Nat /\ remoteSaved <= token
    BY <2>1, RemoteAssumption DEF C!TypeOK
  <2>3. C!Next \/ UNCHANGED remoteVars
    BY DEF Next, vars, sources, Traffic, Sources, Records, Process
  <2>4. \E d \in Clients : C!RequireToken(d)
    BY <2>1, <2>3
    DEF C!Next, C!Enable, C!Start, C!RegenerateToken, C!Launch, C!Disable, C!RestoreSnapshot,
        C!Quit, C!Exit, C!Connect, C!Respond, C!TypeOK, C!vars, C!option, C!requests,
        remoteVars
  <2>5. key[c] = token
    BY <2>1, <2>4 DEF C!RequireToken, C!TokenIsValid, C!TypeOK
  <2> QED BY <2>2, <2>5
<1> QED
  BY <1>1, <1>2, <1>3, ServicesInductive, PTL
  DEF Spec, LateAnswersIgnored, B!NoLateResume, N!LateAnswerIgnored, C!ReplacedIsRefused

\* Two rechecks of a torrent are never closer than the interval, whatever is
\* removed, finishes again, is switched or restarted in between, and none comes
\* before an interval since the launch: a restart never makes one sooner.
THEOREM RechecksSpaced == Spec => K!Spaced
<1>1. ServicesInv /\ [Next]_vars
        => [\A t \in OneTorrent :
              rechecked'[t] # rechecked[t] =>
                /\ rechecksNow - rechecksStarted >= Interval
                /\ rechecked[t] = K!Never \/ rechecksNow - rechecked[t] >= Interval]_rechecksVars
  <2> SUFFICES ASSUME ServicesInv, [Next]_vars, NEW t \in OneTorrent,
                      ~UNCHANGED rechecksVars, rechecked'[t] # rechecked[t]
               PROVE  /\ rechecksNow - rechecksStarted >= Interval
                      /\ rechecked[t] = K!Never \/ rechecksNow - rechecked[t] >= Interval
    OBVIOUS
  <2>1. K!Next
    BY DEF Next, vars, records, Traffic, Sources, Records, Process
  <2> QED
    BY <2>1, RechecksApart DEF ServicesInv, RecordsInv
<1> QED
  BY <1>1, ServicesInductive, PTL DEF Spec, K!Spaced, K!vars, rechecksVars

\* A reordering of the rules loses none, whatever list it comes with, and a
\* sweep of the deadlines puts no torrent whose deadline is not near ahead of
\* one that was before it; rechecks stay apart.
THEOREM OrderKept == Spec => NothingOutOfTurn
<1>1. ServicesInv /\ [Next]_vars
        => [(\E set \in SUBSET Names : \E names \in R!SetToSeqs(set) : R!Reorder(names))
              => R!RuleNames(ruleList') = R!RuleNames(ruleList)]_(R!vars)
  BY ReorderedRules DEF ServicesInv, SourcesInv
<1>2. ServicesInv /\ [Next]_vars
        => [Y!ApplyDeadlinePriorities =>
              \A t, u \in Y!Range(queue) :
                  /\ Y!Position(queue, t) < Y!Position(queue, u)
                  /\ ~Y!Urgent(u)
                  => Y!Position(queue', t) < Y!Position(queue', u)]_(Y!vars)
  <2> SUFFICES ASSUME ServicesInv, Y!ApplyDeadlinePriorities,
                      NEW t \in Y!Range(queue), NEW u \in Y!Range(queue),
                      Y!Position(queue, t) < Y!Position(queue, u), ~Y!Urgent(u)
               PROVE  Y!Position(queue', t) < Y!Position(queue', u)
    OBVIOUS
  <2>1. DeadlinesInv /\ queue \in Orders
    BY DEF ServicesInv, ProcessInv, DeadlinesInv
  <2>2. Before(queue, t, u)
    BY <2>1, BeforeIs
  <2>3. queue' \in Orders /\ Y!Range(queue') = Y!Range(queue) /\ Before(queue', t, u)
    BY <2>1, <2>2, SweepOrders
  <2>4. PICK after \in Orders : after = queue'
    BY <2>3
  <2> QED BY <2>3, <2>4, BeforeIs
<1>3. Spec => R!NoRuleLost
  BY <1>1, ServicesInductive, PTL DEF Spec, R!NoRuleLost
<1>4. Spec => Y!SweepKeepsOrder
  BY <1>2, ServicesInductive, PTL DEF Spec, Y!SweepKeepsOrder
<1> QED
  BY <1>3, <1>4, RechecksSpaced, PTL DEF NothingOutOfTurn

=============================================================================
