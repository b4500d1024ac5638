----------------------------- MODULE PeerStores -----------------------------
(***************************************************************************)
(* engine/peer_reputation.py and engine/lan_peer_cache.py, both fed by     *)
(* SessionManager.get_peer_info, that is by a peer view that polls one     *)
(* torrent.  Each store holds its writes back for half a minute and        *)
(* flushes at quit.                                                        *)
(***************************************************************************)
EXTENDS Integers

CONSTANTS
    Peers,      \* addresses
    Private,    \* those of an RFC 1918 range
    MaxBytes,   \* received in a behaviour
    MaxNow,     \* days of clock
    MaxAge      \* days a cache entry lives

Nil == -1

VARIABLES
    link,       \* bytes received on the open connection to a peer, or Nil
    received,   \* history: bytes received from a peer
    active,     \* PeerReputationTracker._active: the bytes it last saw, or Nil
    record,     \* PeerReputationStore: bytes folded
    recordFile, recordDirty, recordFresh,   \* its file, _dirty, a write under 30 s old
    now,
    cache,      \* LanPeerCacheStore: day last seen, or Nil
    cacheFile, cacheDirty, cacheFresh,
    failed      \* history: a write of the cache failed since the last one that did not

network == <<link, received, now>>
reputation == <<active, record, recordFile, recordDirty, recordFresh>>
lan == <<cache, cacheFile, cacheDirty, cacheFresh, failed>>
vars == <<network, reputation, lan>>

Init ==
    /\ link = [p \in Peers |-> Nil] /\ received = [p \in Peers |-> 0] /\ now = 0
    /\ active = link /\ record = received /\ recordFile = record
    /\ recordDirty = FALSE /\ recordFresh = FALSE
    /\ cache = [p \in Private |-> Nil] /\ cacheFile = cache
    /\ cacheDirty = FALSE /\ cacheFresh = FALSE /\ failed = FALSE

----------------------------------------------------------------------------
Connect(p) ==
    /\ link' = [link EXCEPT ![p] = IF @ = Nil THEN 0 ELSE Nil]
    /\ UNCHANGED <<received, now, reputation, lan>>

Receive(p) ==
    /\ link[p] # Nil /\ received[p] < MaxBytes
    /\ link' = [link EXCEPT ![p] = @ + 1]
    /\ received' = [received EXCEPT ![p] = @ + 1]
    /\ UNCHANGED <<now, reputation, lan>>

(* Half a minute, or midnight.                                             *)
Time ==
    /\ \/ recordFresh' = FALSE /\ cacheFresh' = FALSE /\ UNCHANGED now
       \/ now < MaxNow /\ now' = now + 1 /\ UNCHANGED <<recordFresh, cacheFresh>>
    /\ UNCHANGED <<link, received, active, record, recordFile, recordDirty,
                   cache, cacheFile, cacheDirty, failed>>

(* PeerReputationStore._save of r; ok is FALSE when the write raises.      *)
SaveRecords(r, ok) ==
    IF ok THEN recordFile' = r /\ recordDirty' = FALSE /\ recordFresh' = TRUE
    ELSE UNCHANGED <<recordFile, recordFresh>> /\ recordDirty' = TRUE

(* observe: those gone since the last look are folded, and written in one  *)
(* go when something is unsaved and the last write is old enough.          *)
Observe(ok) ==
    LET gone == {p \in Peers : active[p] # Nil /\ link[p] = Nil}
        folded == [p \in Peers |-> IF p \in gone THEN record[p] + active[p] ELSE record[p]]
        dirty == recordDirty \/ gone # {}
    IN  /\ active' = link
        /\ record' = folded
        /\ IF dirty /\ ~recordFresh THEN SaveRecords(folded, ok)
           ELSE ok /\ recordDirty' = dirty /\ UNCHANGED <<recordFile, recordFresh>>

Purged(c) == [p \in Private |-> IF c[p] < now - MaxAge THEN Nil ELSE c[p]]

(* LanPeerCacheStore._save of c, which leaves _dirty alone when it raises. *)
SaveCache(c, ok) ==
    IF ok THEN cacheFile' = c /\ cacheDirty' = FALSE /\ failed' = FALSE
    ELSE failed' = TRUE /\ UNCHANGED <<cacheFile, cacheDirty>>

RecordPeers(ok) ==
    LET seen == {p \in Private : link[p] # Nil}
        c == Purged([p \in Private |-> IF p \in seen THEN now ELSE cache[p]])
    IN  IF seen = {} THEN UNCHANGED lan
        ELSE /\ cache' = c
             /\ IF cacheFresh THEN cacheDirty' = TRUE /\ UNCHANGED <<cacheFile, cacheFresh, failed>>
                ELSE SaveCache(c, ok) /\ cacheFresh' = ok

(* get_peer_info: each store when its option is on; a write that raises    *)
(* leaves the second store without this observation.                       *)
GetPeerInfo(observed, recorded, ok1, ok2) ==
    /\ IF observed THEN Observe(ok1) ELSE ok1 /\ UNCHANGED reputation
    /\ IF recorded /\ ok1 THEN RecordPeers(ok2) ELSE ok2 /\ UNCHANGED lan
    /\ UNCHANGED network

(* reconnect_cached_peers, when a torrent is added: the peers it tries.    *)
Reconnect ==
    /\ cache' = Purged(cache)
    /\ link' = [p \in Peers |-> IF p \in Private /\ cache'[p] # Nil /\ link[p] = Nil
                                THEN 0 ELSE link[p]]
    /\ UNCHANGED <<received, now, reputation, cacheFile, cacheDirty, cacheFresh, failed>>

(* _flush_peer_stores, then the next launch; without it, a crash.          *)
Relaunch(flushed) ==
    /\ LET r == IF flushed /\ recordDirty THEN record ELSE recordFile
           c == IF flushed /\ cacheDirty THEN cache ELSE cacheFile
       IN  /\ record' = r /\ recordFile' = r
           /\ cache' = Purged(c) /\ cacheFile' = c
    /\ active' = [p \in Peers |-> Nil] /\ link' = active'
    /\ recordDirty' = FALSE /\ recordFresh' = FALSE
    /\ cacheDirty' = FALSE /\ cacheFresh' = FALSE /\ failed' = FALSE
    /\ UNCHANGED <<received, now>>

Next ==
    \/ \E p \in Peers : Connect(p) \/ Receive(p)
    \/ \E observed, recorded, ok1, ok2 \in BOOLEAN : GetPeerInfo(observed, recorded, ok1, ok2)
    \/ Time \/ Reconnect
    \/ \E flushed \in BOOLEAN : Relaunch(flushed)

Spec == Init /\ [][Next]_vars

----------------------------------------------------------------------------
TypeOK ==
    /\ link \in [Peers -> Nil .. MaxBytes] /\ active \in [Peers -> Nil .. MaxBytes]
    /\ {received, record, recordFile} \subseteq [Peers -> 0 .. MaxBytes]
    /\ {cache, cacheFile} \subseteq [Private -> Nil .. MaxNow] /\ now \in 0 .. MaxNow
    /\ {recordDirty, recordFresh, cacheDirty, cacheFresh, failed} \subseteq BOOLEAN

(* No byte of a peer counts twice, however its connections and the looks   *)
(* at them fall.                                                           *)
NoByteTwice == \A p \in Peers : record[p] <= received[p]

(* What a store knows is in its file, or will be at the next flush: a      *)
(* failed write of the reputations is retried, one of the cache is not.    *)
StoresFollow ==
    /\ recordFile = record \/ recordDirty
    /\ cacheDirty \/ failed \/ Purged(cacheFile) = Purged(cache)
=============================================================================
