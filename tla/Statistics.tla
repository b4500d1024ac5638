----------------------------- MODULE Statistics -----------------------------
(***************************************************************************)
(* stats/: the lifetime totals, kept for one torrent and one direction     *)
(* (StatsService and StatsStore treat the others alike), and the level     *)
(* read from them.  libtorrent's counter starts again at zero when a       *)
(* torrent is added again, and at what its resume file saved at a launch.  *)
(***************************************************************************)
EXTENDS Integers, FiniteSetsExt

CONSTANTS
    MaxReal,    \* bytes transferred in a behaviour
    Base        \* threshold of the first level

NoCount == -1

VARIABLES
    live,       \* the torrent is in the session
    counter,    \* libtorrent's all-time counter, 0 when not live
    resume,     \* the counter in its resume file, 0 without one
    current,    \* StatsService._current, or NoCount
    lastSeen,   \* StatsService._last_seen, or NoCount
    db,         \* the store: total, and the torrent's counter
    durable,    \* what the disk has for sure: the store, or one commit behind
    real,       \* history: bytes transferred
    exact       \* history: the counter never lost bytes nor started again

vars == <<live, counter, resume, current, lastSeen, db, durable, real, exact>>

Init ==
    /\ live = FALSE /\ counter = 0 /\ resume = 0
    /\ current = NoCount /\ lastSeen = NoCount
    /\ db = [total |-> 0, count |-> 0] /\ durable = db
    /\ real = 0 /\ exact = TRUE

----------------------------------------------------------------------------
\* mutant: a new process starts from zero
LastSeen_Zero == IF lastSeen = NoCount THEN 0 ELSE lastSeen

LastSeen == IF lastSeen = NoCount THEN db.count ELSE lastSeen

(* One commit for the total and the counter.                               *)
Commit(now) ==
    /\ db' = [total |-> db.total + Max({0, now - LastSeen}), count |-> now]
    /\ durable' = db

Flush ==
    /\ lastSeen' = IF current = NoCount THEN lastSeen ELSE current
    /\ IF current \in {NoCount, LastSeen} THEN UNCHANGED <<db, durable>> ELSE Commit(current)
    /\ UNCHANGED <<live, counter, resume, current, real, exact>>

StatusUpdated ==
    /\ live
    /\ current' = counter
    /\ UNCHANGED <<live, counter, resume, lastSeen, db, durable, real, exact>>

(* torrent_removed: _flush_one, even of no difference, then both forget.   *)
TorrentRemoved ==
    /\ live
    /\ IF current = NoCount THEN UNCHANGED <<db, durable>> ELSE Commit(current)
    /\ current' = NoCount /\ lastSeen' = NoCount
    /\ live' = FALSE /\ counter' = 0 /\ resume' = 0
    /\ exact' = (exact /\ counter = IF current = NoCount THEN LastSeen ELSE current)
    /\ UNCHANGED real

Add ==
    /\ ~live
    /\ live' = TRUE
    /\ exact' = (exact /\ db.count = 0)
    /\ UNCHANGED <<counter, resume, current, lastSeen, db, durable, real>>

Transfer ==
    /\ live /\ real < MaxReal
    /\ counter' = counter + 1 /\ real' = real + 1
    /\ UNCHANGED <<live, resume, current, lastSeen, db, durable, exact>>

SaveResume ==
    /\ live
    /\ resume' = counter
    /\ UNCHANGED <<live, counter, current, lastSeen, db, durable, real, exact>>

(* Quit, which flushes nothing, or crash, or power loss, after which the   *)
(* write-ahead log may lack the last commit; then the next launch.         *)
Relaunch ==
    /\ current' = NoCount /\ lastSeen' = NoCount
    /\ counter' = resume
    /\ db' \in {db, durable} /\ durable' = db'
    /\ exact' = (exact /\ resume = counter /\ (live \/ db' = db))
    /\ UNCHANGED <<live, resume, real>>

Next == Flush \/ StatusUpdated \/ TorrentRemoved \/ Add \/ Transfer \/ SaveResume \/ Relaunch

Spec == Init /\ [][Next]_vars

----------------------------------------------------------------------------
(* leveling.py.  Weights are in quarters, Python rounds halves to even.    *)
Factors == [baseline |-> <<4, 6>>, macos |-> <<2, 3>>, cccp |-> <<4, 12>>]

RoundQuarters(x) ==
    IF x % 4 = 2 THEN (x \div 4) + ((x \div 4) % 2) ELSE (x + 2) \div 4

Weighted(down, up, theme) ==
    RoundQuarters(down * Factors[theme][1]) + RoundQuarters(up * Factors[theme][2])

(* The growth of 1.4 to the n, as a fraction.                              *)
Growth[n \in Nat] ==
    IF n = 0 THEN [num |-> 1, den |-> 1]
    ELSE [num |-> 7 * Growth[n - 1].num, den |-> 5 * Growth[n - 1].den]

Threshold(n) ==
    IF n <= 0 THEN 0
    ELSE LET g == Growth[n - 1] IN (2 * Base * g.num + g.den) \div (2 * g.den)

(* level_for_total_bytes: the logarithm gives an estimate, two loops nudge *)
(* it up, then down.                                                       *)
Level(total, estimate) ==
    IF total < Base THEN 0
    ELSE LET up == Max({e \in estimate .. estimate + total :
                            \A k \in estimate + 1 .. e : Threshold(k) <= total})
         IN  Max({e \in 0 .. up : e = 0 \/ Threshold(e) <= total})

----------------------------------------------------------------------------
TypeOK ==
    /\ live \in BOOLEAN /\ counter \in 0 .. MaxReal /\ resume \in 0 .. MaxReal
    /\ current \in NoCount .. MaxReal /\ lastSeen \in NoCount .. MaxReal
    /\ db \in [total : Nat, count : Nat] /\ durable \in [total : Nat, count : Nat]
    /\ real \in 0 .. MaxReal /\ exact \in BOOLEAN

(* No byte is ever counted twice, over restarts, removals and lost         *)
(* commits; and none is missed as long as the counter it is read from did  *)
(* not lose any itself.                                                    *)
BytesAddUp ==
    /\ db.total <= real
    /\ exact /\ live => db.total + counter - LastSeen = real

(* The level shown is the highest one whose threshold was reached, however *)
(* far off, by one, the logarithm's estimate was.                          *)
LevelReached ==
    \A up \in 0 .. Base, theme \in DOMAIN Factors :
        LET w == Weighted(db.total, up, theme)
            reached == CHOOSE e \in 0 .. w : Threshold(e) <= w /\ w < Threshold(e + 1)
        IN  \A estimate \in {reached - 1, reached, reached + 1} :
                estimate >= 0 => Level(w, estimate) = reached
=============================================================================
