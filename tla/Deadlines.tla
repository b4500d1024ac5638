----------------------------- MODULE Deadlines ------------------------------
(***************************************************************************)
(* The order of libtorrent's download queue: move_queue_up and down, the   *)
(* sweep that pushes torrents whose deadline comes near, and the deadlines *)
(* of the pieces a player needs first.                                     *)
(***************************************************************************)
EXTENDS Integers, Sequences, FiniteSets, SequencesExt

CONSTANTS Queued,       \* torrents
          NoDeadline,
          HeadPieces,   \* _STREAMING_HEAD_PIECE_COUNT
          MaxSize       \* bound: size of a file, and number of files

VARIABLES
    rows,       \* the order of _records
    queue,      \* libtorrent's queue
    active,     \* records whose state is an active download
    left        \* quarters of DEADLINE_URGENT_WINDOW_S before the deadline

vars == <<rows, queue, active, left>>

\* Past, in the window, before it.
Lefts == {-1, 1, 3, 5}

Init ==
    /\ rows = SetToSeq(Queued) /\ queue = rows
    /\ active = Queued
    /\ left = [t \in Queued |-> NoDeadline]

-----------------------------------------------------------------------------
Position(q, t) == CHOOSE i \in DOMAIN q : q[i] = t

\* n calls of queue_position_up(); none has an effect once out of the queue.
Up(q, t, n) ==
    IF ~Contains(q, t) THEN q
    ELSE LET i == Position(q, t)
             to == IF i - n < 1 THEN 1 ELSE i - n
         IN  [k \in DOMAIN q |-> IF k = to THEN t
                                 ELSE IF to < k /\ k <= i THEN q[k - 1] ELSE q[k]]

MoveQueueUp(t) ==
    /\ queue' = Up(queue, t, 1)
    /\ UNCHANGED <<rows, active, left>>

MoveQueueDown(t) ==
    /\ Contains(queue, t) /\ Position(queue, t) < Len(queue)
    /\ queue' = Up(queue, queue[Position(queue, t) + 1], 1)
    /\ UNCHANGED <<rows, active, left>>

SetDeadline(t, l) ==
    /\ left' = [left EXCEPT ![t] = l]
    /\ UNCHANGED <<rows, queue, active>>

\* 1 + round(urgency * 4)
Steps(l) == 5 - (IF l < 0 THEN 0 ELSE l)

Urgent(t) == t \in active /\ left[t] # NoDeadline /\ left[t] <= 4

\* The queue once the sweep has gone through n rows.
Swept[n \in 0 .. Len(rows)] ==
    IF n = 0 THEN queue
    ELSE IF Urgent(rows[n]) THEN Up(Swept[n - 1], rows[n], Steps(left[rows[n]]))
    ELSE Swept[n - 1]

ApplyDeadlinePriorities ==
    /\ queue' = Swept[Len(rows)]
    /\ UNCHANGED <<rows, active, left>>

\* The clock, the download, and the state update that follows it.
TimePasses ==
    /\ left' = [t \in Queued |-> IF left[t] \in {NoDeadline, -1} THEN left[t] ELSE left[t] - 2]
    /\ left' # left
    /\ UNCHANGED <<rows, queue, active>>

Finish(t) ==
    /\ Contains(queue, t)
    /\ queue' = RemoveAt(queue, Position(queue, t))
    /\ UNCHANGED <<rows, active, left>>

StateUpdate(t, downloading) ==
    /\ downloading => Contains(queue, t)
    /\ active' = IF downloading THEN active \cup {t} ELSE active \ {t}
    /\ UNCHANGED <<rows, queue, left>>

Next ==
    \/ ApplyDeadlinePriorities \/ TimePasses
    \/ \E t \in Queued :
        \/ MoveQueueUp(t) \/ MoveQueueDown(t) \/ Finish(t)
        \/ \E l \in Lefts \cup {NoDeadline} : SetDeadline(t, l)
        \/ \E b \in BOOLEAN : StateUpdate(t, b)

Spec == Init /\ [][Next]_vars

-----------------------------------------------------------------------------
(* _apply_streaming_deadlines: the pieces of a torrent of these file sizes *)
(* that get a deadline.                                                    *)
Offset(sizes, i) ==
    LET upTo[k \in 0 .. Len(sizes)] == IF k = 0 THEN 0 ELSE upTo[k - 1] + sizes[k]
    IN  upTo[i - 1]
Largest(sizes) ==
    CHOOSE i \in DOMAIN sizes :
        \A j \in DOMAIN sizes : sizes[j] < sizes[i] \/ (sizes[j] = sizes[i] /\ i <= j)
Least(a, b) == IF a < b THEN a ELSE b

\* The piece that holds a byte.
PieceOf(byte, pieceLength) == byte \div pieceLength

StreamingDeadlines(sizes, pieceLength) ==
    LET i == Largest(sizes)
        first == PieceOf(Offset(sizes, i), pieceLength)
        end == Offset(sizes, i) + (IF sizes[i] = 0 THEN 1 ELSE sizes[i])
        last == Least(PieceOf(Offset(sizes, Len(sizes) + 1) - 1, pieceLength),
                      PieceOf(end - 1, pieceLength))
    IN  first..Least(last, first + HeadPieces - 1)

-----------------------------------------------------------------------------
TypeOK ==
    /\ IsInjective(queue) /\ Range(queue) \subseteq Queued
    /\ active \subseteq Queued
    /\ left \in [Queued -> Lefts \cup {NoDeadline}]

\* A sweep never takes a torrent whose deadline is near behind one that has
\* none near, and leaves the order of those as the user made it.
SweepKeepsOrder ==
    [][ApplyDeadlinePriorities =>
        \A t, u \in Range(queue) :
            /\ Position(queue, t) < Position(queue, u)
            /\ ~Urgent(u)
            => Position(queue', t) < Position(queue', u)]_vars

\* The deadlines go to the first pieces that hold a byte of the largest file.
StreamsHead ==
    \A n \in 1..MaxSize : \A sizes \in [1..n -> 0..MaxSize] : \A pieceLength \in 1..MaxSize :
        LET i == Largest(sizes)
            from == Offset(sizes, i)
            held == {p \in 0..(n * MaxSize) :
                        p * pieceLength < from + sizes[i] /\ (p + 1) * pieceLength > from}
        IN  sizes[i] > 0 =>
                StreamingDeadlines(sizes, pieceLength) =
                    {p \in held : Cardinality({q \in held : q < p}) < HeadPieces}
=============================================================================
