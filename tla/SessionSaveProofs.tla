-------------------------- MODULE SessionSaveProofs --------------------------
(***************************************************************************)
(* CleanExitKeepsProgress: when shutdown() has nothing left to wait for,   *)
(* the files hold what every driven torrent had at the last tick, although *)
(* the answers it counts may be those of periodic saves.  For one torrent, *)
(* the argument follows the answers to its saves through the alert queue.  *)
(***************************************************************************)
EXTENDS SessionRowProofs

SaveInv == RowInv /\ SavesOK

\* SavesOK, for one torrent.
Saved(h) ==
    /\ Ahead(h)
    /\ live[h] # 0 => SavesGrow(h)
    /\ live[h] # 0 /\ h \notin raced =>
           CleanIsKept(h) /\ FailureHarmless(h) /\ ClearedIsKept(h)

\* An alert that answers a save of the torrent now in the session.
Answers(a, h) ==
    a.kind \in {"saved", "saveFailed"} /\ a.h = h /\ a.inc = live[h]

-----------------------------------------------------------------------------
(* A step that answers no save                                             *)

\* What is posted or left in the queue by a step that does not save h, nor
\* compare it with an earlier tick, nor wait for it.
LEMMA SavesAside ==
  ASSUME TypeOK, TypeOK', NEW h \in Torrents, Saved(h), AlertsGrow,
         live'[h] = live[h], atTick'[h] = atTick[h], disk'[h] = disk[h],
         raced \subseteq raced',
         progress'[h] >= progress[h],
         dirty'[h] \/ (dirty'[h] = dirty[h] /\ progress'[h] = progress[h]),
         \A k : NewAlert(k) => ~Answers(alerts'[k], h),
         \A k \in DOMAIN alerts : Recent(k)' => Recent(k),
         gui' = "saving" /\ h \notin raced' =>
             /\ gui = "saving" /\ handles'[h] = handles[h]
             /\ savePending' = savePending
  PROVE  Saved(h)'
<1>1. /\ progress[h] \in Nat /\ progress'[h] \in Nat /\ atTick[h] \in Nat
      /\ dirty'[h] \in BOOLEAN /\ dirty[h] \in BOOLEAN
  BY TypedTorrent DEF TypeOK, LibTypeOK
<1>2. \A k \in DOMAIN alerts :
         /\ k \in DOMAIN alerts' /\ alerts'[k] = alerts[k]
         /\ \A i \in 1..(k - 1) : i \in DOMAIN alerts
  BY DEF AlertsGrow
<1>3. \A k \in DOMAIN alerts' :
         /\ IsSave(alerts[k], h)' => k \in DOMAIN alerts /\ IsSave(alerts[k], h)
         /\ alerts'[k].kind = "saveFailed" /\ alerts'[k].h = h
            /\ alerts'[k].inc = live[h] => k \in DOMAIN alerts
  BY <1>2 DEF AlertsGrow, NewAlert, Answers, IsSave
<1>4. \A k \in DOMAIN alerts : IsSave(alerts[k], h)' <=> IsSave(alerts[k], h)
  BY <1>2 DEF IsSave
<1>5. Ahead(h)'
  BY <1>1 DEF Saved, Ahead
<1>6. live[h] # 0 => SavesGrow(h)'
  BY <1>2, <1>3, <1>4 DEF Saved, SavesGrow
<1>7. ASSUME live[h] # 0, h \notin raced' PROVE CleanIsKept(h)'
  BY <1>1, <1>2, <1>3, <1>4, <1>7 DEF Saved, CleanIsKept
<1>8. ASSUME live[h] # 0, h \notin raced' PROVE FailureHarmless(h)'
  BY <1>2, <1>3, <1>4, <1>8 DEF Saved, FailureHarmless
<1>9. ASSUME live[h] # 0, h \notin raced' PROVE ClearedIsKept(h)'
  BY <1>9 DEF Saved, ClearedIsKept
<1> QED BY <1>5, <1>6, <1>7, <1>8, <1>9 DEF Saved

-----------------------------------------------------------------------------
(* A handler takes off an answer                                           *)

\* Taking off the first alert: if it answers a save of the torrent, the file
\* now holds what it says, and the answers behind it hold at least as much.
LEMMA SavesPopped ==
  ASSUME TypeOK, Incarnations, NEW h \in Torrents, Saved(h), AlertsPop,
         live'[h] = live[h], atTick'[h] = atTick[h], progress'[h] = progress[h],
         dirty'[h] = dirty[h], raced' = raced,
         \A k \in DOMAIN alerts' : Recent(k)' => Recent(k + 1),
         live[h] # 0 /\ h \notin raced =>
             /\ disk'[h] = IF IsSave(Head(alerts), h) THEN Head(alerts).p
                                                      ELSE disk[h]
             /\ ClearedIsKept(h)'
  PROVE  Saved(h)'
<1>1. /\ progress[h] \in Nat /\ atTick[h] \in Nat /\ disk[h] \in Int
  BY TypedTorrent DEF NoFile
<1>2. /\ \A k \in DOMAIN alerts' :
            k \in Nat /\ k >= 1 /\ k + 1 \in DOMAIN alerts
            /\ alerts'[k] = alerts[k + 1]
      /\ \A k \in DOMAIN alerts :
            k \in Nat /\ k >= 1
            /\ (k = 1 \/ k - 1 \in DOMAIN alerts')
      /\ 1 \in DOMAIN alerts /\ Head(alerts) = alerts[1]
  BY DEF AlertsPop
<1>3. \A k \in DOMAIN alerts' :
         IsSave(alerts[k], h)' <=> IsSave(alerts[k + 1], h)
  BY <1>2 DEF IsSave
<1>4. \A k \in DOMAIN alerts : IsSave(alerts[k], h) => alerts[k].p \in Nat
  BY Queued, AlertTyped DEF IsSave
<1>5. live[h] # 0 =>
          \A k \in DOMAIN alerts : IsSave(alerts[k], h) =>
              alerts[k].p <= progress[h]
  BY DEF Incarnations, SavesBacked
<1>6. live[h] # 0 => SavesGrow(h)
  BY DEF Saved
<1>7. Ahead(h)'
  BY DEF Saved, Ahead
<1>8. ASSUME live[h] # 0 PROVE SavesGrow(h)'
  <2>1. SUFFICES
          ASSUME NEW k \in DOMAIN alerts', IsSave(alerts[k], h)'
          PROVE  /\ Recent(k)' => alerts'[k].p >= atTick[h]
                 /\ \A i \in 1..(k - 1) :
                        IsSave(alerts[i], h)' => alerts'[i].p <= alerts'[k].p
    BY DEF SavesGrow
  <2>2. /\ IsSave(alerts[k + 1], h) /\ k + 1 \in DOMAIN alerts
        /\ alerts'[k] = alerts[k + 1] /\ k \in Nat /\ k >= 1
    BY <1>2, <1>3, <2>1
  <2>3. Recent(k)' => alerts'[k].p >= atTick[h]
    BY <1>6, <1>8, <2>2 DEF SavesGrow
  <2>4. ASSUME NEW i \in 1..(k - 1), IsSave(alerts[i], h)'
        PROVE  alerts'[i].p <= alerts'[k].p
    <3>1. i \in DOMAIN alerts'
      BY <2>1, <2>2 DEF AlertsPop
    <3>2. IsSave(alerts[i + 1], h) /\ alerts'[i] = alerts[i + 1]
      BY <1>2, <1>3, <2>4, <3>1
    <3>3. i + 1 \in 1..((k + 1) - 1)
      BY <2>2
    <3> QED BY <1>6, <1>8, <2>2, <3>2, <3>3 DEF SavesGrow
  <2> QED BY <2>3, <2>4
<1>9. ASSUME live[h] # 0, h \notin raced PROVE CleanIsKept(h)'
  <2>1. SUFFICES
          ASSUME ~dirty[h]
          PROVE  \/ \E k \in DOMAIN alerts' :
                       IsSave(alerts[k], h)' /\ alerts'[k].p = progress[h]
                 \/ /\ disk'[h] = progress[h]
                    /\ \A k \in DOMAIN alerts' : ~IsSave(alerts[k], h)'
    BY DEF CleanIsKept
  <2>2. \/ \E k \in DOMAIN alerts :
              IsSave(alerts[k], h) /\ alerts[k].p = progress[h]
        \/ /\ disk[h] = progress[h]
           /\ \A k \in DOMAIN alerts : ~IsSave(alerts[k], h)
    BY <1>9, <2>1 DEF Saved, CleanIsKept
  <2>3. CASE /\ disk[h] = progress[h]
             /\ \A k \in DOMAIN alerts : ~IsSave(alerts[k], h)
    BY <1>2, <1>3, <1>9, <2>3
  <2>4. ASSUME NEW k \in DOMAIN alerts, IsSave(alerts[k], h),
               alerts[k].p = progress[h], k # 1
        PROVE  \E i \in DOMAIN alerts' :
                   IsSave(alerts[i], h)' /\ alerts'[i].p = progress[h]
    <3>1. k - 1 \in DOMAIN alerts' /\ (k - 1) + 1 = k
      BY <1>2, <2>4
    <3>2. IsSave(alerts[k - 1], h)' /\ alerts'[k - 1] = alerts[k]
      BY <1>2, <1>3, <2>4, <3>1
    <3> QED BY <2>4, <3>1, <3>2
  <2>5. CASE IsSave(alerts[1], h) /\ alerts[1].p = progress[h]
    <3>1. disk'[h] = progress[h]
      BY <1>2, <1>9, <2>5
    <3>2. ASSUME NEW k \in DOMAIN alerts', IsSave(alerts[k], h)'
          PROVE  alerts'[k].p = progress[h]
      <4>1. /\ k + 1 \in DOMAIN alerts /\ IsSave(alerts[k + 1], h)
            /\ alerts'[k] = alerts[k + 1] /\ 1 \in 1..((k + 1) - 1)
        BY <1>2, <1>3, <3>2
      <4>2. alerts[1].p <= alerts[k + 1].p
        BY <1>6, <1>9, <2>5, <4>1 DEF SavesGrow
      <4>3. alerts[k + 1].p <= progress[h] /\ alerts[k + 1].p \in Nat
        BY <1>4, <1>5, <1>9, <4>1
      <4> QED BY <1>1, <2>5, <4>1, <4>2, <4>3
    <3> QED BY <3>1, <3>2
  <2> QED BY <2>2, <2>3, <2>4, <2>5
<1>10. ASSUME live[h] # 0, h \notin raced PROVE FailureHarmless(h)'
  <2>1. SUFFICES
          ASSUME NEW k \in DOMAIN alerts',
                 alerts'[k].kind = "saveFailed", alerts'[k].h = h,
                 alerts'[k].inc = live[h], Recent(k)'
          PROVE  \/ \E i \in 1..(k - 1) :
                       IsSave(alerts[i], h)' /\ alerts'[i].p >= atTick[h]
                 \/ /\ disk'[h] >= atTick[h]
                    /\ \A i \in 1..(k - 1) :
                           IsSave(alerts[i], h)' => alerts'[i].p >= atTick[h]
    BY DEF FailureHarmless
  <2>2. /\ k \in Nat /\ k >= 1 /\ k + 1 \in DOMAIN alerts
        /\ alerts'[k] = alerts[k + 1]
    BY <1>2, <2>1
  <2>3. \A i \in 1..(k - 1) :
           /\ i \in DOMAIN alerts' /\ i + 1 \in 1..((k + 1) - 1)
           /\ IsSave(alerts[i], h)' <=> IsSave(alerts[i + 1], h)
           /\ alerts'[i] = alerts[i + 1]
    <3>1. \A i \in 1..(k - 1) : i \in DOMAIN alerts' /\ i + 1 \in 1..((k + 1) - 1)
      BY <2>1, <2>2 DEF AlertsPop
    <3> QED BY <1>2, <1>3, <3>1
  <2>4. \A i \in 1..((k + 1) - 1) :
           i = 1 \/ (i - 1 \in 1..(k - 1) /\ (i - 1) + 1 = i)
    BY <2>2
  <2>5. \/ \E i \in 1..((k + 1) - 1) :
              IsSave(alerts[i], h) /\ alerts[i].p >= atTick[h]
        \/ /\ disk[h] >= atTick[h]
           /\ \A i \in 1..((k + 1) - 1) :
                  IsSave(alerts[i], h) => alerts[i].p >= atTick[h]
    BY <1>10, <2>1, <2>2 DEF Saved, FailureHarmless
  <2>6. CASE /\ disk[h] >= atTick[h]
             /\ \A i \in 1..((k + 1) - 1) :
                    IsSave(alerts[i], h) => alerts[i].p >= atTick[h]
    <3>1. disk'[h] >= atTick[h]
      <4>1. 1 \in 1..((k + 1) - 1)
        BY <2>2
      <4> QED BY <1>2, <1>10, <2>6, <4>1
    <3> QED BY <2>3, <2>6, <3>1
  <2>7. ASSUME NEW i \in 1..((k + 1) - 1), i # 1, IsSave(alerts[i], h),
               alerts[i].p >= atTick[h]
        PROVE  \E j \in 1..(k - 1) :
                   IsSave(alerts[j], h)' /\ alerts'[j].p >= atTick[h]
    <3>1. i - 1 \in 1..(k - 1) /\ (i - 1) + 1 = i
      BY <2>4, <2>7
    <3>2. IsSave(alerts[i - 1], h)' /\ alerts'[i - 1] = alerts[i]
      BY <2>3, <2>7, <3>1
    <3> QED BY <2>7, <3>1, <3>2
  <2>8. CASE IsSave(alerts[1], h) /\ alerts[1].p >= atTick[h]
    <3>1. disk'[h] >= atTick[h]
      BY <1>2, <1>10, <2>8
    <3>2. ASSUME NEW i \in 1..(k - 1), IsSave(alerts[i], h)'
          PROVE  alerts'[i].p >= atTick[h]
      <4>1. /\ i + 1 \in DOMAIN alerts /\ IsSave(alerts[i + 1], h)
            /\ alerts'[i] = alerts[i + 1] /\ 1 \in 1..((i + 1) - 1)
        BY <1>2, <2>3, <3>2
      <4>2. alerts[1].p <= alerts[i + 1].p
        BY <1>6, <1>10, <2>8, <4>1 DEF SavesGrow
      <4> QED BY <1>1, <1>2, <1>4, <2>8, <4>1, <4>2
    <3> QED BY <3>1, <3>2
  <2> QED BY <2>5, <2>6, <2>7, <2>8
<1> QED BY <1>7, <1>8, <1>9, <1>10 DEF Saved

-----------------------------------------------------------------------------
(* A torrent enters or leaves the session, is saved, or compared with       *)

\* Outside the session nothing is promised.
LEMMA LeavesSaved ==
  ASSUME NEW h, live'[h] = 0 PROVE Saved(h)'
BY DEF Saved, Ahead

\* No answer in the queue is that of an incarnation just made.
LEMMA EntersSaved ==
  ASSUME TypeOK, TypeOK', Incarnations, NEW h \in Torrents, AlertsGrow,
         live'[h] = adds[h] + 1, atTick'[h] = 0, handles'[h] = handles[h],
         \A k : NewAlert(k) => alerts'[k].kind \notin {"saved", "saveFailed"},
         dirty'[h] \/ disk'[h] = progress'[h]
  PROVE  Saved(h)'
<1>1. /\ progress'[h] \in Nat /\ handles[h] \in Nat /\ adds[h] \in Nat
      /\ handles[h] <= adds[h]
  BY TypedTorrent DEF TypeOK, LibTypeOK, Incarnations, NoneFromTheFuture
<1>2. \A k \in DOMAIN alerts' : ~Answers(alerts[k], h)'
  <2>1. SUFFICES ASSUME NEW k \in DOMAIN alerts', Answers(alerts[k], h)'
                 PROVE  FALSE
    OBVIOUS
  <2>2. /\ alerts'[k].kind \in {"saved", "saveFailed"} /\ alerts'[k].h = h
        /\ alerts'[k].inc = adds[h] + 1
    BY <2>1 DEF Answers
  <2>3. k \in DOMAIN alerts /\ alerts'[k] = alerts[k]
    BY <2>2 DEF AlertsGrow, NewAlert
  <2>4. adds[h] + 1 <= adds[h]
    BY <2>2, <2>3 DEF Incarnations, NoneFromTheFuture
  <2> QED BY <1>1, <2>4
<1>3. \A k \in DOMAIN alerts' : ~IsSave(alerts[k], h)'
  BY <1>2 DEF IsSave, Answers
<1>4. Ahead(h)' /\ SavesGrow(h)' /\ CleanIsKept(h)'
  BY <1>1, <1>3 DEF Ahead, SavesGrow, CleanIsKept
<1>5. FailureHarmless(h)'
  BY <1>2 DEF FailureHarmless, Answers
<1>6. ClearedIsKept(h)'
  BY <1>1 DEF ClearedIsKept
<1> QED BY <1>4, <1>5, <1>6 DEF Saved

\* What libtorrent answers to a save holds at least the last tick; a save that
\* fails on a torrent in the session found nothing new to write.
LEMMA NetSaveSaved ==
  ASSUME IInv, IInv', Incarnations, NetSave, NEW h \in Torrents, Saved(h)
  PROVE  Saved(h)'
<1>1. TypeOK /\ TypeOK'
  BY DEF IInv
<1>2. PICK g \in Torrents : g = Head(cmds).h
  BY <1>1, CmdServiced, CmdTyped DEF NetSave
<1> DEFINE inc == Head(cmds).inc
           done == live[g] = inc /\ (Head(cmds).lazy => dirty[g])
           saved == [kind |-> "saved", h |-> g, inc |-> inc, p |-> progress[g]]
           failed == [kind |-> "saveFailed", h |-> g, inc |-> inc]
<1>3. /\ CmdsPop /\ AlertsGrow /\ ServedAlone(g) /\ SameTorrent(g)
      /\ dirty'[g] = (dirty[g] /\ ~done)
      /\ \A k : NewAlert(k) <=> k = Len(alerts) + 1
      /\ \A k : NewAlert(k) => alerts'[k] = IF done THEN saved ELSE failed
  BY <1>1, <1>2, SaveShape
<1>4. /\ \A k : NewAlert(k) => alerts'[k].h = g /\ alerts'[k].inc = inc
      /\ done => \A k : NewAlert(k) => /\ alerts'[k].kind = "saved"
                                       /\ alerts'[k].p = progress[g]
      /\ ~done => \A k : NewAlert(k) => alerts'[k].kind = "saveFailed"
  BY <1>3
<1>5. /\ live[g] # inc => ~done
      /\ ~done /\ live[g] = inc => ~dirty[g]
  OBVIOUS
<1>6. done \in BOOLEAN /\ (done => live[g] = inc)
  OBVIOUS
<1> HIDE DEF inc, done, saved, failed
<1>7. UNCHANGED <<gui, handles, savePending, popped, disk, raced>>
  BY <1>3 DEF ServedAlone
<1>8. \A k : Recent(k)' = Recent(k)
  BY <1>7 DEF Recent
<1>9. CASE g # h
  <2>1. /\ live'[h] = live[h] /\ atTick'[h] = atTick[h]
        /\ progress'[h] = progress[h] /\ dirty'[h] = dirty[h]
    BY <1>3, <1>9 DEF ServedAlone
  <2>2. progress'[h] >= progress[h]
    BY <1>1, <2>1, TypedTorrent
  <2> QED BY <1>1, <1>3, <1>4, <1>7, <1>8, <1>9, <2>1, <2>2, SavesAside
          DEF Answers
<1>10. CASE g = h /\ live[h] # inc
  <2>1. /\ live'[h] = live[h] /\ atTick'[h] = atTick[h]
        /\ progress'[h] = progress[h]
    BY <1>3, <1>10 DEF SameTorrent
  <2>2. progress'[h] >= progress[h] /\ dirty'[h] = dirty[h]
    BY <1>1, <1>3, <1>5, <1>10, <2>1, TypedTorrent
  <2> QED BY <1>1, <1>3, <1>4, <1>7, <1>8, <1>10, <2>1, <2>2, SavesAside
          DEF Answers
<1>11. CASE g = h /\ live[h] = inc /\ live[h] # 0
  <2> PICK n : n = Len(alerts) + 1
    OBVIOUS
  <2>1. /\ live'[h] = live[h] /\ atTick'[h] = atTick[h]
        /\ progress'[h] = progress[h]
        /\ progress[h] \in Nat /\ atTick[h] \in Nat /\ disk[h] \in Int
        /\ dirty[h] \in BOOLEAN
    BY <1>1, <1>3, <1>11, TypedTorrent DEF SameTorrent, NoFile
  <2>2. /\ \A k \in DOMAIN alerts : /\ k \in DOMAIN alerts' /\ k \in Nat
                                    /\ k >= 1 /\ k < n
                                    /\ alerts'[k] = alerts[k]
        /\ n \in DOMAIN alerts' /\ n \in Nat
        /\ \A k \in DOMAIN alerts' : k = n \/ k \in DOMAIN alerts
        /\ 1..(n - 1) = DOMAIN alerts
        /\ alerts'[n].h = h /\ alerts'[n].inc = live[h]
        /\ IF done THEN alerts'[n].kind = "saved" /\ alerts'[n].p = progress[h]
                   ELSE alerts'[n].kind = "saveFailed"
    BY <1>3, <1>4, <1>11 DEF AlertsGrow, NewAlert
  <2>3. /\ \A k \in DOMAIN alerts : IsSave(alerts[k], h)' <=> IsSave(alerts[k], h)
        /\ IsSave(alerts[n], h)' <=> done
    BY <2>1, <2>2 DEF IsSave
  <2>4. progress[h] >= atTick[h]
    BY <1>11 DEF Saved, Ahead
  <2>5. \A k \in DOMAIN alerts : IsSave(alerts[k], h) =>
            alerts[k].p <= progress[h]
    BY <1>11 DEF Incarnations, SavesBacked
  <2>6. SavesGrow(h)
    BY <1>11 DEF Saved
  <2>7. \A k \in DOMAIN alerts : \A i \in 1..(k - 1) : i \in DOMAIN alerts
    BY <1>3 DEF AlertsGrow
  <2>8. Ahead(h)'
    BY <2>1, <2>4 DEF Ahead
  <2>9. SavesGrow(h)'
    <3>1. ASSUME NEW k \in DOMAIN alerts', IsSave(alerts[k], h)'
          PROVE  /\ Recent(k)' => alerts'[k].p >= atTick[h]
                 /\ \A i \in 1..(k - 1) :
                        IsSave(alerts[i], h)' => alerts'[i].p <= alerts'[k].p
      <4>1. CASE k = n
        BY <2>1, <2>2, <2>3, <2>4, <2>5, <3>1, <4>1
      <4>2. CASE k \in DOMAIN alerts
        BY <1>8, <2>2, <2>3, <2>6, <2>7, <3>1, <4>2 DEF SavesGrow
      <4> QED BY <2>2, <4>1, <4>2
    <3> QED BY <2>1, <3>1 DEF SavesGrow
  <2>10. ASSUME h \notin raced PROVE CleanIsKept(h)'
    <3>1. CASE done
      BY <2>1, <2>2, <2>3, <3>1 DEF CleanIsKept
    <3>2. CASE ~done
      <4>1. ~dirty[h]
        BY <1>5, <1>11, <3>2
      <4>2. \/ \E k \in DOMAIN alerts :
                  IsSave(alerts[k], h) /\ alerts[k].p = progress[h]
            \/ /\ disk[h] = progress[h]
               /\ \A k \in DOMAIN alerts : ~IsSave(alerts[k], h)
        BY <1>11, <2>10, <4>1 DEF Saved, CleanIsKept
      <4> QED BY <1>7, <2>1, <2>2, <2>3, <3>2, <4>2 DEF CleanIsKept
    <3> QED BY <3>1, <3>2
  <2>11. ASSUME h \notin raced PROVE FailureHarmless(h)'
    <3>1. ASSUME NEW k \in DOMAIN alerts',
                 alerts'[k].kind = "saveFailed", alerts'[k].h = h,
                 alerts'[k].inc = live[h], Recent(k)'
          PROVE  \/ \E i \in 1..(k - 1) :
                       IsSave(alerts[i], h)' /\ alerts'[i].p >= atTick[h]
                 \/ /\ disk'[h] >= atTick[h]
                    /\ \A i \in 1..(k - 1) :
                           IsSave(alerts[i], h)' => alerts'[i].p >= atTick[h]
      <4>1. CASE k \in DOMAIN alerts
        <5>1. \/ \E i \in 1..(k - 1) :
                    IsSave(alerts[i], h) /\ alerts[i].p >= atTick[h]
              \/ /\ disk[h] >= atTick[h]
                 /\ \A i \in 1..(k - 1) :
                        IsSave(alerts[i], h) => alerts[i].p >= atTick[h]
          BY <1>8, <1>11, <2>2, <2>11, <3>1, <4>1 DEF Saved, FailureHarmless
        <5> QED BY <1>7, <2>2, <2>3, <2>7, <4>1, <5>1
      <4>2. CASE k = n
        <5>1. ~done
          BY <2>2, <3>1, <4>2
        <5>2. ~dirty[h]
          BY <1>5, <1>11, <5>1
        <5>3. \/ \E i \in DOMAIN alerts :
                    IsSave(alerts[i], h) /\ alerts[i].p = progress[h]
              \/ /\ disk[h] = progress[h]
                 /\ \A i \in DOMAIN alerts : ~IsSave(alerts[i], h)
          BY <1>11, <2>11, <5>2 DEF Saved, CleanIsKept
        <5> QED BY <1>7, <2>1, <2>2, <2>3, <2>4, <4>2, <5>3
      <4> QED BY <2>2, <4>1, <4>2
    <3> QED BY <2>1, <3>1 DEF FailureHarmless
  <2>12. h \notin raced => ClearedIsKept(h)'
    BY <1>7, <1>11, <2>1 DEF Saved, ClearedIsKept
  <2> QED BY <1>7, <2>8, <2>9, <2>10, <2>11, <2>12 DEF Saved
<1>12. CASE g = h /\ live[h] = 0
  <2>1. live'[h] = 0
    BY <1>3, <1>12 DEF SameTorrent
  <2> QED BY <2>1, LeavesSaved
<1> QED BY <1>9, <1>10, <1>11, <1>12

\* A tick compares with what it finds; the answers it popped do not count.
LEMMA TickSaved ==
  ASSUME TypeOK, NEW h \in Torrents, Saved(h), Tick
  PROVE  Saved(h)'
<1>1. /\ gui' = "tick" /\ popped' = Len(alerts) /\ atTick' = progress
      /\ UNCHANGED <<live, progress, dirty, alerts, disk, raced>>
  BY DEF Tick
<1>2. /\ progress[h] \in Nat
      /\ \A k \in DOMAIN alerts : k \in Nat /\ k <= Len(alerts)
      /\ Len(alerts) \in Nat
  BY TypedTorrent, Queued
<1>3. \A k \in DOMAIN alerts : ~Recent(k)'
  BY <1>1, <1>2 DEF Recent
<1>4. Ahead(h)'
  BY <1>1, <1>2 DEF Ahead
<1>5. live[h] # 0 => SavesGrow(h)'
  BY <1>1, <1>3 DEF Saved, SavesGrow, IsSave
<1>6. live[h] # 0 /\ h \notin raced => CleanIsKept(h)'
  BY <1>1 DEF Saved, CleanIsKept, IsSave
<1>7. FailureHarmless(h)' /\ ClearedIsKept(h)'
  BY <1>1, <1>3 DEF FailureHarmless, ClearedIsKept
<1> QED BY <1>1, <1>4, <1>5, <1>6, <1>7 DEF Saved

-----------------------------------------------------------------------------
(* libtorrent's steps                                                      *)

\* What it does for another torrent.
LEMMA ServedSavesAside ==
  ASSUME TypeOK, TypeOK', NEW h, ServedAlone(h), AlertsGrow,
         \A k : NewAlert(k) => alerts'[k].h = h,
         NEW g \in Torrents \ {h}, Saved(g)
  PROVE  Saved(g)'
<1>1. /\ live'[g] = live[g] /\ atTick'[g] = atTick[g]
      /\ progress'[g] = progress[g] /\ dirty'[g] = dirty[g]
      /\ UNCHANGED <<gui, handles, savePending, popped, disk, raced>>
  BY DEF ServedAlone
<1>2. progress'[g] >= progress[g] /\ \A k : Recent(k)' = Recent(k)
  BY <1>1, TypedTorrent DEF Recent
<1>3. \A k : NewAlert(k) => ~Answers(alerts'[k], g)
  BY DEF Answers
<1> QED BY <1>1, <1>2, <1>3, SavesAside

\* A restore or an add that finds the torrent already as it was.
LEMMA SameSaved ==
  ASSUME TypeOK, TypeOK', NEW h \in Torrents, ServedAlone(h), SameTorrent(h),
         dirty'[h] = dirty[h], AlertsGrow, Saved(h),
         \A k : NewAlert(k) => alerts'[k].kind \notin {"saved", "saveFailed"}
  PROVE  Saved(h)'
<1>1. /\ live'[h] = live[h] /\ atTick'[h] = atTick[h]
      /\ progress'[h] = progress[h] /\ dirty'[h] = dirty[h]
      /\ UNCHANGED <<gui, handles, savePending, popped, disk, raced>>
  BY DEF ServedAlone, SameTorrent
<1>2. progress'[h] >= progress[h] /\ \A k : Recent(k)' = Recent(k)
  BY <1>1, TypedTorrent DEF Recent
<1>3. \A k : NewAlert(k) => ~Answers(alerts'[k], h)
  BY DEF Answers
<1> QED BY <1>1, <1>2, <1>3, SavesAside

\* What libtorrent's thread does keeps every torrent's saves.
LEMMA NetSaved ==
  ASSUME SaveInv, IInv', Net
  PROVE  \A g \in Torrents : Saved(g)'
<1>1. /\ IInv /\ TypeOK /\ TypeOK' /\ Incarnations
      /\ \A g \in Torrents : Saved(g)
  BY DEF SaveInv, RowInv, StoreInv, IInv, SavesOK, Saved
<1>2. CASE NetSave
  BY <1>1, <1>2, NetSaveSaved
<1>3. ASSUME NEW h \in Torrents, ServedAlone(h), AlertsGrow,
             \A k : NewAlert(k) => /\ alerts'[k].h = h
                                   /\ alerts'[k].kind \in
                                          {"added", "finished", "removed"},
             \/ live'[h] = 0
             \/ SameTorrent(h) /\ dirty'[h] = dirty[h]
             \/ /\ live'[h] = adds[h] + 1 /\ atTick'[h] = 0
                /\ dirty'[h] \/ disk'[h] = progress'[h]
      PROVE  \A g \in Torrents : Saved(g)'
  <2>1. ASSUME NEW g \in Torrents, g # h PROVE Saved(g)'
    BY <1>1, <1>3, <2>1, ServedSavesAside
  <2>2. CASE live'[h] = 0
    BY <2>1, <2>2, LeavesSaved
  <2>3. CASE SameTorrent(h) /\ dirty'[h] = dirty[h]
    BY <1>1, <1>3, <2>1, <2>3, SameSaved
  <2>4. CASE /\ live'[h] = adds[h] + 1 /\ atTick'[h] = 0
             /\ dirty'[h] \/ disk'[h] = progress'[h]
    <3>1. handles'[h] = handles[h]
      BY <1>3 DEF ServedAlone
    <3>2. \A k : NewAlert(k) => alerts'[k].kind \notin {"saved", "saveFailed"}
      BY <1>3
    <3>3. Saved(h)'
      BY <1>1, <1>3, <2>4, <3>1, <3>2, EntersSaved
    <3> QED BY <2>1, <3>3
  <2> QED BY <1>3, <2>2, <2>3, <2>4
<1>4. CASE NetRestoreOk
  <2>1. PICK h \in Torrents : h = Head(cmds).h
    BY <1>1, <1>4, CmdServiced, CmdTyped DEF NetRestoreOk
  <2>2. /\ ServedAlone(h) /\ AlertsGrow /\ Entered(h, disk[h])
        /\ alerts'[Len(alerts) + 1] = Added(h, adds[h] + 1, TRUE)
        /\ \A k : NewAlert(k) =>
               \/ k = Len(alerts) + 1
               \/ alerts'[k] = Finished(h, adds[h] + 1, "reconfirm")
    BY <1>1, <1>4, <2>1, RestoreOkShape
  <2>3. \A k : NewAlert(k) => /\ alerts'[k].h = h
                              /\ alerts'[k].kind \in
                                     {"added", "finished", "removed"}
    BY <2>2 DEF Added, Finished
  <2>4. /\ live'[h] = adds[h] + 1 /\ atTick'[h] = 0 /\ disk'[h] = progress'[h]
    BY <2>2 DEF Entered, ServedAlone
  <2> QED BY <1>3, <2>2, <2>3, <2>4
<1>5. CASE NetRestoreRechecked
  <2>1. PICK h \in Torrents : h = Head(cmds).h
    BY <1>1, <1>5, CmdServiced, CmdTyped DEF NetRestoreRechecked
  <2>2. /\ ServedAlone(h) /\ AlertsGrow /\ Entered(h, 0) /\ dirty'[h] = TRUE
        /\ alerts'[Len(alerts) + 1] = Added(h, adds[h] + 1, TRUE)
        /\ \A k : NewAlert(k) => k = Len(alerts) + 1
    BY <1>1, <1>5, <2>1, RecheckedShape
  <2>3. \A k : NewAlert(k) => /\ alerts'[k].h = h
                              /\ alerts'[k].kind \in
                                     {"added", "finished", "removed"}
    BY <2>2 DEF Added
  <2>4. live'[h] = adds[h] + 1 /\ atTick'[h] = 0
    BY <2>2 DEF Entered
  <2> QED BY <1>3, <2>2, <2>3, <2>4
<1>6. CASE NetRestoreRefused
  <2>1. PICK h \in Torrents : h = Head(cmds).h
    BY <1>1, <1>6, CmdServiced, CmdTyped DEF NetRestoreRefused
  <2>2. /\ ServedAlone(h) /\ AlertsGrow /\ SameTorrent(h)
        /\ dirty'[h] = dirty[h]
        /\ alerts'[Len(alerts) + 1] = Added(h, 0, FALSE)
        /\ \A k : NewAlert(k) => k = Len(alerts) + 1
    BY <1>1, <1>6, <2>1, RefusedShape
  <2>3. \A k : NewAlert(k) => /\ alerts'[k].h = h
                              /\ alerts'[k].kind \in
                                     {"added", "finished", "removed"}
    BY <2>2 DEF Added
  <2> QED BY <1>3, <2>2, <2>3
<1>7. CASE NetAddNew
  <2>1. PICK h \in Torrents : h = Head(cmds).h
    BY <1>1, <1>7, CmdServiced, CmdTyped DEF NetAddNew
  <2>2. /\ ServedAlone(h) /\ AlertsGrow /\ Entered(h, 0) /\ dirty'[h] = TRUE
        /\ \A k : NewAlert(k) => alerts'[k] = Added(h, adds[h] + 1, TRUE)
    BY <1>1, <1>7, <2>1, AddNewShape
  <2>3. \A k : NewAlert(k) => /\ alerts'[k].h = h
                              /\ alerts'[k].kind \in
                                     {"added", "finished", "removed"}
    BY <2>2 DEF Added
  <2>4. live'[h] = adds[h] + 1 /\ atTick'[h] = 0
    BY <2>2 DEF Entered
  <2> QED BY <1>3, <2>2, <2>3, <2>4
<1>8. CASE NetAddDuplicate
  <2>1. PICK h \in Torrents : h = Head(cmds).h
    BY <1>1, <1>8, CmdServiced, CmdTyped DEF NetAddDuplicate
  <2> DEFINE inc == IF Head(cmds).strict THEN 0 ELSE live[h]
  <2>2. /\ ServedAlone(h) /\ AlertsGrow /\ SameTorrent(h)
        /\ dirty'[h] = dirty[h]
        /\ \A k : NewAlert(k) =>
               alerts'[k] = Added(h, inc, ~Head(cmds).strict)
    BY <1>1, <1>8, <2>1, AddDuplicateShape
  <2> HIDE DEF inc
  <2>3. \A k : NewAlert(k) => /\ alerts'[k].h = h
                              /\ alerts'[k].kind \in
                                     {"added", "finished", "removed"}
    BY <2>2 DEF Added
  <2> QED BY <1>3, <2>2, <2>3
<1>9. CASE NetRemove
  <2>1. PICK h \in Torrents : h = Head(cmds).h
    BY <1>1, <1>9, CmdServiced, CmdTyped DEF NetRemove
  <2> DEFINE inc == Head(cmds).inc
  <2>2. /\ ServedAlone(h) /\ AlertsGrow
        /\ \/ /\ live'[h] = 0
              /\ \A k : NewAlert(k) =>
                     alerts'[k] = [kind |-> "removed", h |-> h, inc |-> inc]
           \/ /\ SameTorrent(h) /\ dirty'[h] = dirty[h]
              /\ \A k : ~NewAlert(k)
    BY <1>1, <1>9, <2>1, RemoveShape
  <2>3. \A k : NewAlert(k) => /\ alerts'[k].h = h
                              /\ alerts'[k].kind \in
                                     {"added", "finished", "removed"}
    BY <2>2
  <2> QED BY <1>3, <2>2, <2>3
<1> QED BY <1>2, <1>4, <1>5, <1>6, <1>7, <1>8, <1>9 DEF Net

-----------------------------------------------------------------------------
(* The application's steps                                                 *)

\* The handlers of a pass.
LEMMA HandlersSaved ==
  ASSUME SaveInv, OnAlert
  PROVE  \A g \in Torrents : Saved(g)'
<1>1. /\ IInv /\ TypeOK /\ Incarnations
      /\ \A g \in Torrents : Saved(g)
  BY DEF SaveInv, RowInv, StoreInv, IInv, SavesOK, Saved
<1>2. /\ gui \in {"tick", "bind"} /\ popped > 0 /\ alerts' = Tail(alerts)
      /\ popped' = popped - 1
      /\ UNCHANGED <<gui, live, progress, dirty, raced, atTick>>
  BY DEF OnAlert, OnTorrentAdded, OnTorrentFinished, OnSaveResumeData,
     OnSaveFailed, OnTorrentRemoved, NextAlert
<1>3. AlertsPop /\ Head(alerts) \in Alert
  BY <1>1, <1>2, AlertPopped
<1>4. popped \in Nat
  BY <1>1, Queued
<1>5. \A k \in DOMAIN alerts' : Recent(k)' => Recent(k + 1)
  BY <1>2, <1>3, <1>4 DEF AlertsPop, Recent
<1>6. ASSUME NEW g \in Torrents, live[g] # 0, g \notin raced
      PROVE  disk'[g] = IF IsSave(Head(alerts), g) THEN Head(alerts).p
                                                   ELSE disk[g]
  <2>1. disk \in [Torrents -> NoFile..Full]
    BY <1>1 DEF TypeOK, HistTypeOK
  <2>2. CASE OnSaveResumeData
    BY <1>6, <2>1, <2>2 DEF OnSaveResumeData, NextAlert, IsValid, IsSave
  <2>3. CASE OnTorrentRemoved
    <3>1. Head(alerts).kind = "removed" /\ Head(alerts) = alerts[1]
          /\ 1 \in DOMAIN alerts
      BY <1>3, <2>3 DEF OnTorrentRemoved, NextAlert, AlertsPop
    <3>2. Running
      BY <1>2 DEF Running
    <3>3. RemovedGone(g)
      BY <1>6, <3>2, FineBefore DEF SaveInv, Fine, Row
    <3>4. Head(alerts).h # g
      BY <1>6, <3>1, <3>3 DEF RemovedGone, Reported
    <3>5. disk' = [disk EXCEPT ![Head(alerts).h] = NoFile]
      BY <2>3 DEF OnTorrentRemoved, Forget
    <3> QED BY <2>1, <3>1, <3>4, <3>5 DEF IsSave
  <2>4. CASE OnTorrentAdded \/ OnTorrentFinished \/ OnSaveFailed
    BY <2>4 DEF OnTorrentAdded, OnTorrentFinished, OnSaveFailed, NextAlert,
       IsSave, BindRestored, RefuseRestored
  <2> QED BY <2>2, <2>3, <2>4 DEF OnAlert
<1>7. \A g : ClearedIsKept(g)'
  BY <1>2 DEF ClearedIsKept
<1> QED BY <1>1, <1>2, <1>3, <1>5, <1>6, <1>7, SavesPopped

\* In shutdown()'s loop an answer takes its own torrent off `pending'.
LEMMA ShutdownHandlersSaved ==
  ASSUME SaveInv, ShutdownSaved \/ ShutdownSaveFailed \/ ShutdownIgnored
  PROVE  \A g \in Torrents : Saved(g)'
<1>1. /\ IInv /\ TypeOK /\ Incarnations
      /\ \A g \in Torrents : Saved(g)
  BY DEF SaveInv, RowInv, StoreInv, IInv, SavesOK, Saved
<1>2. /\ gui = "saving" /\ popped > 0 /\ alerts' = Tail(alerts)
      /\ UNCHANGED <<gui, handles, live, progress, dirty, raced, atTick>>
  BY DEF ShutdownSaved, ShutdownSaveFailed, ShutdownIgnored, NextPopped,
     ShutdownUnchanged, hist
<1>3. AlertsPop /\ Head(alerts) \in Alert
  BY <1>1, <1>2, AlertPopped
<1>4. /\ \A k : Recent(k)
      /\ 1 \in DOMAIN alerts /\ Head(alerts) = alerts[1]
  BY <1>2, <1>3 DEF Recent, AlertsPop
<1>5. disk \in [Torrents -> NoFile..Full]
  BY <1>1 DEF TypeOK, HistTypeOK
<1>6. ASSUME NEW g \in Torrents, live[g] # 0, g \notin raced
      PROVE  /\ disk'[g] = IF IsSave(Head(alerts), g) THEN Head(alerts).p
                                                      ELSE disk[g]
             /\ ClearedIsKept(g)'
  <2>1. ClearedIsKept(g) /\ SavesGrow(g) /\ FailureHarmless(g)
    BY <1>1, <1>6 DEF Saved
  <2>2. CASE ShutdownSaved
    <3>1. /\ Head(alerts).kind = "saved"
          /\ disk' = [disk EXCEPT ![Head(alerts).h] = Head(alerts).p]
          /\ savePending' =
                 savePending \ {<<Head(alerts).h, Head(alerts).inc>>}
          /\ Head(alerts).inc = live[Head(alerts).h]
      BY <2>2 DEF ShutdownSaved, NextPopped, ClearedBy, IsValid
    <3>2. CASE Head(alerts).h = g
      <4>1. IsSave(Head(alerts), g)
        BY <3>1, <3>2 DEF IsSave
      <4>2. disk'[g] = Head(alerts).p
        BY <1>5, <3>1, <3>2
      <4>3. Head(alerts).p >= atTick[g]
        BY <1>4, <2>1, <4>1 DEF SavesGrow
      <4> QED BY <1>2, <4>1, <4>2, <4>3 DEF ClearedIsKept
    <3>3. CASE Head(alerts).h # g
      <4>1. disk'[g] = disk[g] /\ ~IsSave(Head(alerts), g)
        BY <1>5, <3>1, <3>3 DEF IsSave
      <4>2. <<g, live[g]>> \in savePending => <<g, live[g]>> \in savePending'
        BY <3>1, <3>3
      <4> QED BY <1>2, <2>1, <4>1, <4>2 DEF ClearedIsKept
    <3> QED BY <3>2, <3>3
  <2>3. CASE ShutdownSaveFailed
    <3>1. /\ Head(alerts).kind = "saveFailed" /\ disk' = disk
          /\ savePending' =
                 savePending \ {<<Head(alerts).h, Head(alerts).inc>>}
      BY <2>3 DEF ShutdownSaveFailed, NextPopped, ClearedBy
    <3>2. ~IsSave(Head(alerts), g)
      BY <3>1 DEF IsSave
    <3>3. CASE Head(alerts).h = g /\ Head(alerts).inc = live[g]
      <4>1. disk[g] >= atTick[g]
        <5>1. \/ \E i \in 1..(1 - 1) :
                    IsSave(alerts[i], g) /\ alerts[i].p >= atTick[g]
              \/ disk[g] >= atTick[g]
          BY <1>4, <2>1, <3>1, <3>3 DEF FailureHarmless
        <5> QED BY <5>1
      <4> QED BY <1>2, <3>1, <3>2, <4>1 DEF ClearedIsKept
    <3>4. CASE ~(Head(alerts).h = g /\ Head(alerts).inc = live[g])
      <4>1. <<g, live[g]>> \in savePending => <<g, live[g]>> \in savePending'
        BY <3>1, <3>4
      <4> QED BY <1>2, <2>1, <3>1, <3>2, <4>1 DEF ClearedIsKept
    <3> QED BY <3>3, <3>4
  <2>4. CASE ShutdownIgnored
    BY <1>2, <2>1, <2>4 DEF ShutdownIgnored, NextPopped, IsSave, ClearedIsKept
  <2> QED BY <2>2, <2>3, <2>4
<1> QED BY <1>1, <1>2, <1>3, <1>4, <1>6, SavesPopped

\* shutdown() waits for every torrent it can drive.
LEMMA ShutdownBeginSaved ==
  ASSUME TypeOK, NEW h \in Torrents, Saved(h), ShutdownBegin
  PROVE  Saved(h)'
<1>1. /\ gui = "idle" /\ gui' = "saving" /\ raced \subseteq raced'
      /\ UNCHANGED <<handles, live, progress, dirty, alerts, disk, atTick>>
      /\ savePending' = {<<g, handles[g]>> : g \in SavedAtExit}
  BY DEF ShutdownBegin, GuiIdle
<1>2. \A k : Recent(k)
  BY <1>1 DEF Recent
<1>3. Ahead(h)'
  BY <1>1 DEF Saved, Ahead
<1>4. live[h] # 0 => SavesGrow(h)'
  BY <1>1, <1>2 DEF Saved, SavesGrow, IsSave
<1>5. live[h] # 0 /\ h \notin raced' => CleanIsKept(h)'
  BY <1>1 DEF Saved, CleanIsKept, IsSave
<1>6. live[h] # 0 /\ h \notin raced' => FailureHarmless(h)'
  BY <1>1, <1>2 DEF Saved, FailureHarmless, IsSave
<1>7. live[h] # 0 => ClearedIsKept(h)'
  BY <1>1 DEF ClearedIsKept, SavedAtExit, IsValid
<1> QED BY <1>1, <1>3, <1>4, <1>5, <1>6, <1>7 DEF Saved

\* What neither saves, compares nor waits: the files and the answers in the
\* queue stay as they are.
LEMMA QuietSaved ==
  ASSUME SaveInv, IInv',
         \/ \E t \in Threads, h \in Torrents, strict \in BOOLEAN :
                AddBegin(t, h, strict)
         \/ \E h \in Torrents : Remove(h)
         \/ Returns \/ BindPoll \/ DrainOne \/ EndPass \/ Autosave
         \/ ShutdownPoll \/ UNCHANGED vars
  PROVE  \A g \in Torrents : Saved(g)'
<1>1. /\ IInv /\ TypeOK /\ TypeOK' /\ \A g \in Torrents : Saved(g)
  BY DEF SaveInv, RowInv, StoreInv, IInv, SavesOK, Saved
<1>2. /\ UNCHANGED <<live, progress, dirty, alerts, disk, atTick>>
      /\ raced \subseteq raced'
      /\ gui' = "saving" => gui = "saving" /\ savePending' = savePending
  BY DEF AddBegin, Remove, Returns, AddReturn, AddRaise, BindPoll, DrainOne,
     EndPass, Autosave, ShutdownPoll, GuiIdle, vars, app, lib, hist
<1>3. \A k \in DOMAIN alerts : Recent(k)' => Recent(k)
  <2>1. \A k \in DOMAIN alerts : k \in Nat /\ k > 0
    BY <1>1, Queued
  <2>2. \/ gui' = gui /\ (gui = "tick" => popped' = popped)
        \/ gui = "idle"
        \/ popped = 0
    BY DEF AddBegin, Remove, Returns, AddReturn, AddRaise, BindPoll, DrainOne,
       EndPass, Autosave, ShutdownPoll, GuiIdle, vars, app, lib, hist
  <2> QED BY <2>1, <2>2 DEF Recent
<1>4. AlertsGrow /\ \A k : ~NewAlert(k)
  BY <1>1, <1>2, AlertsStay
<1>5. ASSUME NEW g \in Torrents, g \notin raced', gui' = "saving"
      PROVE  handles'[g] = handles[g]
  <2>1. CASE UNCHANGED handles
    BY <2>1
  <2>2. ASSUME NEW c \in calls, AddReturn(c) PROVE handles'[g] = handles[g]
    <3>1. handles' = [handles EXCEPT ![c.h] = c.inc]
      BY <2>2 DEF AddReturn
    <3>2. gui = "saving" /\ g \notin raced
      BY <1>2, <1>5
    <3>3. AnswersFor(g)
      BY <1>5, <3>2 DEF SaveInv, RowInv, AnswersHold
    <3>4. c.h # g
      BY <3>2, <3>3 DEF AnswersFor
    <3> QED BY <1>1, <3>1, <3>4 DEF TypeOK, AppTypeOK
  <2> QED BY <2>1, <2>2 DEF AddBegin, Remove, Returns, AddRaise, BindPoll,
          DrainOne, EndPass, Autosave, ShutdownPoll, vars, app
<1>6. \A g \in Torrents : progress'[g] >= progress[g]
  BY <1>1, <1>2, TypedTorrent
<1> QED BY <1>1, <1>2, <1>3, <1>4, <1>5, <1>6, SavesAside

\* What is downloaded is not in the file yet, and not clean.
LEMMA DownloadSaved ==
  ASSUME SaveInv, IInv', NEW h \in Torrents, Download(h)
  PROVE  \A g \in Torrents : Saved(g)'
<1>1. /\ IInv /\ TypeOK /\ TypeOK' /\ \A g \in Torrents : Saved(g)
  BY DEF SaveInv, RowInv, StoreInv, IInv, SavesOK, Saved
<1>2. /\ ServedAlone(h) /\ AlertsGrow /\ live' = live /\ atTick' = atTick
      /\ dirty'[h] = TRUE /\ progress'[h] = progress[h] + 1
      /\ \A k : NewAlert(k) => alerts'[k] = Finished(h, live[h], "done")
  BY <1>1, DownloadShape
<1>3. \A k : NewAlert(k) => alerts'[k].h = h /\ alerts'[k].kind = "finished"
  BY <1>2 DEF Finished
<1>4. \A g \in Torrents : g # h => Saved(g)'
  BY <1>1, <1>2, <1>3, ServedSavesAside
<1>5. Saved(h)'
  <2>1. /\ UNCHANGED <<gui, handles, savePending, popped, disk, raced>>
        /\ \A k : Recent(k)' = Recent(k)
    BY <1>2 DEF ServedAlone, Recent
  <2>2. progress'[h] >= progress[h]
    BY <1>1, <1>2, TypedTorrent
  <2>3. \A k : NewAlert(k) => ~Answers(alerts'[k], h)
    BY <1>3 DEF Answers
  <2> QED BY <1>1, <1>2, <2>1, <2>2, <2>3, SavesAside
<1> QED BY <1>4, <1>5

-----------------------------------------------------------------------------
(* Every step                                                              *)

\* No torrent is in the session before the first launch.
LEMMA SaveInit == Init => SaveInv
<1> SUFFICES ASSUME Init PROVE SaveInv
  OBVIOUS
<1>1. RowInv
  BY RowInit
<1>2. SavesOK
  BY DEF Init, SavesOK, Ahead
<1> QED BY <1>1, <1>2 DEF SaveInv

\* The whole invariant of the session is inductive.
LEMMA SaveStep == SaveInv /\ [Next]_vars => SaveInv'
<1> SUFFICES ASSUME SaveInv, [Next]_vars PROVE SaveInv'
  OBVIOUS
<1>1. RowInv' /\ IInv' /\ TypeOK /\ \A g \in Torrents : Saved(g)
  BY RowStep DEF SaveInv, RowInv, StoreInv, IInv, SavesOK, Saved
<1>2. SUFFICES \A g \in Torrents : Saved(g)'
  BY <1>1 DEF SaveInv, SavesOK, Saved
<1>3. CASE Net
  BY <1>1, <1>3, NetSaved
<1>4. CASE OnAlert
  BY <1>4, HandlersSaved
<1>5. CASE ShutdownSaved \/ ShutdownSaveFailed \/ ShutdownIgnored
  BY <1>5, ShutdownHandlersSaved
<1>6. CASE Tick
  BY <1>1, <1>6, TickSaved
<1>7. CASE ShutdownBegin
  BY <1>1, <1>7, ShutdownBeginSaved
<1>8. CASE \E h \in Torrents : Download(h)
  BY <1>1, <1>8, DownloadSaved
<1>9. CASE Launch
  <2>1. \A g \in Torrents : live'[g] = 0
    BY <1>9 DEF Launch, SaveInv, RowInv, StoreInv, IInv, Bookkeeping, OffIsEmpty
  <2> QED BY <2>1, LeavesSaved
<1>10. CASE Crash \/ ShutdownDone \/ ShutdownTimeout \/ ShutdownRaise
  <2>1. \A g \in Torrents : live'[g] = 0
    BY <1>10 DEF Crash, ShutdownDone, ShutdownTimeout, ShutdownRaise, End
  <2> QED BY <2>1, LeavesSaved
<1>11. CASE \/ \E t \in Threads, h \in Torrents, strict \in BOOLEAN :
                   AddBegin(t, h, strict)
            \/ \E h \in Torrents : Remove(h)
            \/ Returns \/ BindPoll \/ DrainOne \/ EndPass \/ Autosave
            \/ ShutdownPoll \/ UNCHANGED vars
  BY <1>1, <1>11, QuietSaved
<1> QED
  BY <1>3, <1>4, <1>5, <1>6, <1>7, <1>8, <1>9, <1>10, <1>11
  DEF Next, User, GuiLoop, ShutdownLoop

\* The whole inductive invariant of the session holds in every state.
THEOREM SessionInductive == Spec => []Inductive
<1>1. Init => SaveInv
  BY SaveInit
<1>2. SaveInv /\ [Next]_vars => SaveInv'
  BY SaveStep
<1>3. SaveInv => Inductive
  BY DEF SaveInv, RowInv, StoreInv, Inductive, CallsOK
<1> QED BY <1>1, <1>2, <1>3, PTL DEF Spec

\* When shutdown() ends with nothing left to wait for, every torrent it could
\* drive has in its .fastresume what it had at the last tick, at least.
THEOREM CleanExit == Spec => []CleanExitKeepsProgress
<1>1. Inductive => CleanExitKeepsProgress
  BY DEF Inductive, SavesOK, ClearedIsKept, CleanExitKeepsProgress, IsValid
<1> QED BY <1>1, SessionInductive, PTL
=============================================================================
