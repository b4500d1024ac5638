-------------------------- MODULE SessionRowProofs ---------------------------
(***************************************************************************)
(* Rows, handles, files and the torrents of libtorrent agree, for every    *)
(* info-hash whose add overlapped nothing: HandleHasRecord, LiveIsKnown,   *)
(* RowIsLive and FileHasRow.  An event disturbs the row of its own torrent *)
(* only; what it finds there is what AnswersFor and Row say of the         *)
(* requests, calls and alerts still in flight.                             *)
(***************************************************************************)
EXTENDS SessionRefinementProofs

RowInv == StoreInv /\ AnswersHold /\ RowsOK

-----------------------------------------------------------------------------
(* A step that leaves a torrent aside                                      *)

\* The alerts about g that a handler would act on are still there, in order.
SameAlerts(g) ==
    /\ Reported(g)' => Reported(g)
    /\ gui # "saving" => (Reported(g) => Reported(g)')
    /\ gui # "saving" /\ g \in pendingRestore =>
           /\ \A k : RestoreAnswer(g, k)' =>
                  \E j : RestoreAnswer(g, j) /\ alerts[j] = alerts'[k]
           /\ AnswerBeforeRemoval(g) => AnswerBeforeRemoval(g)'

\* The requests about g that libtorrent will act on were already there.
SameCmds(g) ==
    \A i \in DOMAIN cmds' :
        cmds'[i].h = g /\ cmds'[i].op \in {"restore", "remove"} =>
            OldCmd(cmds'[i])

\* A posted alert that is neither a removal nor a first answer is of no
\* consequence.
LEMMA AlertsPostedAside ==
  ASSUME AlertsGrow, NEW g,
         \A k : NewAlert(k) /\ alerts'[k].h = g =>
             /\ alerts'[k].kind # "removed"
             /\ alerts'[k].kind = "added" /\ gui # "saving"
                /\ g \in pendingRestore =>
                    \E j \in DOMAIN alerts : IsAdded(alerts[j], g)
  PROVE  SameAlerts(g)
<1>1. \A k \in DOMAIN alerts' :
         \/ k \in DOMAIN alerts /\ alerts'[k] = alerts[k]
         \/ NewAlert(k)
  BY DEF AlertsGrow, NewAlert
<1>2. \A k \in DOMAIN alerts : k \in DOMAIN alerts' /\ alerts'[k] = alerts[k]
  BY DEF AlertsGrow
<1>3. Reported(g)' <=> Reported(g)
  BY <1>1, <1>2 DEF Reported
<1>4. ASSUME gui # "saving", g \in pendingRestore, NEW k, RestoreAnswer(g, k)'
      PROVE  RestoreAnswer(g, k) /\ alerts[k] = alerts'[k]
  <2>1. /\ k \in DOMAIN alerts' /\ IsAdded(alerts'[k], g)
        /\ \A i \in 1..(k - 1) : ~IsAdded(alerts'[i], g)
    BY <1>4 DEF RestoreAnswer, IsAdded
  <2>2. k \in DOMAIN alerts
    <3>1. SUFFICES ASSUME NewAlert(k) PROVE FALSE
      BY <1>1, <2>1
    <3>2. PICK j \in DOMAIN alerts : IsAdded(alerts[j], g)
      BY <1>4, <2>1, <3>1 DEF IsAdded
    <3>3. j \in 1..(k - 1)
      BY <3>1 DEF AlertsGrow, NewAlert
    <3> QED BY <1>2, <2>1, <3>2, <3>3
  <2>3. \A i \in 1..(k - 1) : alerts'[i] = alerts[i]
    BY <2>2 DEF AlertsGrow
  <2> QED BY <1>2, <2>1, <2>2, <2>3 DEF RestoreAnswer
<1>5. ASSUME AnswerBeforeRemoval(g)
      PROVE  AnswerBeforeRemoval(g)'
  <2>1. ASSUME NEW k \in DOMAIN alerts', alerts'[k].kind = "removed",
               alerts'[k].h = g
        PROVE  \E i \in 1..(k - 1) : IsAdded(alerts'[i], g)
    <3>1. k \in DOMAIN alerts /\ alerts'[k] = alerts[k]
      BY <1>1, <2>1
    <3>2. PICK i \in 1..(k - 1) : IsAdded(alerts[i], g)
      BY <1>5, <2>1, <3>1 DEF AnswerBeforeRemoval
    <3>3. alerts'[i] = alerts[i]
      BY <3>1, <3>2 DEF AlertsGrow
    <3> QED BY <3>2, <3>3
  <2> QED BY <2>1 DEF AnswerBeforeRemoval, IsAdded
<1> QED BY <1>3, <1>4, <1>5 DEF SameAlerts

\* Popping an alert about another torrent, or one that is neither an answer
\* nor a removal, is of no consequence; in shutdown() none is.
LEMMA AlertsPoppedAside ==
  ASSUME AlertsPop, NEW g,
         \/ gui = "saving"
         \/ Head(alerts).h # g
         \/ Head(alerts).kind = "added" /\ g \notin pendingRestore
         \/ Head(alerts).kind \notin {"added", "removed"}
  PROVE  SameAlerts(g)
<1>1. /\ \A k \in DOMAIN alerts' :
            k + 1 \in DOMAIN alerts /\ alerts'[k] = alerts[k + 1]
      /\ \A k \in DOMAIN alerts : k = 1 \/ (/\ k - 1 \in DOMAIN alerts'
                                            /\ alerts'[k - 1] = alerts[k])
      /\ alerts[1] = Head(alerts)
  BY DEF AlertsPop
<1>2. Reported(g)' => Reported(g)
  BY <1>1 DEF Reported
<1>3. ASSUME gui # "saving", Reported(g)
      PROVE  Reported(g)'
  <2>1. PICK k \in DOMAIN alerts : alerts[k].kind = "removed" /\ alerts[k].h = g
    BY <1>3 DEF Reported
  <2>2. k # 1
    BY <1>1, <1>3, <2>1
  <2> QED BY <1>1, <2>1, <2>2 DEF Reported
<1>4. ASSUME gui # "saving", g \in pendingRestore
      PROVE  ~IsAdded(alerts[1], g)
  BY <1>1, <1>4 DEF IsAdded
<1>5. ASSUME gui # "saving", g \in pendingRestore, NEW k, RestoreAnswer(g, k)'
      PROVE  RestoreAnswer(g, k + 1) /\ alerts[k + 1] = alerts'[k]
  <2>1. /\ k \in DOMAIN alerts' /\ IsAdded(alerts'[k], g)
        /\ \A i \in 1..(k - 1) : ~IsAdded(alerts'[i], g)
    BY <1>5 DEF RestoreAnswer, IsAdded
  <2>2. k \in Nat /\ k >= 1 /\ k + 1 \in DOMAIN alerts
        /\ alerts'[k] = alerts[k + 1]
    BY <1>1, <2>1 DEF AlertsPop
  <2>3. ASSUME NEW i \in 1..((k + 1) - 1) PROVE ~IsAdded(alerts[i], g)
    <3>1. CASE i = 1
      BY <1>4, <1>5, <3>1
    <3>2. CASE i # 1
      <4>1. i - 1 \in 1..(k - 1) /\ i \in DOMAIN alerts
        BY <2>2, <2>3, <3>2 DEF AlertsPop
      <4> QED BY <1>1, <2>1, <3>2, <4>1
    <3> QED BY <3>1, <3>2
  <2> QED BY <2>1, <2>2, <2>3 DEF RestoreAnswer
<1>6. ASSUME gui # "saving", g \in pendingRestore, AnswerBeforeRemoval(g)
      PROVE  AnswerBeforeRemoval(g)'
  <2>1. ASSUME NEW k \in DOMAIN alerts', alerts'[k].kind = "removed",
               alerts'[k].h = g
        PROVE  \E i \in 1..(k - 1) : IsAdded(alerts'[i], g)
    <3>1. k + 1 \in DOMAIN alerts /\ alerts'[k] = alerts[k + 1] /\ k \in Nat
      BY <1>1, <2>1 DEF AlertsPop
    <3>2. PICK i \in 1..((k + 1) - 1) : IsAdded(alerts[i], g)
      BY <1>6, <2>1, <3>1 DEF AnswerBeforeRemoval
    <3>3. i # 1 /\ i \in DOMAIN alerts
      BY <1>4, <1>6, <3>1, <3>2 DEF AlertsPop
    <3>4. i - 1 \in 1..(k - 1) /\ alerts'[i - 1] = alerts[i]
      BY <1>1, <3>1, <3>2, <3>3
    <3> QED BY <3>2, <3>4
  <2> QED BY <2>1 DEF AnswerBeforeRemoval, IsAdded
<1> QED BY <1>2, <1>3, <1>5, <1>6 DEF SameAlerts

\* A step that leaves the alerts alone says nothing new of any torrent.
LEMMA AlertsKeptAside ==
  ASSUME alerts' = alerts, NEW g
  PROVE  SameAlerts(g)
BY DEF SameAlerts, Reported, RestoreAnswer, AnswerBeforeRemoval

\* Nothing but a restore, or the handle it is bound to, ends its being unbound.
LEMMA RestoreUnboundKept ==
  ASSUME NEW g, SameCmds(g), RestoreUnbound(g), handles'[g] = handles[g],
         g \in pendingRestore <=> g \in pendingRestore'
  PROVE  RestoreUnbound(g)'
BY DEF SameCmds, OldCmd, RestoreUnbound, IsRestore

\* A torrent in the session has a row.
LEMMA LiveHasRecord ==
  ASSUME NEW g, AnswersFor(g), Row(g), live[g] # 0
  PROVE  records[g] # "none"
BY DEF AnswersFor, Row, Pending, Settled, LiveBound, Answered, HandleCurrent

\* A row stays right in a step that is not about it.
LEMMA RowAside ==
  ASSUME NEW g, Row(g), SameAlerts(g), RestoreUnbound(g)',
         live'[g] = live[g], handles'[g] = handles[g],
         g \in pendingRestore <=> g \in pendingRestore',
         g \in failedRestore => g \in failedRestore',
         gui = "saving" <=> gui' = "saving",
         records[g] # "none" => records'[g] # "none",
         records'[g] # "none" => records[g] # "none" \/ Adding(g)',
         disk'[g] # NoFile => disk[g] # NoFile \/ records[g] # "none",
         Answered(g) => Answered(g)',
         g \notin pendingRestore /\ Adding(g) =>
             Adding(g)' \/ handles[g] # 0
  PROVE  Row(g)'
<1>1. HandleCurrent(g)'
  BY DEF Row, HandleCurrent, SameAlerts
<1>2. RemovedGone(g)'
  BY DEF Row, RemovedGone, SameAlerts
<1>3. disk'[g] # NoFile => records'[g] # "none" \/ g \in failedRestore'
  BY DEF Row
<1>4. LiveBound(g) => LiveBound(g)'
  BY DEF LiveBound
<1>5. ASSUME g \in pendingRestore PROVE Pending(g)'
  <2>1. Pending(g) /\ records'[g] # "none"
    BY <1>5 DEF Row, Pending
  <2>2. ASSUME gui # "saving", NEW k \in DOMAIN alerts', RestoreAnswer(g, k)'
        PROVE  IF alerts'[k].ok
               THEN /\ alerts'[k].inc # 0
                    /\ live'[g] \in {0, alerts'[k].inc}
                    /\ handles'[g] \in {0, alerts'[k].inc}
                    /\ live'[g] = 0 => Reported(g)'
               ELSE LiveBound(g)'
    <3>1. PICK j : RestoreAnswer(g, j) /\ alerts[j] = alerts'[k]
      BY <1>5, <2>2 DEF SameAlerts
    <3>2. j \in DOMAIN alerts
      BY <3>1 DEF RestoreAnswer
    <3>3. IF alerts[j].ok
          THEN /\ alerts[j].inc # 0
               /\ live[g] \in {0, alerts[j].inc}
               /\ handles[g] \in {0, alerts[j].inc}
               /\ live[g] = 0 => Reported(g)
          ELSE LiveBound(g)
      BY <2>1, <2>2, <3>1, <3>2 DEF Pending, AnswerTrue
    <3>4. Reported(g) => Reported(g)'
      BY <2>2 DEF SameAlerts
    <3> QED BY <1>4, <3>1, <3>3, <3>4
  <2>3. gui' # "saving" => AnswerTrue(g)'
    BY <2>2 DEF AnswerTrue
  <2>4. gui' # "saving" => AnswerBeforeRemoval(g)'
    BY <1>5, <2>1 DEF Pending, SameAlerts
  <2> QED BY <2>1, <2>3, <2>4 DEF Pending
<1>6. ASSUME g \notin pendingRestore PROVE Settled(g)'
  <2>1. Settled(g)
    BY <1>6 DEF Row
  <2> QED BY <1>4, <1>6, <2>1 DEF Settled
<1> QED BY <1>1, <1>2, <1>3, <1>5, <1>6 DEF Row

\* What was answered to the calls of a torrent stays true in a step that is
\* not about it.
LEMMA CallsAside ==
  ASSUME NEW g, AnswersFor(g),
         \A c \in calls' : c.h = g => c \in calls,
         live'[g] = live[g],
         gui' = "saving" => gui = "saving",
         Reported(g)' => Reported(g), SameCmds(g),
         records[g] # "none" => records'[g] # "none",
         g \in pendingRestore' => g \in pendingRestore
  PROVE  AnswersFor(g)'
<1>1. RemovalInFlight(g)' => RemovalInFlight(g)
  BY DEF RemovalInFlight, Reported, SameCmds, OldCmd
<1> QED BY <1>1 DEF AnswersFor

\* What holds of a torrent whose add overlapped nothing.
Fine(g) == AnswersFor(g) /\ Row(g)

\* While the application runs, a torrent whose calls did not cross is fine.
LEMMA FineBefore ==
  ASSUME RowInv, Running, NEW g \in Torrents \ raced
  PROVE  Fine(g)
BY DEF RowInv, AnswersHold, RowsOK, Fine

\* A request serviced leaves the others as they were.
LEMMA CmdsPopAside ==
  ASSUME CmdsPop, NEW g PROVE SameCmds(g)
BY OldOrNew DEF SameCmds

\* An answer to a request for another torrent.
LEMMA ServedAside ==
  ASSUME NEW h, ServedAlone(h), CmdsPop, AlertsGrow,
         \A k : NewAlert(k) => alerts'[k].h = h,
         NEW g \in Torrents \ {h}, Fine(g),
         \A c \in calls \cup calls' : c.h = g => (c \in calls <=> c \in calls')
  PROVE  Fine(g)'
<1>1. SameAlerts(g)
  BY AlertsPostedAside
<1>2. SameCmds(g)
  BY CmdsPopAside
<1>3. AnswersFor(g)'
  BY <1>1, <1>2, CallsAside DEF Fine, ServedAlone, SameAlerts
<1>4. RestoreUnbound(g)'
  BY <1>2, RestoreUnboundKept DEF Fine, Row, ServedAlone
<1>5. Answered(g) = Answered(g)' /\ Adding(g) = Adding(g)'
  BY DEF Answered, Adding
<1>6. Row(g)'
  BY <1>1, <1>4, <1>5, RowAside DEF Fine, ServedAlone
<1> QED BY <1>3, <1>6 DEF Fine

\* What a row is when libtorrent services its restore.
LEMMA RestoreFinds ==
  ASSUME RowInv, NextCmd("restore"), NEW h, h = Head(cmds).h, h \notin raced
  PROVE  /\ Running /\ h \in Torrents /\ Fine(h)
         /\ live[h] = 0 /\ handles[h] = 0 /\ h \in pendingRestore
         /\ records[h] # "none"
         /\ \A c \in calls : c.h = h => c.stage \notin {"ok", "dup"}
         /\ \A k \in DOMAIN alerts : alerts[k].h # h
         /\ \A i \in DOMAIN cmds : cmds[i].op = "remove" => cmds[i].h # h
<1>1. IInv
  BY DEF RowInv, StoreInv
<1>2. /\ Head(cmds) \in Cmd /\ Head(cmds).op = "restore"
      /\ Head(cmds) = cmds[1] /\ 1 \in DOMAIN cmds
  BY <1>1, CmdServiced DEF IInv, CmdsPop
<1>3. h \in Torrents
  BY <1>2, CmdTyped
<1>4. Running
  BY <1>1 DEF IInv, Bookkeeping, OffIsEmpty, Running, NextCmd
<1>5. Fine(h)
  BY <1>3, <1>4, FineBefore
<1>6. live[h] = 0 /\ \A k \in DOMAIN alerts : alerts[k].h # h
  BY <1>1, RestoreHasFile
<1>7. /\ handles[h] = 0 /\ h \in pendingRestore
      /\ \A i \in DOMAIN cmds : cmds[i].op = "remove" => cmds[i].h # h
  BY <1>2, <1>5 DEF Fine, Row, RestoreUnbound, IsRestore
<1>8. records[h] # "none"
  BY <1>5, <1>7 DEF Fine, Row, Pending
<1>9. \A c \in calls : c.h = h => c.stage \notin {"ok", "dup"}
  BY <1>5, <1>6 DEF Fine, AnswersFor, RowInv, AnswersHold
<1> QED BY <1>3, <1>4, <1>5, <1>6, <1>7, <1>8, <1>9

\* After its restore is serviced, a torrent is bound to nothing yet; its first
\* answer names the incarnation in the session, or none.
LEMMA RestoreLeaves ==
  ASSUME RowInv, NextCmd("restore"), NEW h, h = Head(cmds).h, h \notin raced,
         NEW ok \in BOOLEAN, NEW inc,
         CmdsPop, AlertsGrow, ServedAlone(h), calls' = calls,
         NewAlert(Len(alerts) + 1),
         alerts'[Len(alerts) + 1] = Added(h, inc, ok),
         \A k : NewAlert(k) => \/ k = Len(alerts) + 1
                               \/ alerts'[k].kind = "finished",
         IF ok THEN inc # 0 /\ live'[h] = inc ELSE live'[h] = 0
  PROVE  Fine(h)'
<1>1. /\ Running /\ h \in Torrents /\ Fine(h)
      /\ live[h] = 0 /\ handles[h] = 0 /\ h \in pendingRestore
      /\ records[h] # "none"
      /\ \A c \in calls : c.h = h => c.stage \notin {"ok", "dup"}
      /\ \A k \in DOMAIN alerts : alerts[k].h # h
      /\ \A i \in DOMAIN cmds : cmds[i].op = "remove" => cmds[i].h # h
  BY RestoreFinds
<1>2. UNCHANGED <<gui, records, handles, pendingRestore, failedRestore, disk>>
  BY DEF ServedAlone
<1>3. \A k \in DOMAIN alerts' :
          \/ alerts'[k].h # h
          \/ k = Len(alerts) + 1
          \/ alerts'[k].kind = "finished"
  BY <1>1 DEF AlertsGrow, NewAlert
<1>4. /\ alerts'[Len(alerts) + 1].kind = "added"
      /\ alerts'[Len(alerts) + 1].ok = ok /\ alerts'[Len(alerts) + 1].inc = inc
  BY DEF Added
<1>5. ~Reported(h)'
  BY <1>3, <1>4 DEF Reported
<1>6. \A i \in DOMAIN cmds' : cmds'[i].op = "remove" => cmds'[i].h # h
  BY <1>1 DEF CmdsPop
<1>7. AnswersFor(h)'
  BY <1>1, <1>2, <1>5, <1>6 DEF Fine, AnswersFor, RemovalInFlight, Reported
<1>8. HandleCurrent(h)' /\ RemovedGone(h)'
  BY <1>1, <1>2, <1>5 DEF HandleCurrent, RemovedGone
<1>9. RestoreUnbound(h)'
  BY <1>1, <1>2, <1>6 DEF RestoreUnbound
<1>10. \A k : RestoreAnswer(h, k)' => k = Len(alerts) + 1
  BY <1>3 DEF RestoreAnswer, IsAdded
<1>11. AnswerTrue(h)'
  BY <1>1, <1>2, <1>4, <1>10 DEF AnswerTrue, LiveBound
<1>12. AnswerBeforeRemoval(h)'
  BY <1>3, <1>4 DEF AnswerBeforeRemoval
<1>13. Row(h)'
  BY <1>1, <1>2, <1>8, <1>9, <1>11, <1>12 DEF Row, Pending
<1> QED BY <1>7, <1>13 DEF Fine

\* The services of a restore keep every torrent's row.
LEMMA RestoresFine ==
  ASSUME RowInv, NetRestoreOk \/ NetRestoreRechecked \/ NetRestoreRefused
  PROVE  \A g \in Torrents \ raced' : Fine(g)'
<1>1. IInv /\ NextCmd("restore")
  BY DEF RowInv, StoreInv, NetRestoreOk, NetRestoreRechecked,
         NetRestoreRefused
<1>2. PICK h \in Torrents : h = Head(cmds).h
  BY <1>1, CmdServiced, CmdTyped DEF IInv
<1>3. live[h] = 0 /\ adds[h] \in Nat
  BY <1>1, <1>2, RestoreHasFile, TypedTorrent DEF IInv
<1>4. /\ CmdsPop /\ AlertsGrow /\ ServedAlone(h) /\ calls' = calls
      /\ NewAlert(Len(alerts) + 1)
      /\ \A k : NewAlert(k) => alerts'[k].h = h
      /\ \A k : NewAlert(k) => \/ k = Len(alerts) + 1
                               \/ alerts'[k].kind = "finished"
      /\ \E ok \in BOOLEAN, inc \in Nat :
             /\ alerts'[Len(alerts) + 1] = Added(h, inc, ok)
             /\ IF ok THEN inc # 0 /\ live'[h] = inc ELSE live'[h] = 0
  <2>1. CASE NetRestoreOk
    <3>1. /\ CmdsPop /\ AlertsGrow /\ ServedAlone(h) /\ calls' = calls
          /\ Entered(h, disk[h]) /\ NewAlert(Len(alerts) + 1)
          /\ alerts'[Len(alerts) + 1] = Added(h, adds[h] + 1, TRUE)
          /\ \A k : NewAlert(k) =>
                 \/ k = Len(alerts) + 1
                 \/ alerts'[k] = Finished(h, adds[h] + 1, "reconfirm")
      BY <1>1, <1>2, <2>1, RestoreOkShape
    <3>2. adds[h] + 1 \in Nat /\ adds[h] + 1 # 0 /\ live'[h] = adds[h] + 1
      BY <1>3, <3>1 DEF Entered
    <3>3. \E ok \in BOOLEAN, inc \in Nat :
             /\ alerts'[Len(alerts) + 1] = Added(h, inc, ok)
             /\ IF ok THEN inc # 0 /\ live'[h] = inc ELSE live'[h] = 0
      <4>1. adds[h] + 1 \in Nat
        BY <3>2
      <4> WITNESS TRUE \in BOOLEAN, adds[h] + 1 \in Nat
      <4> QED BY <3>1, <3>2
    <3>4. \A k : NewAlert(k) => \/ k = Len(alerts) + 1 /\ alerts'[k].h = h
                               \/ /\ alerts'[k].kind = "finished"
                                  /\ alerts'[k].h = h
      BY <3>1 DEF Added, Finished
    <3> QED BY <3>1, <3>3, <3>4
  <2>2. CASE NetRestoreRechecked
    <3>1. /\ CmdsPop /\ AlertsGrow /\ ServedAlone(h) /\ calls' = calls
          /\ Entered(h, 0) /\ NewAlert(Len(alerts) + 1)
          /\ alerts'[Len(alerts) + 1] = Added(h, adds[h] + 1, TRUE)
          /\ \A k : NewAlert(k) => k = Len(alerts) + 1
      BY <1>1, <1>2, <2>2, RecheckedShape
    <3>2. adds[h] + 1 \in Nat /\ adds[h] + 1 # 0 /\ live'[h] = adds[h] + 1
      BY <1>3, <3>1 DEF Entered
    <3>3. \E ok \in BOOLEAN, inc \in Nat :
             /\ alerts'[Len(alerts) + 1] = Added(h, inc, ok)
             /\ IF ok THEN inc # 0 /\ live'[h] = inc ELSE live'[h] = 0
      <4>1. adds[h] + 1 \in Nat
        BY <3>2
      <4> WITNESS TRUE \in BOOLEAN, adds[h] + 1 \in Nat
      <4> QED BY <3>1, <3>2
    <3>4. \A k : NewAlert(k) => \/ k = Len(alerts) + 1 /\ alerts'[k].h = h
                               \/ /\ alerts'[k].kind = "finished"
                                  /\ alerts'[k].h = h
      BY <3>1 DEF Added, Finished
    <3> QED BY <3>1, <3>3, <3>4
  <2>3. CASE NetRestoreRefused
    <3>1. /\ CmdsPop /\ AlertsGrow /\ ServedAlone(h) /\ calls' = calls
          /\ live'[h] = 0 /\ NewAlert(Len(alerts) + 1)
          /\ alerts'[Len(alerts) + 1] = Added(h, 0, FALSE)
          /\ \A k : NewAlert(k) => k = Len(alerts) + 1
      BY <1>1, <1>2, <1>3, <2>3, RefusedShape DEF SameTorrent
    <3>2. \E ok \in BOOLEAN, inc \in Nat :
             /\ alerts'[Len(alerts) + 1] = Added(h, inc, ok)
             /\ IF ok THEN inc # 0 /\ live'[h] = inc ELSE live'[h] = 0
      <4> WITNESS FALSE \in BOOLEAN, 0 \in Nat
      <4> QED BY <3>1
    <3>3. \A k : NewAlert(k) => \/ k = Len(alerts) + 1 /\ alerts'[k].h = h
                               \/ /\ alerts'[k].kind = "finished"
                                  /\ alerts'[k].h = h
      BY <3>1 DEF Added, Finished
    <3> QED BY <3>1, <3>2, <3>3
  <2> QED BY <2>1, <2>2, <2>3
<1>5. Running /\ raced' = raced
  BY <1>1, <1>4 DEF IInv, Bookkeeping, OffIsEmpty, Running, NextCmd, ServedAlone
<1>6. ASSUME NEW g \in Torrents \ raced, g # h PROVE Fine(g)'
  <2>1. Fine(g)
    BY <1>5, <1>6, FineBefore
  <2> QED BY <1>4, <1>6, <2>1, ServedAside
<1>7. ASSUME h \notin raced PROVE Fine(h)'
  BY <1>1, <1>2, <1>4, <1>7, RestoreLeaves
<1> QED BY <1>5, <1>6, <1>7

\* Once libtorrent services another request, every restore was answered.
LEMMA RestoresAnswered ==
  ASSUME IInv, cmds # <<>>, ~IsRestore(Head(cmds))
  PROVE  /\ \A i \in DOMAIN cmds : ~IsRestore(cmds[i])
         /\ \A h \in pendingRestore : gui # "saving" =>
                \E j \in DOMAIN alerts : IsAdded(alerts[j], h)
<1>1. /\ Head(cmds) = cmds[1] /\ DOMAIN cmds = 1..Len(cmds) /\ Len(cmds) \in Nat
      /\ Len(cmds) >= 1
  BY Queued, QueueTail DEF IInv
<1>2. \A i \in DOMAIN cmds : ~IsRestore(cmds[i])
  <2>1. SUFFICES ASSUME NEW i \in DOMAIN cmds, IsRestore(cmds[i]) PROVE FALSE
    OBVIOUS
  <2>2. i = 1 \/ 1 \in 1..(i - 1)
    BY <1>1
  <2>3. i # 1
    BY <1>1, <2>1
  <2>4. IsRestore(cmds[1])
    BY <2>1, <2>2, <2>3 DEF IInv, Bookkeeping, RestoresFirst
  <2> QED BY <1>1, <2>4
<1> QED BY <1>2 DEF IInv, Bookkeeping, PendingIsAnswerable, IsRestore, IsAdded

\* What a row is when libtorrent services an add.
LEMMA AddFinds ==
  ASSUME RowInv, NextCmd("add"), NEW h \in Torrents \ raced,
         NEW w \in calls, w.h = h
  PROVE  /\ Fine(h) /\ gui # "saving" /\ ~Reported(h) /\ records[h] # "none"
         /\ live[h] = 0 => handles[h] = 0
         /\ live[h] = 0 =>
                \A c \in calls : c.h = h => c.stage \notin {"ok", "dup"}
         /\ h \in pendingRestore =>
                \E j \in DOMAIN alerts : IsAdded(alerts[j], h)
<1>1. IInv
  BY DEF RowInv, StoreInv
<1>2. Running
  BY <1>1 DEF IInv, Bookkeeping, OffIsEmpty, Running, NextCmd
<1>3. Fine(h)
  BY <1>2, FineBefore
<1>4. gui # "saving" /\ ~Reported(h) /\ records[h] # "none"
  BY <1>3 DEF Fine, AnswersFor, RemovalInFlight, Reported
<1>5. live[h] = 0 => handles[h] = 0
  BY <1>3, <1>4 DEF Fine, Row, HandleCurrent
<1>6. live[h] = 0 => \A c \in calls : c.h = h => c.stage \notin {"ok", "dup"}
  BY <1>3 DEF Fine, AnswersFor, RowInv, AnswersHold
<1>7. h \in pendingRestore => \E j \in DOMAIN alerts : IsAdded(alerts[j], h)
  BY <1>1, <1>4, RestoresAnswered DEF NextCmd, IsRestore
<1> QED BY <1>3, <1>4, <1>5, <1>6, <1>7

\* The answer to an add comes behind the answer to the restore of its torrent.
LEMMA AddAside ==
  ASSUME RowInv, NextCmd("add"), NEW h \in Torrents \ raced,
         NEW w \in calls, w.h = h, CmdsPop, AlertsGrow,
         \A k : NewAlert(k) => alerts'[k].kind = "added"
  PROVE  SameAlerts(h) /\ SameCmds(h) /\ ~Reported(h)'
<1>1. /\ ~Reported(h)
      /\ h \in pendingRestore => \E j \in DOMAIN alerts : IsAdded(alerts[j], h)
  BY AddFinds
<1>2. SameAlerts(h)
  BY <1>1, AlertsPostedAside
<1> QED BY <1>1, <1>2, CmdsPopAside DEF SameAlerts

\* The service of an add of a new torrent keeps every torrent's row.
LEMMA AddNewFine ==
  ASSUME RowInv, NetAddNew
  PROVE  \A g \in Torrents \ raced' : Fine(g)'
<1>1. IInv /\ TypeOK /\ Calling /\ NextCmd("add")
  BY DEF RowInv, StoreInv, IInv, NetAddNew
<1>2. PICK h \in Torrents : h = Head(cmds).h
  BY <1>1, CmdServiced, CmdTyped
<1>3. /\ CmdsPop /\ AlertsGrow /\ ServedAlone(h) /\ Head(cmds).op = "add"
      /\ Answer(Head(cmds).thread, "ok", adds[h] + 1)
      /\ live[h] = 0 /\ Entered(h, 0)
      /\ \A k : NewAlert(k) => alerts'[k] = Added(h, adds[h] + 1, TRUE)
  BY <1>1, <1>2, AddNewShape
<1>4. PICK w \in calls :
         /\ w.stage = "wait" /\ w.h = h
         /\ calls' = (calls \ {w})
                     \cup {[w EXCEPT !.stage = "ok", !.inc = adds[h] + 1]}
  BY <1>1, <1>2, <1>3, AnswerShape
<1> DEFINE v == [w EXCEPT !.stage = "ok", !.inc = adds[h] + 1]
<1>5. v.h = h /\ v.stage = "ok" /\ v.inc = adds[h] + 1 /\ v.thread = w.thread
  BY <1>1, <1>4 DEF TypeOK, AppTypeOK, Call
<1>6. calls' = (calls \ {w}) \cup {v}
  BY <1>4
<1> HIDE DEF v
<1>7. Running /\ raced' = raced
  BY <1>1, <1>3 DEF IInv, Bookkeeping, OffIsEmpty, Running, NextCmd, ServedAlone
<1>8. \A k : NewAlert(k) => alerts'[k].h = h /\ alerts'[k].kind = "added"
  BY <1>3 DEF Added
<1>9. ASSUME NEW g \in Torrents \ raced, g # h PROVE Fine(g)'
  <2>1. Fine(g)
    BY <1>7, <1>9, FineBefore
  <2> QED BY <1>3, <1>4, <1>5, <1>6, <1>8, <1>9, <2>1, ServedAside
<1>10. ASSUME h \notin raced PROVE Fine(h)'
  <2>1. /\ Fine(h) /\ gui # "saving" /\ ~Reported(h) /\ records[h] # "none"
        /\ handles[h] = 0
        /\ \A c \in calls : c.h = h => c.stage \notin {"ok", "dup"}
    BY <1>1, <1>3, <1>4, <1>10, AddFinds
  <2>2. SameAlerts(h) /\ SameCmds(h) /\ ~Reported(h)'
    BY <1>1, <1>3, <1>4, <1>8, <1>10, AddAside
  <2>3. UNCHANGED <<gui, records, handles, pendingRestore, failedRestore, disk>>
    BY <1>3 DEF ServedAlone
  <2>4. live'[h] = adds[h] + 1 /\ live'[h] # 0
    <3>1. adds[h] \in Nat
      BY <1>1, TypedTorrent
    <3> QED BY <1>3, <3>1 DEF Entered
  <2>5. Answered(h)' /\ LiveBound(h)' /\ Adding(h)'
    BY <1>5, <1>6 DEF Answered, LiveBound, Adding
  <2>6. ~RemovalInFlight(h)'
    <3>1. ~RemovalInFlight(h)
      BY <1>4, <2>1 DEF Fine, AnswersFor
    <3> QED BY <2>2, <3>1 DEF RemovalInFlight, SameCmds, OldCmd, Reported
  <2>7. AnswersFor(h)'
    <3>1. h \in pendingRestore => \A c \in calls : c.h = h => c.thread = Gui
      BY <2>1 DEF Fine, AnswersFor
    <3> QED BY <1>4, <1>5, <1>6, <2>1, <2>3, <2>4, <2>6, <3>1 DEF AnswersFor
  <2>8. HandleCurrent(h)' /\ RemovedGone(h)'
    BY <2>1, <2>2, <2>3 DEF HandleCurrent, RemovedGone
  <2>9. RestoreUnbound(h)'
    BY <2>1, <2>2, <2>3, RestoreUnboundKept DEF Fine, Row
  <2>10. ASSUME h \in pendingRestore PROVE Pending(h)'
    <3>1. AnswerTrue(h) /\ AnswerBeforeRemoval(h)
      BY <2>1, <2>3, <1>10, <2>10 DEF Fine, Row, Pending
    <3>2. ASSUME NEW k, RestoreAnswer(h, k)' PROVE ~alerts'[k].ok
      <4>1. PICK j : RestoreAnswer(h, j) /\ alerts[j] = alerts'[k]
        BY <2>1, <2>2, <2>10, <3>2 DEF SameAlerts
      <4>2. j \in DOMAIN alerts
        BY <4>1 DEF RestoreAnswer
      <4> QED BY <1>3, <2>1, <3>1, <4>1, <4>2 DEF AnswerTrue
    <3>3. AnswerTrue(h)'
      BY <2>5, <3>2 DEF AnswerTrue
    <3>4. AnswerBeforeRemoval(h)'
      BY <2>1, <2>2, <2>10, <3>1 DEF SameAlerts
    <3> QED BY <2>1, <2>3, <3>3, <3>4 DEF Pending
  <2>11. Settled(h)'
    BY <2>5 DEF Settled
  <2>12. Row(h)'
    BY <2>1, <2>3, <2>8, <2>9, <2>10, <2>11 DEF Row
  <2> QED BY <2>7, <2>12 DEF Fine
<1> QED BY <1>7, <1>9, <1>10

\* The service of an add of a torrent already there keeps every torrent's row.
LEMMA AddDuplicateFine ==
  ASSUME RowInv, NetAddDuplicate
  PROVE  \A g \in Torrents \ raced' : Fine(g)'
<1>1. IInv /\ TypeOK /\ Calling /\ NextCmd("add")
  BY DEF RowInv, StoreInv, IInv, NetAddDuplicate
<1>2. PICK h \in Torrents : h = Head(cmds).h
  BY <1>1, CmdServiced, CmdTyped
<1> DEFINE inc == IF Head(cmds).strict THEN 0 ELSE live[h]
           stage == IF Head(cmds).strict THEN "dup" ELSE "ok"
<1>3. /\ CmdsPop /\ AlertsGrow /\ ServedAlone(h) /\ Head(cmds).op = "add"
      /\ Answer(Head(cmds).thread, stage, inc)
      /\ live[h] # 0 /\ SameTorrent(h)
      /\ \A k : NewAlert(k) =>
             alerts'[k] = Added(h, inc, ~Head(cmds).strict)
  BY <1>1, <1>2, AddDuplicateShape
<1>4. stage = "ok" => inc = live[h]
  OBVIOUS
<1>5. stage \in {"ok", "dup"}
  OBVIOUS
<1> HIDE DEF inc, stage
<1>6. PICK w \in calls :
         /\ w.stage = "wait" /\ w.h = h
         /\ calls' = (calls \ {w})
                     \cup {[w EXCEPT !.stage = stage, !.inc = inc]}
  BY <1>1, <1>2, <1>3, AnswerShape
<1> DEFINE v == [w EXCEPT !.stage = stage, !.inc = inc]
<1>7. v.h = h /\ v.stage = stage /\ v.inc = inc /\ v.thread = w.thread
  BY <1>1, <1>6 DEF TypeOK, AppTypeOK, Call
<1>8. calls' = (calls \ {w}) \cup {v}
  BY <1>6
<1> HIDE DEF v
<1>9. Running /\ raced' = raced
  BY <1>1, <1>3 DEF IInv, Bookkeeping, OffIsEmpty, Running, NextCmd, ServedAlone
<1>10. \A k : NewAlert(k) => alerts'[k].h = h /\ alerts'[k].kind = "added"
  BY <1>3 DEF Added
<1>11. ASSUME NEW g \in Torrents \ raced, g # h PROVE Fine(g)'
  <2>1. Fine(g)
    BY <1>9, <1>11, FineBefore
  <2> QED BY <1>3, <1>6, <1>7, <1>8, <1>10, <1>11, <2>1, ServedAside
<1>12. ASSUME h \notin raced PROVE Fine(h)'
  <2>1. Fine(h) /\ gui # "saving" /\ records[h] # "none"
    BY <1>1, <1>6, <1>12, AddFinds
  <2>2. SameAlerts(h) /\ SameCmds(h) /\ ~Reported(h)'
    BY <1>1, <1>3, <1>6, <1>10, <1>12, AddAside
  <2>3. /\ UNCHANGED <<gui, records, handles, pendingRestore, failedRestore,
                       disk>>
        /\ live'[h] = live[h]
    BY <1>3 DEF ServedAlone, SameTorrent
  <2>4. /\ Answered(h) => Answered(h)'
        /\ Adding(h)'
    BY <1>6, <1>7, <1>8 DEF Answered, Adding
  <2>5. ~RemovalInFlight(h)'
    <3>1. ~RemovalInFlight(h)
      BY <1>6, <2>1 DEF Fine, AnswersFor
    <3> QED BY <2>2, <3>1 DEF RemovalInFlight, SameCmds, OldCmd, Reported
  <2>6. AnswersFor(h)'
    BY <1>3, <1>4, <1>5, <1>6, <1>7, <1>8, <2>1, <2>3, <2>5
    DEF Fine, AnswersFor
  <2>7. RestoreUnbound(h)'
    BY <2>1, <2>2, <2>3, RestoreUnboundKept DEF Fine, Row
  <2>8. Row(h)'
    BY <2>1, <2>2, <2>3, <2>4, <2>7, RowAside DEF Fine
  <2> QED BY <2>6, <2>8 DEF Fine
<1> QED BY <1>9, <1>11, <1>12

\* A removal that libtorrent carries out leaves the row to the report of it,
\* which comes behind the answer to its restore.
LEMMA NetRemoveFine ==
  ASSUME RowInv, NetRemove
  PROVE  \A g \in Torrents \ raced' : Fine(g)'
<1>1. IInv /\ TypeOK /\ NextCmd("remove")
  BY DEF RowInv, StoreInv, IInv, NetRemove
<1>2. PICK h \in Torrents : h = Head(cmds).h
  BY <1>1, CmdServiced, CmdTyped
<1> DEFINE inc == Head(cmds).inc
<1>3. /\ CmdsPop /\ AlertsGrow /\ ServedAlone(h) /\ calls' = calls
      /\ \/ /\ live'[h] = 0
            /\ NewAlert(Len(alerts) + 1)
            /\ \A k : NewAlert(k) => k = Len(alerts) + 1
            /\ \A k : NewAlert(k) =>
                   alerts'[k] = [kind |-> "removed", h |-> h, inc |-> inc]
         \/ SameTorrent(h) /\ \A k : ~NewAlert(k)
  BY <1>1, <1>2, RemoveShape
<1>4. Running /\ raced' = raced
  BY <1>1, <1>3 DEF IInv, Bookkeeping, OffIsEmpty, Running, NextCmd, ServedAlone
<1>5. \A k : NewAlert(k) => alerts'[k].h = h /\ alerts'[k].kind = "removed"
  BY <1>3
<1>6. ASSUME NEW g \in Torrents \ raced, g # h PROVE Fine(g)'
  <2>1. Fine(g)
    BY <1>4, <1>6, FineBefore
  <2> QED BY <1>3, <1>5, <1>6, <2>1, ServedAside
<1>7. ASSUME h \notin raced PROVE Fine(h)'
  <2>1. Fine(h) /\ SameCmds(h)
    BY <1>3, <1>4, <1>7, FineBefore, CmdsPopAside
  <2>2. UNCHANGED <<gui, records, handles, pendingRestore, failedRestore, disk>>
    BY <1>3 DEF ServedAlone
  <2>3. RestoreUnbound(h)'
    BY <2>1, <2>2, RestoreUnboundKept DEF Fine, Row
  <2>4. 1 \in DOMAIN cmds /\ cmds[1].op = "remove" /\ cmds[1].h = h
    BY <1>1, <1>2, CmdServiced DEF CmdsPop
  <2>5. RemovalInFlight(h)
    BY <2>4 DEF RemovalInFlight
  <2>6. \A c \in calls : c.h # h
    BY <2>1, <2>5 DEF Fine, AnswersFor
  <2>7. AnswersFor(h)'
    BY <1>3, <2>6 DEF AnswersFor
  <2>8. CASE SameTorrent(h) /\ \A k : ~NewAlert(k)
    <3>1. SameAlerts(h)
      BY <1>3, <2>8, AlertsPostedAside
    <3>2. Row(h)'
      BY <1>3, <2>1, <2>2, <2>3, <2>8, <3>1, RowAside
      DEF Fine, SameTorrent, Answered, Adding
    <3> QED BY <2>7, <3>2 DEF Fine
  <2>9. CASE /\ live'[h] = 0 /\ NewAlert(Len(alerts) + 1)
             /\ \A k : NewAlert(k) => k = Len(alerts) + 1
    <3>1. Reported(h)'
      BY <1>5, <2>9 DEF Reported, NewAlert
    <3>2. /\ \A k \in DOMAIN alerts' :
                 \/ k \in DOMAIN alerts /\ alerts'[k] = alerts[k]
                 \/ NewAlert(k)
          /\ \A k \in DOMAIN alerts :
                 /\ alerts'[k] = alerts[k] /\ k < Len(alerts) + 1
                 /\ k \in Nat /\ k >= 1
          /\ Len(alerts) \in Nat
      BY <1>3 DEF AlertsGrow, NewAlert
    <3>3. HandleCurrent(h)' /\ RemovedGone(h)' /\ LiveBound(h)'
      BY <2>1, <2>2, <2>9, <3>1
      DEF Fine, Row, HandleCurrent, RemovedGone, LiveBound
    <3>4. ASSUME h \in pendingRestore PROVE Pending(h)'
      <4>1. records[h] # "none"
            /\ (gui # "saving" => AnswerTrue(h) /\ AnswerBeforeRemoval(h))
        BY <2>1, <3>4 DEF Fine, Row, Pending
      <4>2. ASSUME NEW k, RestoreAnswer(h, k)'
            PROVE  RestoreAnswer(h, k) /\ alerts'[k] = alerts[k]
        <5>1. k \in DOMAIN alerts' /\ IsAdded(alerts'[k], h)
              /\ \A i \in 1..(k - 1) : ~IsAdded(alerts'[i], h)
          BY <4>2 DEF RestoreAnswer, IsAdded
        <5>2. k \in DOMAIN alerts /\ alerts'[k] = alerts[k]
          BY <1>5, <3>2, <5>1 DEF IsAdded
        <5>3. \A i \in 1..(k - 1) : alerts'[i] = alerts[i]
          BY <1>3, <5>2 DEF AlertsGrow
        <5> QED BY <5>1, <5>2, <5>3 DEF RestoreAnswer
      <4>3. gui # "saving" => AnswerTrue(h)'
        <5>1. ASSUME gui # "saving", NEW k, RestoreAnswer(h, k)'
              PROVE  IF alerts'[k].ok
                     THEN /\ alerts'[k].inc # 0
                          /\ handles'[h] \in {0, alerts'[k].inc}
                     ELSE TRUE
          <6>1. RestoreAnswer(h, k) /\ alerts'[k] = alerts[k]
                /\ k \in DOMAIN alerts
            BY <4>2, <5>1 DEF RestoreAnswer
          <6> QED BY <2>2, <4>1, <5>1, <6>1 DEF AnswerTrue
        <5> QED BY <2>9, <3>1, <3>3, <5>1 DEF AnswerTrue
      <4>4. gui # "saving" => AnswerBeforeRemoval(h)'
        <5>1. SUFFICES
                ASSUME gui # "saving", NEW k \in DOMAIN alerts',
                       alerts'[k].kind = "removed", alerts'[k].h = h
                PROVE  \E i \in 1..(k - 1) : IsAdded(alerts'[i], h)
          BY DEF AnswerBeforeRemoval, IsAdded
        <5>2. CASE k \in DOMAIN alerts
          <6>1. PICK i \in 1..(k - 1) : IsAdded(alerts[i], h)
            BY <3>2, <4>1, <5>1, <5>2 DEF AnswerBeforeRemoval
          <6>2. alerts'[i] = alerts[i]
            BY <1>3, <5>2, <6>1 DEF AlertsGrow
          <6> QED BY <6>1, <6>2
        <5>3. CASE k = Len(alerts) + 1
          <6>1. PICK j \in DOMAIN alerts : IsAdded(alerts[j], h)
            BY <1>1, <3>4, <5>1, RestoresAnswered DEF NextCmd, IsRestore
          <6>2. j \in 1..(k - 1) /\ alerts'[j] = alerts[j]
            BY <3>2, <5>3, <6>1
          <6> QED BY <6>1, <6>2
        <5> QED BY <2>9, <3>2, <5>1, <5>2, <5>3
      <4> QED BY <2>2, <4>1, <4>3, <4>4 DEF Pending
    <3>5. ASSUME h \notin pendingRestore PROVE Settled(h)'
      <4>1. Settled(h)
        BY <2>1, <3>5 DEF Fine, Row
      <4> QED BY <1>3, <2>2, <3>3, <4>1 DEF Settled, Adding
    <3>6. Row(h)'
      BY <2>1, <2>2, <2>3, <3>3, <3>4, <3>5 DEF Fine, Row
    <3> QED BY <2>7, <3>6 DEF Fine
  <2> QED BY <1>3, <2>8, <2>9
<1> QED BY <1>4, <1>6, <1>7

-----------------------------------------------------------------------------
(* Steps that leave every torrent aside                                    *)

\* A step about no torrent at all.
LEMMA AllAside ==
  ASSUME RowInv, Running, UNCHANGED <<live, handles, records, raced>>,
         calls' = calls, pendingRestore' = pendingRestore,
         failedRestore' = failedRestore,
         gui = "saving" <=> gui' = "saving",
         \A g \in Torrents :
             /\ SameAlerts(g) /\ SameCmds(g)
             /\ disk'[g] # NoFile => disk[g] # NoFile \/ live[g] # 0
  PROVE  \A g \in Torrents \ raced' : Fine(g)'
<1> SUFFICES ASSUME NEW g \in Torrents \ raced PROVE Fine(g)'
  OBVIOUS
<1>1. Fine(g)
  BY FineBefore
<1>2. AnswersFor(g)'
  BY <1>1, CallsAside DEF Fine, SameAlerts
<1>3. RestoreUnbound(g)'
  BY <1>1, RestoreUnboundKept DEF Fine, Row
<1>4. Answered(g) = Answered(g)' /\ Adding(g) = Adding(g)'
  BY DEF Answered, Adding
<1>5. disk'[g] # NoFile => disk[g] # NoFile \/ records[g] # "none"
  BY <1>1, LiveHasRecord DEF Fine
<1>6. Row(g)'
  BY <1>1, <1>3, <1>4, <1>5, RowAside DEF Fine
<1> QED BY <1>2, <1>6 DEF Fine

\* Saves, ticks and downloads keep every torrent's row.
LEMMA QuietFine ==
  ASSUME RowInv,
         \/ NetSave \/ DrainOne \/ (\E h \in Torrents : Download(h))
         \/ Tick \/ BindPoll \/ EndPass \/ Autosave \/ ShutdownPoll
         \/ OnTorrentFinished \/ OnSaveResumeData \/ OnSaveFailed
         \/ ShutdownSaved \/ ShutdownSaveFailed \/ ShutdownIgnored
  PROVE  \A g \in Torrents \ raced' : Fine(g)'
<1>1. IInv /\ TypeOK
  BY DEF RowInv, StoreInv, IInv
<1>2. CASE NetSave
  <2>1. /\ UNCHANGED <<live, handles, records, raced, calls, pendingRestore,
                       failedRestore, gui, disk>>
        /\ NextCmd("save")
    BY <1>2 DEF NetSave, LibUnchanged
  <2>2. /\ CmdsPop /\ AlertsGrow
        /\ \A k : NewAlert(k) => alerts'[k].kind \in {"saved", "saveFailed"}
    BY <1>1, <1>2, SaveShape
  <2>3. \A g \in Torrents : SameAlerts(g) /\ SameCmds(g)
    BY <2>2, AlertsPostedAside, CmdsPopAside
  <2>4. Running
    BY <1>1, <2>1 DEF IInv, Bookkeeping, OffIsEmpty, Running, NextCmd
  <2> QED BY <2>1, <2>3, <2>4, AllAside
<1>3. CASE DrainOne
  <2>1. /\ UNCHANGED <<live, handles, records, raced, calls, pendingRestore,
                       failedRestore, gui, disk, alerts>>
        /\ Running
    BY <1>3 DEF DrainOne, hist, Running
  <2>2. CmdsGrow /\ \A i : NewCmd(i) => cmds'[i].op = "save"
    BY <1>1, <1>3, DrainAsked
  <2>3. \A g \in Torrents : SameAlerts(g) /\ SameCmds(g)
    BY <2>1, <2>2, AlertsKeptAside, OldOrNew DEF SameCmds
  <2> QED BY <2>1, <2>3, AllAside
<1>4. ASSUME NEW h \in Torrents, Download(h)
      PROVE  \A g \in Torrents \ raced' : Fine(g)'
  <2>1. /\ UNCHANGED <<live, handles, records, raced, calls, pendingRestore,
                       failedRestore, gui, disk, cmds>>
        /\ live[h] # 0
    BY <1>4 DEF Download, LibUnchanged
  <2>2. AlertsGrow /\ \A k : NewAlert(k) => alerts'[k].kind = "finished"
    <3>1. /\ AlertsGrow
          /\ \A k : NewAlert(k) => alerts'[k] = Finished(h, live[h], "done")
      BY <1>1, <1>4, DownloadShape
    <3> QED BY <3>1 DEF Finished
  <2>3. \A g \in Torrents : SameAlerts(g) /\ SameCmds(g)
    BY <2>1, <2>2, AlertsPostedAside DEF SameCmds, OldCmd
  <2>4. Running
    BY <1>1, <2>1 DEF IInv, Bookkeeping, OffIsEmpty, Running
  <2> QED BY <2>1, <2>3, <2>4, AllAside
<1>5. CASE Tick \/ BindPoll \/ EndPass \/ Autosave \/ ShutdownPoll
  <2>1. /\ UNCHANGED <<live, handles, records, raced, calls, pendingRestore,
                       failedRestore, disk, cmds, alerts>>
        /\ Running /\ (gui = "saving" <=> gui' = "saving")
    BY <1>5 DEF Tick, BindPoll, EndPass, Autosave, ShutdownPoll, GuiIdle, app,
                lib, hist, Running
  <2>2. \A g \in Torrents : SameAlerts(g) /\ SameCmds(g)
    BY <2>1, AlertsKeptAside DEF SameCmds, OldCmd
  <2> QED BY <2>1, <2>2, AllAside
<1>6. CASE \/ OnTorrentFinished \/ OnSaveResumeData \/ OnSaveFailed
           \/ ShutdownSaved \/ ShutdownSaveFailed \/ ShutdownIgnored
  <2>1. /\ UNCHANGED <<live, handles, records, raced, calls, pendingRestore,
                       failedRestore, gui, cmds>>
        /\ Running /\ popped > 0 /\ alerts' = Tail(alerts)
        /\ \/ gui = "saving"
           \/ Head(alerts).kind \in {"finished", "saved", "saveFailed"}
    BY <1>6 DEF OnTorrentFinished, OnSaveResumeData, OnSaveFailed, NextAlert,
       ShutdownSaved, ShutdownSaveFailed, ShutdownIgnored, ShutdownUnchanged,
       NextPopped, hist, Running
  <2>2. AlertsPop
    BY <1>1, <2>1, AlertPopped
  <2>3. \A g \in Torrents : SameAlerts(g) /\ SameCmds(g)
    BY <2>1, <2>2, AlertsPoppedAside DEF SameCmds, OldCmd
  <2>4. \A g \in Torrents : disk'[g] # NoFile => disk[g] # NoFile \/ live[g] # 0
    BY <1>1, <1>6 DEF OnTorrentFinished, OnSaveResumeData, OnSaveFailed,
       ShutdownSaved, ShutdownSaveFailed, ShutdownIgnored, IsValid, TypeOK,
       HistTypeOK
  <2> QED BY <2>1, <2>3, <2>4, AllAside
<1> QED BY <1>2, <1>3, <1>4, <1>5, <1>6

-----------------------------------------------------------------------------
(* The application's own steps                                             *)

\* The entry into add_torrent(), which makes the row, keeps every torrent's
\* row.
LEMMA AddBeginFine ==
  ASSUME RowInv, NEW t \in Threads, NEW h \in Torrents, NEW strict \in BOOLEAN,
         AddBegin(t, h, strict)
  PROVE  \A g \in Torrents \ raced' : Fine(g)'
<1> DEFINE call == [thread |-> t, h |-> h, stage |-> "wait", inc |-> 0]
<1>1. IInv /\ TypeOK
  BY DEF RowInv, StoreInv, IInv
<1>2. /\ UNCHANGED <<gui, handles, pendingRestore, failedRestore, live, alerts,
                     disk>>
      /\ Running /\ gui # "saving"
      /\ records' = [records EXCEPT ![h] = "added"]
      /\ calls' = calls \cup {call}
      /\ raced \subseteq raced'
      /\ h \notin raced' => /\ ~RemovalInFlight(h)
                            /\ h \in pendingRestore => t = Gui
  BY DEF AddBegin, GuiIdle, Running
<1>3. /\ CmdsGrow
      /\ \A i : NewCmd(i) => cmds'[i].op = "add"
  <2> DEFINE c == [op |-> "add", h |-> h, thread |-> t, strict |-> strict]
  <2>1. CmdsGrow /\ \A i : NewCmd(i) => cmds'[i] = c
    BY <1>1, AddBeginShape
  <2>2. c.op = "add"
    OBVIOUS
  <2> HIDE DEF c
  <2> QED BY <2>1, <2>2
<1>4. call.h = h /\ call.stage = "wait" /\ call.thread = t
  OBVIOUS
<1> HIDE DEF call
<1>5. \A g \in Torrents : SameAlerts(g) /\ SameCmds(g)
  BY <1>2, <1>3, AlertsKeptAside, OldOrNew DEF SameCmds
<1>6. records' \in [Torrents -> {"none", "restored", "added"}]
      /\ records'[h] = "added"
      /\ \A g \in Torrents \ {h} : records'[g] = records[g]
  BY <1>1, <1>2 DEF TypeOK, AppTypeOK
<1>7. /\ \A g : Answered(g) => Answered(g)'
      /\ \A g : Adding(g) => Adding(g)'
      /\ Adding(h)'
  BY <1>2, <1>4 DEF Answered, Adding
<1> SUFFICES ASSUME NEW g \in Torrents \ raced' PROVE Fine(g)'
  OBVIOUS
<1>8. Fine(g)
  BY <1>2, FineBefore
<1>9. RestoreUnbound(g)'
  BY <1>2, <1>5, <1>8, RestoreUnboundKept DEF Fine, Row
<1>10. Row(g)'
  BY <1>2, <1>5, <1>6, <1>7, <1>8, <1>9, RowAside DEF Fine
<1>11. AnswersFor(g)'
  <2>1. CASE g # h
    BY <1>2, <1>4, <1>5, <1>6, <1>8, <2>1, CallsAside DEF Fine, SameAlerts
  <2>2. CASE g = h
    <3>1. ~RemovalInFlight(h)'
      BY <1>2, <1>5, <2>2 DEF RemovalInFlight, SameCmds, OldCmd
    <3>2. h \in pendingRestore => \A c \in calls : c.h = h => c.thread = Gui
      BY <1>8, <2>2 DEF Fine, AnswersFor
    <3>3. \A c \in calls : c.h = h => /\ c.stage = "ok" => c.inc = live[h]
                                      /\ c.stage = "dup" => live[h] # 0
      BY <1>8, <2>2 DEF Fine, AnswersFor
    <3> QED BY <1>2, <1>4, <1>6, <2>2, <3>1, <3>2, <3>3 DEF AnswersFor
  <2> QED BY <2>1, <2>2
<1> QED BY <1>10, <1>11 DEF Fine

\* _add binds the handle of the torrent in the session.
LEMMA AddReturnFine ==
  ASSUME RowInv, NEW c \in calls, AddReturn(c)
  PROVE  \A g \in Torrents \ raced' : Fine(g)'
<1>1. IInv /\ TypeOK /\ c.h \in Torrents
  BY DEF RowInv, StoreInv, IInv, TypeOK, AppTypeOK, Call
<1>2. /\ UNCHANGED <<gui, records, pendingRestore, failedRestore, live, alerts,
                     cmds, disk, raced>>
      /\ c.stage = "ok" /\ calls' = calls \ {c}
      /\ handles' = [handles EXCEPT ![c.h] = c.inc]
  BY DEF AddReturn, lib, hist
<1>3. Running
  BY <1>1 DEF IInv, Bookkeeping, OffIsEmpty, Running
<1>4. /\ handles'[c.h] = c.inc
      /\ \A g \in Torrents \ {c.h} : handles'[g] = handles[g]
  BY <1>1, <1>2 DEF TypeOK, AppTypeOK
<1>5. \A g \in Torrents : SameAlerts(g) /\ SameCmds(g)
  BY <1>2, AlertsKeptAside DEF SameCmds, OldCmd
<1> SUFFICES ASSUME NEW g \in Torrents \ raced PROVE Fine(g)'
  BY <1>2
<1>6. Fine(g)
  BY <1>3, FineBefore
<1>7. AnswersFor(g)'
  BY <1>2, <1>5, <1>6, CallsAside DEF Fine, SameAlerts
<1>8. CASE g # c.h
  <2>1. RestoreUnbound(g)'
    BY <1>2, <1>4, <1>5, <1>6, <1>8, RestoreUnboundKept DEF Fine, Row
  <2>2. Answered(g) = Answered(g)' /\ Adding(g) = Adding(g)'
    BY <1>2, <1>8 DEF Answered, Adding
  <2>3. Row(g)'
    BY <1>2, <1>4, <1>5, <1>6, <1>8, <2>1, <2>2, RowAside DEF Fine
  <2> QED BY <1>7, <2>3 DEF Fine
<1>9. CASE g = c.h
  <2>1. /\ c.inc = live[g] /\ live[g] # 0 /\ handles'[g] = live[g]
        /\ records[g] # "none" /\ ~Reported(g)
    BY <1>2, <1>4, <1>6, <1>9
    DEF Fine, AnswersFor, RemovalInFlight, Reported, RowInv, AnswersHold
  <2>2. \A i \in DOMAIN cmds : ~(IsRestore(cmds[i]) /\ cmds[i].h = g)
    BY <1>1, <2>1 DEF IInv, Bookkeeping, UntouchedUntilRestored
  <2>3. HandleCurrent(g)' /\ RemovedGone(g)' /\ RestoreUnbound(g)'
        /\ LiveBound(g)'
    BY <1>2, <2>1, <2>2
    DEF HandleCurrent, RemovedGone, RestoreUnbound, LiveBound, Reported,
        IsRestore
  <2>4. ASSUME g \in pendingRestore PROVE Pending(g)'
    <3>1. gui # "saving" => AnswerTrue(g) /\ AnswerBeforeRemoval(g)
      BY <1>6, <2>4 DEF Fine, Row, Pending
    <3>2. gui # "saving" => AnswerTrue(g)'
      BY <1>2, <2>1, <2>3, <3>1 DEF AnswerTrue, RestoreAnswer
    <3>3. gui # "saving" => AnswerBeforeRemoval(g)'
      BY <1>2, <3>1 DEF AnswerBeforeRemoval
    <3> QED BY <1>2, <2>1, <3>2, <3>3 DEF Pending
  <2>5. Settled(g)'
    BY <2>1, <2>3 DEF Settled
  <2>6. Row(g)'
    BY <1>2, <2>1, <2>3, <2>4, <2>5 DEF Row
  <2> QED BY <1>7, <2>6 DEF Fine
<1> QED BY <1>8, <1>9

\* A duplicate that raised leaves a torrent that has a handle, or is about to.
LEMMA AddRaiseFine ==
  ASSUME RowInv, NEW c \in calls, AddRaise(c)
  PROVE  \A g \in Torrents \ raced' : Fine(g)'
<1>1. IInv /\ TypeOK
  BY DEF RowInv, StoreInv, IInv
<1>2. /\ UNCHANGED <<gui, records, handles, pendingRestore, failedRestore, live,
                     alerts, cmds, disk, raced>>
      /\ c.stage = "dup" /\ calls' = calls \ {c}
  BY DEF AddRaise, lib, hist
<1>3. Running
  BY <1>1 DEF IInv, Bookkeeping, OffIsEmpty, Running
<1>4. \A g \in Torrents : SameAlerts(g) /\ SameCmds(g)
  BY <1>2, AlertsKeptAside DEF SameCmds, OldCmd
<1> SUFFICES ASSUME NEW g \in Torrents \ raced PROVE Fine(g)'
  BY <1>2
<1>5. Fine(g)
  BY <1>3, FineBefore
<1>6. AnswersFor(g)'
  BY <1>2, <1>4, <1>5, CallsAside DEF Fine, SameAlerts
<1>7. RestoreUnbound(g)'
  BY <1>2, <1>4, <1>5, RestoreUnboundKept DEF Fine, Row
<1>8. Answered(g) => Answered(g)' /\ Adding(g)'
  BY <1>2 DEF Answered, Adding
<1>9. ASSUME g \notin pendingRestore, Adding(g)
      PROVE  Adding(g)' \/ handles[g] # 0
  <2>1. CASE g = c.h
    <3>1. live[g] # 0
      BY <1>2, <1>5, <2>1 DEF Fine, AnswersFor
    <3>2. handles[g] = live[g] \/ Answered(g)
      BY <1>5, <1>9, <3>1 DEF Fine, Row, Settled, LiveBound
    <3> QED BY <1>8, <3>1, <3>2
  <2>2. CASE g # c.h
    BY <1>2, <1>9, <2>2 DEF Adding
  <2> QED BY <2>1, <2>2
<1>10. Row(g)'
  BY <1>2, <1>4, <1>5, <1>7, <1>8, <1>9, RowAside DEF Fine
<1> QED BY <1>6, <1>10 DEF Fine

\* remove() keeps every torrent's row.
LEMMA RemoveFine ==
  ASSUME RowInv, NEW h \in Torrents, Remove(h)
  PROVE  \A g \in Torrents \ raced' : Fine(g)'
<1>1. IInv /\ TypeOK
  BY DEF RowInv, StoreInv, IInv
<1>2. /\ UNCHANGED <<gui, records, handles, pendingRestore, failedRestore, live,
                     alerts, calls, disk>>
      /\ Running /\ live[h] # 0 /\ raced \subseteq raced'
      /\ h \notin raced' => ~Adding(h)
  BY DEF Remove, app, GuiIdle, Running, IsValid
<1>3. CmdsGrow /\ \A i : NewCmd(i) => cmds'[i].op = "remove" /\ cmds'[i].h = h
  BY <1>1, RemoveAsked
<1>4. \A g \in Torrents : SameAlerts(g)
  BY <1>2, AlertsKeptAside
<1> SUFFICES ASSUME NEW g \in Torrents \ raced' PROVE Fine(g)'
  OBVIOUS
<1>5. Fine(g)
  BY <1>2, FineBefore
<1>6. g # h => SameCmds(g)
  BY <1>3, OldOrNew DEF SameCmds
<1>7. AnswersFor(g)'
  <2>1. CASE g # h
    BY <1>2, <1>4, <1>5, <1>6, <2>1, CallsAside DEF Fine, SameAlerts
  <2>2. CASE g = h
    BY <1>2, <2>2 DEF AnswersFor, Adding
  <2> QED BY <2>1, <2>2
<1>8. RestoreUnbound(g)'
  <2>1. CASE g # h
    BY <1>2, <1>5, <1>6, <2>1, RestoreUnboundKept DEF Fine, Row
  <2>2. CASE g = h
    <3>1. \A i \in DOMAIN cmds : ~(IsRestore(cmds[i]) /\ cmds[i].h = g)
      BY <1>1, <1>2, <2>2 DEF IInv, Bookkeeping, UntouchedUntilRestored
    <3>2. \A i \in DOMAIN cmds' : ~(IsRestore(cmds'[i]) /\ cmds'[i].h = g)
      BY <1>3, <3>1, OldOrNew DEF OldCmd, IsRestore
    <3> QED BY <3>2 DEF RestoreUnbound, IsRestore
  <2> QED BY <2>1, <2>2
<1>9. Answered(g) = Answered(g)' /\ Adding(g) = Adding(g)'
  BY <1>2 DEF Answered, Adding
<1>10. Row(g)'
  BY <1>2, <1>4, <1>5, <1>8, <1>9, RowAside DEF Fine
<1> QED BY <1>7, <1>10 DEF Fine

\* The start of shutdown() keeps the rows of the torrents no call is adding.
LEMMA ShutdownBeginFine ==
  ASSUME RowInv, ShutdownBegin
  PROVE  \A g \in Torrents \ raced' : Fine(g)'
<1>1. IInv /\ TypeOK
  BY DEF RowInv, StoreInv, IInv
<1>2. /\ UNCHANGED <<records, handles, pendingRestore, failedRestore, live,
                     alerts, calls, disk>>
      /\ Running /\ gui' = "saving"
      /\ raced' = raced \cup {h \in Torrents : Adding(h)}
  BY DEF ShutdownBegin, GuiIdle, Running
<1>3. CmdsGrow /\ \A i : NewCmd(i) => cmds'[i].op = "save"
  BY <1>1, ShutdownAsked
<1> SUFFICES ASSUME NEW g \in Torrents \ raced' PROVE Fine(g)'
  OBVIOUS
<1>4. Fine(g) /\ ~Adding(g)
  BY <1>2, FineBefore
<1>5. SameCmds(g)
  BY <1>3, OldOrNew DEF SameCmds
<1>6. AnswersFor(g)'
  BY <1>2, <1>4 DEF AnswersFor, Adding
<1>7. RestoreUnbound(g)'
  BY <1>2, <1>4, <1>5, RestoreUnboundKept DEF Fine, Row
<1>8. HandleCurrent(g)' /\ RemovedGone(g)'
  BY <1>2, <1>4 DEF Fine, Row, HandleCurrent, RemovedGone, Reported
<1>9. g \in pendingRestore => Pending(g)'
  BY <1>2, <1>4 DEF Fine, Row, Pending
<1>10. g \notin pendingRestore => Settled(g)'
  BY <1>2, <1>4 DEF Fine, Row, Settled, LiveBound, Answered, Adding
<1>11. Row(g)'
  BY <1>2, <1>4, <1>7, <1>8, <1>9, <1>10 DEF Fine, Row
<1> QED BY <1>6, <1>11 DEF Fine

-----------------------------------------------------------------------------
(* The handlers that bind a row, or take it away                           *)

\* Popping anything but a removal leaves the removals where they were.
LEMMA ReportedKept ==
  ASSUME AlertsPop, Head(alerts).kind # "removed", NEW g
  PROVE  Reported(g) <=> Reported(g)'
<1>1. /\ \A k \in DOMAIN alerts' :
            k + 1 \in DOMAIN alerts /\ alerts'[k] = alerts[k + 1]
      /\ \A k \in DOMAIN alerts : k = 1 \/ (/\ k - 1 \in DOMAIN alerts'
                                            /\ alerts'[k - 1] = alerts[k])
      /\ alerts[1] = Head(alerts)
  BY DEF AlertsPop
<1>2. \A k \in DOMAIN alerts : alerts[k].kind = "removed" => k # 1
  BY <1>1
<1> QED BY <1>1, <1>2 DEF Reported

\* A handler runs between two calls of its thread, on the alert it popped.
LEMMA HandlerFinds ==
  ASSUME RowInv, NEW kind, NextAlert(kind)
  PROVE  /\ IInv /\ TypeOK /\ Running /\ gui # "saving" /\ ~InCall(Gui)
         /\ AlertsPop /\ Head(alerts).h \in Torrents
         /\ Head(alerts).inc \in Nat
         /\ Head(alerts).kind = kind /\ Head(alerts) = alerts[1]
         /\ 1 \in DOMAIN alerts
         /\ UNCHANGED <<gui, live, calls, cmds, raced>>
         /\ \A g : SameCmds(g)
<1>1. IInv /\ TypeOK /\ Calling
  BY DEF RowInv, StoreInv, IInv
<1>2. /\ gui \in {"tick", "bind"} /\ popped > 0 /\ alerts' = Tail(alerts)
      /\ Head(alerts).kind = kind
      /\ UNCHANGED <<gui, live, calls, cmds, raced>>
  BY DEF NextAlert
<1>3. AlertsPop /\ Head(alerts) \in Alert
  BY <1>1, <1>2, AlertPopped
<1>4. ~InCall(Gui)
  BY <1>1, <1>2 DEF Calling, OneCall
<1>5. \A g : SameCmds(g)
  BY <1>2 DEF SameCmds, OldCmd
<1> QED BY <1>1, <1>2, <1>3, <1>4, <1>5, AlertTyped DEF AlertsPop, Running

\* A torrent that is not the handler's.
LEMMA HandledAside ==
  ASSUME RowInv, NEW kind, NextAlert(kind), NEW g \in Torrents \ raced,
         g # Head(alerts).h, handles'[g] = handles[g], records'[g] = records[g],
         disk'[g] = disk[g], g \in pendingRestore <=> g \in pendingRestore',
         g \in failedRestore => g \in failedRestore'
  PROVE  Fine(g)'
<1>1. /\ Running /\ AlertsPop /\ UNCHANGED <<gui, live, calls>> /\ SameCmds(g)
  BY HandlerFinds
<1>2. Fine(g) /\ SameAlerts(g)
  BY <1>1, FineBefore, AlertsPoppedAside
<1>3. AnswersFor(g)'
  BY <1>1, <1>2, CallsAside DEF Fine, SameAlerts
<1>4. RestoreUnbound(g)'
  BY <1>1, <1>2, RestoreUnboundKept DEF Fine, Row
<1>5. Answered(g) = Answered(g)' /\ Adding(g) = Adding(g)'
  BY <1>1 DEF Answered, Adding
<1>6. Row(g)'
  BY <1>1, <1>2, <1>4, <1>5, RowAside DEF Fine
<1> QED BY <1>3, <1>6 DEF Fine

\* _on_torrent_added answers a restore: the row gets the handle of the torrent
\* in the session, or goes with nothing left behind.
LEMMA OnTorrentAddedFine ==
  ASSUME RowInv, OnTorrentAdded
  PROVE  \A g \in Torrents \ raced' : Fine(g)'
<1> DEFINE a == Head(alerts)
<1>1. NextAlert("added")
  BY DEF OnTorrentAdded
<1>2. /\ IInv /\ TypeOK /\ Running /\ gui # "saving" /\ ~InCall(Gui)
      /\ AlertsPop /\ Head(alerts).inc \in Nat
      /\ Head(alerts).kind = "added" /\ Head(alerts) = alerts[1]
      /\ 1 \in DOMAIN alerts
      /\ UNCHANGED <<gui, live, calls, cmds, raced>>
      /\ \A g : SameCmds(g)
  BY <1>1, HandlerFinds
<1>3. PICK h \in Torrents : h = Head(alerts).h
  BY <1>1, HandlerFinds
<1>4. CASE h \notin pendingRestore
  <2>1. /\ UNCHANGED <<records, handles, disk, failedRestore>>
        /\ pendingRestore' = pendingRestore
    BY <1>3, <1>4 DEF OnTorrentAdded, StillPending
  <2>2. \A g \in Torrents : SameAlerts(g)
    <3>1. \A g \in Torrents : g # h => SameAlerts(g)
      BY <1>2, <1>3, AlertsPoppedAside
    <3>2. SameAlerts(h)
      BY <1>2, <1>4, AlertsPoppedAside
    <3> QED BY <3>1, <3>2
  <2> QED BY <1>2, <2>1, <2>2, AllAside
<1>5. CASE h \in pendingRestore
  <2>1. /\ pendingRestore' = pendingRestore \ {h}
        /\ UNCHANGED disk
        /\ \/ /\ a.ok
              /\ handles' = [handles EXCEPT ![h] = a.inc]
              /\ UNCHANGED <<records, failedRestore>>
           \/ /\ ~a.ok /\ handles[h] # 0
              /\ UNCHANGED <<handles, records, failedRestore>>
           \/ /\ ~a.ok /\ handles[h] = 0 /\ UNCHANGED handles
              /\ records' = [records EXCEPT ![h] = "none"]
              /\ failedRestore' = failedRestore \cup {h}
    BY <1>3, <1>5 DEF OnTorrentAdded, StillPending, BindRestored,
                      RefuseRestored
  <2> HIDE DEF a
  <2>2. ASSUME NEW g \in Torrents \ raced, g # h PROVE Fine(g)'
    <3>1. /\ handles'[g] = handles[g] /\ records'[g] = records[g]
          /\ disk'[g] = disk[g] /\ (g \in pendingRestore <=> g \in pendingRestore')
          /\ (g \in failedRestore => g \in failedRestore')
      <4>1. handles'[g] = handles[g]
        BY <1>2, <2>1, <2>2 DEF TypeOK, AppTypeOK
      <4>2. records'[g] = records[g]
        BY <1>2, <2>1, <2>2 DEF TypeOK, AppTypeOK
      <4> QED BY <2>1, <2>2, <4>1, <4>2
    <3> QED BY <1>1, <1>3, <2>2, <3>1, HandledAside
  <2>3. ASSUME h \notin raced PROVE Fine(h)'
    <3>1. Fine(h) /\ Pending(h) /\ AnswerTrue(h) /\ AnswerBeforeRemoval(h)
      BY <1>2, <1>5, <2>3, FineBefore DEF Fine, Row, Pending
    <3>2. RestoreAnswer(h, 1)
      BY <1>2, <1>3 DEF RestoreAnswer, IsAdded
    <3>3. IF a.ok THEN /\ a.inc # 0
                       /\ live[h] \in {0, a.inc}
                       /\ live[h] = 0 => Reported(h)
                  ELSE LiveBound(h)
      BY <1>2, <3>1, <3>2 DEF AnswerTrue, a
    <3>4. Reported(h) <=> Reported(h)'
      BY <1>2, ReportedKept
    <3>5. \A c \in calls : c.h # h
      BY <1>2, <1>5, <3>1 DEF Fine, AnswersFor, InCall
    <3>6. \A i \in DOMAIN cmds : ~(IsRestore(cmds[i]) /\ cmds[i].h = h)
      BY <1>2, <1>3 DEF IInv, Bookkeeping, UntouchedUntilRestored
    <3>7. AnswersFor(h)'
      BY <1>2, <3>5 DEF AnswersFor
    <3>8. RestoreUnbound(h)'
      BY <1>2, <3>6 DEF RestoreUnbound, IsRestore
    <3>9. RemovedGone(h)'
      BY <1>2, <3>1, <3>4 DEF Fine, Row, RemovedGone
    <3>10. ~Answered(h)
      BY <3>5 DEF Answered
    <3>11. records[h] # "none"
      BY <3>1 DEF Pending
    <3>12. CASE a.ok
      <4>1. handles'[h] = a.inc /\ records'[h] = records[h]
        BY <1>2, <2>1, <3>12 DEF TypeOK, AppTypeOK
      <4>2. HandleCurrent(h)' /\ Settled(h)'
        BY <1>2, <3>3, <3>4, <3>11, <3>12, <4>1
        DEF HandleCurrent, Settled, LiveBound
      <4> QED BY <2>1, <3>7, <3>8, <3>9, <3>11, <4>1, <4>2 DEF Fine, Row
    <3>13. CASE ~a.ok /\ handles[h] # 0
      <4>1. UNCHANGED <<handles, records>>
        BY <2>1, <3>13
      <4>2. HandleCurrent(h)' /\ Settled(h)'
        BY <1>2, <3>1, <3>3, <3>4, <3>10, <3>13, <4>1
        DEF Fine, Row, HandleCurrent, Settled, LiveBound
      <4> QED BY <2>1, <3>7, <3>8, <3>9, <3>11, <4>1, <4>2 DEF Fine, Row
    <3>14. CASE ~a.ok /\ handles[h] = 0
      <4>1. handles'[h] = 0 /\ records'[h] = "none" /\ h \in failedRestore'
        BY <1>2, <2>1, <3>14 DEF TypeOK, AppTypeOK
      <4>2. live'[h] = 0
        BY <1>2, <3>3, <3>10, <3>14 DEF LiveBound
      <4>3. HandleCurrent(h)' /\ Settled(h)'
        BY <4>1, <4>2 DEF HandleCurrent, Settled, LiveBound
      <4> QED BY <2>1, <3>7, <3>8, <3>9, <4>1, <4>3 DEF Fine, Row
    <3> QED BY <3>12, <3>13, <3>14
  <2> QED BY <1>2, <2>2, <2>3
<1> QED BY <1>4, <1>5

\* _on_torrent_removed takes the row of a torrent that is gone, whose restore
\* was answered and that no call is adding.
LEMMA OnTorrentRemovedFine ==
  ASSUME RowInv, OnTorrentRemoved
  PROVE  \A g \in Torrents \ raced' : Fine(g)'
<1>1. NextAlert("removed")
  BY DEF OnTorrentRemoved
<1>2. /\ IInv /\ TypeOK /\ Running /\ gui # "saving"
      /\ AlertsPop
      /\ Head(alerts).kind = "removed" /\ Head(alerts) = alerts[1]
      /\ 1 \in DOMAIN alerts
      /\ UNCHANGED <<gui, live, calls, cmds, raced>>
  BY <1>1, HandlerFinds
<1>3. PICK h \in Torrents : h = Head(alerts).h
  BY <1>1, HandlerFinds
<1>4. /\ records' = [records EXCEPT ![h] = "none"]
      /\ handles' = [handles EXCEPT ![h] = 0]
      /\ disk' = [disk EXCEPT ![h] = NoFile]
      /\ UNCHANGED <<pendingRestore, failedRestore>>
  BY <1>3 DEF OnTorrentRemoved, Forget
<1>5. ASSUME NEW g \in Torrents \ raced, g # h PROVE Fine(g)'
  <2>1. /\ handles'[g] = handles[g] /\ records'[g] = records[g]
        /\ disk'[g] = disk[g]
    BY <1>4, <1>5
  <2> QED BY <1>1, <1>3, <1>4, <1>5, <2>1, HandledAside
<1>6. ASSUME h \notin raced PROVE Fine(h)'
  <2>1. Fine(h) /\ Reported(h)
    BY <1>2, <1>3, <1>6, FineBefore DEF Reported
  <2>2. RemovalInFlight(h)
    BY <2>1 DEF Reported, RemovalInFlight
  <2>3. \A c \in calls : c.h # h
    BY <2>1, <2>2 DEF Fine, AnswersFor
  <2>4. live[h] = 0
    BY <2>1 DEF Fine, Row, RemovedGone
  <2>5. h \notin pendingRestore
    <3>1. SUFFICES ASSUME h \in pendingRestore PROVE FALSE
      OBVIOUS
    <3>2. AnswerBeforeRemoval(h)
      BY <1>2, <2>1, <3>1 DEF Fine, Row, Pending
    <3>3. \E i \in 1..(1 - 1) : IsAdded(alerts[i], h)
      BY <1>2, <1>3, <3>2 DEF AnswerBeforeRemoval
    <3> QED BY <3>3
  <2>6. \A i \in DOMAIN cmds : ~(IsRestore(cmds[i]) /\ cmds[i].h = h)
    BY <1>2, <1>3 DEF IInv, Bookkeeping, UntouchedUntilRestored
  <2>7. handles'[h] = 0 /\ records'[h] = "none" /\ disk'[h] = NoFile
    BY <1>2, <1>4 DEF TypeOK, AppTypeOK, HistTypeOK
  <2>8. AnswersFor(h)'
    BY <1>2, <2>3 DEF AnswersFor
  <2>9. HandleCurrent(h)' /\ RemovedGone(h)' /\ Settled(h)'
    BY <1>2, <2>4, <2>7 DEF HandleCurrent, RemovedGone, Settled, LiveBound
  <2>10. RestoreUnbound(h)'
    BY <1>2, <2>6 DEF RestoreUnbound, IsRestore
  <2> QED BY <1>4, <2>5, <2>7, <2>8, <2>9, <2>10 DEF Fine, Row
<1> QED BY <1>2, <1>5, <1>6

-----------------------------------------------------------------------------
(* A process starts with a row per file and a restore per row              *)

\* At launch every row comes from a file and waits for its restore.
LEMMA LaunchFine ==
  ASSUME RowInv, Launch
  PROVE  \A g \in Torrents \ raced' : Fine(g)'
<1> DEFINE saved == {h \in Torrents : disk[h] # NoFile}
<1>1. IInv /\ TypeOK /\ ~Running
  BY DEF RowInv, StoreInv, IInv, Launch, Running
<1>2. /\ gui' = "idle" /\ pendingRestore' = saved
      /\ records' = [h \in Torrents |->
                        IF h \in saved THEN "restored" ELSE "none"]
      /\ UNCHANGED <<handles, calls, live, alerts, disk>>
  BY DEF Launch
<1>3. /\ \A g \in Torrents : handles[g] = 0 /\ live[g] = 0
      /\ alerts = <<>> /\ calls = {}
  BY <1>1 DEF RowInv, RowsOK, IInv, Bookkeeping, OffIsEmpty, Running
<1>4. \A i \in DOMAIN cmds' :
         /\ cmds'[i].op = "restore" /\ cmds'[i].h \in saved
  BY <1>1, LaunchAsked DEF IsRestore
<1> SUFFICES ASSUME NEW g \in Torrents PROVE Fine(g)'
  OBVIOUS
<1>5. alerts' = <<>> /\ \A k : k \notin DOMAIN alerts'
  BY <1>2, <1>3
<1>6. AnswersFor(g)'
  BY <1>2, <1>3 DEF AnswersFor
<1>7. HandleCurrent(g)' /\ RemovedGone(g)' /\ LiveBound(g)'
  BY <1>2, <1>3 DEF HandleCurrent, RemovedGone, LiveBound
<1>8. RestoreUnbound(g)'
  BY <1>2, <1>3, <1>4 DEF RestoreUnbound, IsRestore
<1>9. records'[g] = IF g \in saved THEN "restored" ELSE "none"
  BY <1>2
<1>10. g \in saved => Pending(g)'
  BY <1>5, <1>9 DEF Pending, AnswerTrue, AnswerBeforeRemoval, RestoreAnswer
<1>11. g \notin saved => Settled(g)'
  BY <1>7, <1>9 DEF Settled
<1> QED BY <1>2, <1>6, <1>7, <1>8, <1>9, <1>10, <1>11 DEF Fine, Row

-----------------------------------------------------------------------------
(* Every step                                                              *)

\* What a call was answered is a torrent.
LEMMA AnswersStep ==
  ASSUME RowInv, Next
  PROVE  \A c \in calls' : c.stage = "ok" => c.inc # 0
<1>1. IInv /\ TypeOK /\ Calling
      /\ \A c \in calls : c.stage = "ok" => c.inc # 0
  BY DEF RowInv, StoreInv, IInv, AnswersHold
<1>2. CASE calls' \subseteq calls
  BY <1>1, <1>2
<1>3. ASSUME NEW t \in Threads, NEW h \in Torrents, NEW strict \in BOOLEAN,
             AddBegin(t, h, strict)
      PROVE  \A c \in calls' : c.stage = "ok" => c.inc # 0
  BY <1>1, <1>3 DEF AddBegin
<1>4. ASSUME NEW inc, inc # 0, NEW stage, CmdsPop, Head(cmds).op = "add",
             stage = "ok" \/ stage = "dup",
             NEW i, i = IF stage = "ok" THEN inc ELSE 0,
             Answer(Head(cmds).thread, stage, i)
      PROVE  \A c \in calls' : c.stage = "ok" => c.inc # 0
  <2>1. PICK w \in calls :
           calls' = (calls \ {w}) \cup {[w EXCEPT !.stage = stage, !.inc = i]}
    BY <1>1, <1>4, AnswerShape
  <2> DEFINE v == [w EXCEPT !.stage = stage, !.inc = i]
  <2>2. v.stage = stage /\ v.inc = i
    BY <1>1, <2>1 DEF TypeOK, AppTypeOK, Call
  <2>3. calls' = (calls \ {w}) \cup {v}
    BY <2>1
  <2> HIDE DEF v
  <2> QED BY <1>1, <1>4, <2>2, <2>3
<1>5. CASE NetAddNew
  <2>1. PICK h \in Torrents : h = Head(cmds).h
    BY <1>1, <1>5, CmdServiced, CmdTyped DEF NetAddNew
  <2>2. /\ CmdsPop /\ Head(cmds).op = "add"
        /\ Answer(Head(cmds).thread, "ok", adds[h] + 1)
    BY <1>1, <1>5, <2>1, AddNewShape
  <2>3. adds[h] + 1 # 0
    BY <1>1, TypedTorrent
  <2> QED BY <1>4, <2>2, <2>3
<1>6. CASE NetAddDuplicate
  <2>1. PICK h \in Torrents : h = Head(cmds).h
    BY <1>1, <1>6, CmdServiced, CmdTyped DEF NetAddDuplicate
  <2>2. /\ CmdsPop /\ Head(cmds).op = "add" /\ live[h] # 0
        /\ \/ Answer(Head(cmds).thread, "dup", 0)
           \/ Answer(Head(cmds).thread, "ok", live[h])
    <3>1. CmdsPop /\ Head(cmds).op = "add"
      BY <1>1, <1>6, AddDuplicateShape
    <3> QED BY <1>6, <2>1, <3>1 DEF NetAddDuplicate
  <2> QED BY <1>4, <2>2
<1>7. CASE NetRestoreOk \/ NetRestoreRechecked \/ NetRestoreRefused
           \/ NetRemove \/ NetSave \/ \E h \in Torrents : Download(h)
  BY <1>2, <1>7 DEF NetRestoreOk, NetRestoreRechecked, NetRestoreRefused,
     NetRemove, NetSave, Download
<1>8. CASE Launch \/ (\E h \in Torrents : Remove(h)) \/ ShutdownBegin \/ Returns
           \/ Autosave
  BY <1>2, <1>8 DEF Launch, Remove, ShutdownBegin, Returns, AddReturn, AddRaise,
     Autosave, app
<1>9. CASE GuiLoop
  BY <1>2, <1>9 DEF GuiLoop, Tick, BindPoll, OnAlert, OnTorrentAdded,
     OnTorrentFinished, OnSaveResumeData, OnSaveFailed, OnTorrentRemoved,
     NextAlert, DrainOne, EndPass
<1>10. CASE ShutdownLoop \/ Crash
  BY <1>2, <1>10 DEF ShutdownLoop, ShutdownPoll, ShutdownSaved,
     ShutdownSaveFailed, ShutdownIgnored, ShutdownUnchanged, ShutdownDone,
     ShutdownTimeout, ShutdownRaise, Crash, End, app
<1> QED BY <1>3, <1>5, <1>6, <1>7, <1>8, <1>9, <1>10 DEF Next, User, Net

\* A step after which no process runs ended one.
LEMMA OffAfterEnd ==
  ASSUME IInv, Next, ~Running'
  PROVE  \E how : End(how)
<1>1. gui' = "off"
  BY DEF Running
<1>2. /\ gui = "off" => /\ cmds = <<>> /\ alerts = <<>> /\ calls = {}
                        /\ \A h \in Torrents : live[h] = 0
  BY DEF IInv, Bookkeeping, OffIsEmpty
<1>3. ~Launch /\ ~ShutdownBegin
  BY <1>1 DEF Launch, ShutdownBegin
<1>4. /\ \A t \in Threads, h \in Torrents, strict \in BOOLEAN :
             ~AddBegin(t, h, strict)
      /\ \A h \in Torrents : ~Remove(h)
  BY <1>1 DEF AddBegin, Remove, GuiIdle, app
<1>5. ~Returns
  BY <1>1, <1>2 DEF Returns, AddReturn, AddRaise
<1>6. ~Net
  BY <1>1, <1>2 DEF Net, NetRestoreOk, NetRestoreRechecked, NetRestoreRefused,
     NetAddNew, NetAddDuplicate, NetRemove, NetSave, NextCmd, LibUnchanged
<1>7. \A h \in Torrents : ~Download(h)
  BY <1>1, <1>2 DEF Download, LibUnchanged
<1>8. ~GuiLoop /\ ~Autosave
  BY <1>1 DEF GuiLoop, Tick, BindPoll, OnAlert, OnTorrentAdded,
     OnTorrentFinished, OnSaveResumeData, OnSaveFailed, OnTorrentRemoved,
     NextAlert, DrainOne, EndPass, Autosave, GuiIdle
<1>9. Crash \/ ShutdownLoop
  BY <1>3, <1>4, <1>5, <1>6, <1>7, <1>8 DEF Next, User
<1> QED
  BY <1>1, <1>9 DEF Crash, ShutdownLoop, ShutdownPoll, ShutdownSaved,
     ShutdownSaveFailed, ShutdownIgnored, ShutdownUnchanged, NextPopped,
     ShutdownDone, ShutdownTimeout, ShutdownRaise, app

\* The process that goes takes the rows with it.
LEMMA EndFine ==
  ASSUME NEW how, End(how)
  PROVE  AnswersHold' /\ RowsOK'
BY DEF End, AnswersHold, AnswersFor, RowsOK, Running

\* Every step that leaves the application running keeps the rows.
LEMMA FineStep ==
  ASSUME RowInv, Next, Running'
  PROVE  \A g \in Torrents \ raced' : Fine(g)'
<1>1. ~Crash /\ ~ShutdownDone /\ ~ShutdownTimeout /\ ~ShutdownRaise
  BY DEF Running, Crash, ShutdownDone, ShutdownTimeout, ShutdownRaise, End
<1>2. CASE Returns
  BY <1>2, AddReturnFine, AddRaiseFine DEF Returns
<1>3. CASE Net
  BY <1>3, RestoresFine, AddNewFine, AddDuplicateFine, NetRemoveFine, QuietFine
  DEF Net
<1>4. CASE GuiLoop
  BY <1>4, QuietFine, OnTorrentAddedFine, OnTorrentRemovedFine
  DEF GuiLoop, OnAlert
<1>5. CASE ShutdownLoop
  BY <1>1, <1>5, QuietFine DEF ShutdownLoop
<1>6. CASE User
  BY <1>1, <1>6, LaunchFine, AddBeginFine, RemoveFine, ShutdownBeginFine
  DEF User
<1>7. CASE Autosave \/ \E h \in Torrents : Download(h)
  BY <1>7, QuietFine
<1> QED BY <1>2, <1>3, <1>4, <1>5, <1>6, <1>7 DEF Next

\* Nothing is known before the first launch.
LEMMA RowInit == Init => RowInv
<1> SUFFICES ASSUME Init PROVE RowInv
  OBVIOUS
<1>1. StoreInv
  BY StoreInit
<1>2. AnswersHold /\ RowsOK
  BY DEF Init, AnswersHold, AnswersFor, RowsOK, Running
<1> QED BY <1>1, <1>2 DEF RowInv

\* The invariant of rows, handles and calls is inductive.
LEMMA RowStep == RowInv /\ [Next]_vars => RowInv'
<1> SUFFICES ASSUME RowInv, [Next]_vars PROVE RowInv'
  OBVIOUS
<1>1. StoreInv'
  BY StoreInvStep DEF RowInv
<1>2. CASE UNCHANGED vars
  <2>1. /\ UNCHANGED <<gui, records, handles, pendingRestore, calls, live, cmds,
                       alerts, disk, failedRestore, raced>>
    BY <1>2 DEF vars, app, lib, hist
  <2>2. AnswersHold'
    BY <2>1 DEF RowInv, AnswersHold, AnswersFor, RemovalInFlight
  <2>3. ASSUME NEW h \in Torrents \ raced, Row(h) PROVE Row(h)'
    BY <2>1, <2>3 DEF Row, HandleCurrent, RemovedGone, RestoreUnbound, Pending,
       Settled, LiveBound, Answered, Adding, Reported, AnswerTrue,
       AnswerBeforeRemoval, RestoreAnswer
  <2>4. RowsOK'
    BY <2>1, <2>3 DEF RowInv, RowsOK, Running
  <2> QED BY <1>1, <2>2, <2>4 DEF RowInv
<1>3. CASE Next /\ Running'
  <2>1. \A g \in Torrents \ raced' : AnswersFor(g)' /\ Row(g)'
    BY <1>3, FineStep DEF Fine
  <2>2. \A c \in calls' : c.stage = "ok" => c.inc # 0
    BY <1>3, AnswersStep
  <2> QED BY <1>1, <1>3, <2>1, <2>2 DEF RowInv, AnswersHold, RowsOK
<1>4. CASE Next /\ ~Running'
  <2>1. \E how : End(how)
    BY <1>4, OffAfterEnd DEF RowInv, StoreInv
  <2> QED BY <1>1, <2>1, EndFine DEF RowInv
<1> QED BY <1>2, <1>3, <1>4

\* The rows, handles and files agree with libtorrent in every state, for each
\* info-hash whose add overlapped nothing.
THEOREM RowsAgree == Spec => []RowInv
<1>1. Init => RowInv
  BY RowInit
<1>2. RowInv /\ [Next]_vars => RowInv'
  BY RowStep
<1> QED BY <1>1, <1>2, PTL DEF Spec

\* _handles never outlives _records (_on_torrent_added, _on_torrent_removed).
THEOREM HandlesHaveRecords == Spec => []HandleHasRecord
<1>1. RowInv => HandleHasRecord
  BY DEF RowInv, RowsOK, Row, HandleCurrent, HandleHasRecord
<1> QED BY <1>1, RowsAgree, PTL

\* No torrent in the libtorrent session runs out of the application's reach
\* once no add or restore of it is unanswered.
THEOREM LiveKnown == Spec => []LiveIsKnown
<1>1. RowInv => LiveIsKnown
  BY DEF RowInv, StoreInv, IInv, Bookkeeping, OffIsEmpty, Running, RowsOK, Row,
         Settled, LiveBound, Answered, Adding, LiveIsKnown
<1> QED BY <1>1, RowsAgree, PTL

\* No row is a ghost: once no add or restore is unanswered it has a handle.
THEOREM RowsLive == Spec => []RowIsLive
<1>1. RowInv => RowIsLive
  BY DEF RowInv, RowsOK, Row, Settled, RowIsLive
<1> QED BY <1>1, RowsAgree, PTL

\* A .fastresume file belongs to a row, or to a refused restore: no save
\* answered late brings back the file of a torrent that was removed.
THEOREM FilesHaveRows == Spec => []FileHasRow
<1>1. RowInv => FileHasRow
  BY DEF RowInv, RowsOK, Row, FileHasRow
<1> QED BY <1>1, RowsAgree, PTL
=============================================================================
