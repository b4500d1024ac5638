---------------------- MODULE SessionRefinementProofs -----------------------
(***************************************************************************)
(* SessionManager implements ResumeStore.  Each step maps to a step of the *)
(* store or a stutter because of Incarnations: an answer to a save carries *)
(* the incarnation it was asked of, incarnations only grow, so an answer   *)
(* that names the torrent in the session was made from it and claims no    *)
(* more than it has.                                                       *)
(***************************************************************************)
EXTENDS SessionInvariants, SessionRefinement, SessionManagerProofs

(* How a step may change the queues                                        *)

\* Alerts are posted behind the others.
AlertsGrow ==
    /\ Len(alerts) \in Nat /\ DOMAIN alerts = 1..Len(alerts)
    /\ Len(alerts') \in Nat /\ DOMAIN alerts' = 1..Len(alerts')
    /\ Len(alerts) <= Len(alerts')
    /\ \A k \in DOMAIN alerts : alerts'[k] = alerts[k]

NewAlert(k) == k \in DOMAIN alerts' /\ k \notin DOMAIN alerts

\* The first alert is taken off.
AlertsPop ==
    /\ Len(alerts) \in Nat /\ DOMAIN alerts = 1..Len(alerts)
    /\ Len(alerts') \in Nat /\ DOMAIN alerts' = 1..Len(alerts')
    /\ Len(alerts') = Len(alerts) - 1
    /\ 1 \in DOMAIN alerts /\ Head(alerts) = alerts[1]
    /\ \A k \in DOMAIN alerts' :
           k + 1 \in DOMAIN alerts /\ alerts'[k] = alerts[k + 1]

\* Requests are posted behind the others.
CmdsGrow ==
    /\ Len(cmds) \in Nat /\ DOMAIN cmds = 1..Len(cmds)
    /\ Len(cmds') \in Nat /\ DOMAIN cmds' = 1..Len(cmds')
    /\ Len(cmds) <= Len(cmds')
    /\ \A i \in DOMAIN cmds : cmds'[i] = cmds[i]

NewCmd(i) == i \in DOMAIN cmds' /\ i \notin DOMAIN cmds

\* The first request is serviced.
CmdsPop ==
    /\ Len(cmds) \in Nat /\ DOMAIN cmds = 1..Len(cmds)
    /\ Len(cmds') \in Nat /\ DOMAIN cmds' = 1..Len(cmds')
    /\ Len(cmds') = Len(cmds) - 1
    /\ 1 \in DOMAIN cmds /\ Head(cmds) = cmds[1]
    /\ \A i \in DOMAIN cmds' :
           i + 1 \in DOMAIN cmds /\ cmds'[i] = cmds[i + 1]

\* The fields a request has.
LEMMA CmdTyped ==
  ASSUME NEW c \in Cmd
  PROVE  /\ c.h \in Torrents
         /\ c.op \in {"restore", "add", "remove", "save"}
         /\ c.op \in {"remove", "save"} => c.inc \in Nat
         /\ c.op = "add" => c.thread \in Threads /\ c.strict \in BOOLEAN
         /\ c.op = "save" => c.lazy \in BOOLEAN
BY DEF Cmd

\* The fields an alert has.
LEMMA AlertTyped ==
  ASSUME NEW a \in Alert
  PROVE  /\ a.h \in Torrents /\ a.inc \in Nat
         /\ a.kind \in {"added", "finished", "saved", "saveFailed", "removed"}
         /\ a.kind = "added" => a.ok \in BOOLEAN
         /\ a.kind = "saved" => a.p \in 0..Full
BY DEF Alert

\* Every element of the queues is typed, by its place.
LEMMA Queued ==
  ASSUME TypeOK
  PROVE  /\ cmds \in Seq(Cmd) /\ alerts \in Seq(Alert)
         /\ \A i \in DOMAIN cmds : cmds[i] \in Cmd
         /\ \A k \in DOMAIN alerts : alerts[k] \in Alert
         /\ Len(cmds) \in Nat /\ DOMAIN cmds = 1..Len(cmds)
         /\ Len(alerts) \in Nat /\ DOMAIN alerts = 1..Len(alerts)
         /\ popped \in Nat /\ popped <= Len(alerts)
BY ElementOfSeq, LenProperties DEF TypeOK, QueueTypeOK

\* A step that leaves the alerts alone posts none.
LEMMA AlertsStay ==
  ASSUME TypeOK, alerts' = alerts
  PROVE  AlertsGrow /\ \A k : ~NewAlert(k)
BY Queued DEF AlertsGrow, NewAlert

\* A step that leaves the requests alone posts none.
LEMMA CmdsStay ==
  ASSUME TypeOK, cmds' = cmds
  PROVE  CmdsGrow /\ \A i : ~NewCmd(i)
BY Queued DEF CmdsGrow, NewCmd

\* An alert posted goes behind the others.
LEMMA AlertPosted ==
  ASSUME TypeOK, NEW a \in Alert, alerts' = Append(alerts, a)
  PROVE  /\ AlertsGrow
         /\ \A k : NewAlert(k) <=> k = Len(alerts) + 1
         /\ \A k : NewAlert(k) => alerts'[k] = a
<1>1. /\ alerts \in Seq(Alert) /\ Len(alerts) \in Nat
      /\ DOMAIN alerts = 1..Len(alerts)
  BY Queued
<1>2. /\ alerts' \in Seq(Alert) /\ Len(alerts') = Len(alerts) + 1
      /\ \A k \in 1..Len(alerts) : alerts'[k] = alerts[k]
      /\ alerts'[Len(alerts) + 1] = a
  BY <1>1, AppendProperties
<1>3. DOMAIN alerts' = 1..Len(alerts')
  BY <1>2, LenProperties
<1> QED BY <1>1, <1>2, <1>3 DEF AlertsGrow, NewAlert

\* A request posted goes behind the others.
LEMMA CmdPosted ==
  ASSUME TypeOK, NEW c \in Cmd, cmds' = Append(cmds, c)
  PROVE  /\ CmdsGrow
         /\ \A i : NewCmd(i) <=> i = Len(cmds) + 1
         /\ \A i : NewCmd(i) => cmds'[i] = c
<1>1. /\ cmds \in Seq(Cmd) /\ Len(cmds) \in Nat
      /\ DOMAIN cmds = 1..Len(cmds)
  BY Queued
<1>2. /\ cmds' \in Seq(Cmd) /\ Len(cmds') = Len(cmds) + 1
      /\ \A i \in 1..Len(cmds) : cmds'[i] = cmds[i]
      /\ cmds'[Len(cmds) + 1] = c
  BY <1>1, AppendProperties
<1>3. DOMAIN cmds' = 1..Len(cmds')
  BY <1>2, LenProperties
<1> QED BY <1>1, <1>2, <1>3 DEF CmdsGrow, NewCmd

\* A handler of a pass, or of shutdown(), takes off the first alert.
LEMMA AlertPopped ==
  ASSUME TypeOK, popped > 0, alerts' = Tail(alerts)
  PROVE  AlertsPop /\ Head(alerts) \in Alert
<1>1. /\ alerts \in Seq(Alert) /\ Len(alerts) \in Nat
      /\ DOMAIN alerts = 1..Len(alerts) /\ popped \in Nat /\ popped <= Len(alerts)
  BY Queued
<1>2. alerts # <<>>
  BY <1>1, EmptySeq
<1>3. alerts' \in Seq(Alert) /\ DOMAIN alerts' = 1..Len(alerts')
  BY <1>1, <1>2, QueueTail, LenProperties
<1> QED BY <1>1, <1>2, <1>3, QueueTail DEF AlertsPop

\* libtorrent's thread takes off the first request.
LEMMA CmdServiced ==
  ASSUME TypeOK, NEW op, NextCmd(op)
  PROVE  CmdsPop /\ Head(cmds) \in Cmd /\ Head(cmds).op = op
<1>1. /\ cmds \in Seq(Cmd) /\ cmds # <<>> /\ cmds' = Tail(cmds)
      /\ DOMAIN cmds = 1..Len(cmds)
  BY Queued DEF NextCmd
<1>2. cmds' \in Seq(Cmd) /\ DOMAIN cmds' = 1..Len(cmds')
  BY <1>1, QueueTail, LenProperties
<1> QED BY <1>1, <1>2, QueueTail DEF CmdsPop, NextCmd

-----------------------------------------------------------------------------
(* What libtorrent's thread does to the torrent of the request it services *)

\* Everything but its torrent, and but the application's own state.
ServedAlone(h) ==
    /\ UNCHANGED <<gui, records, handles, pendingRestore, restoreConfirm,
                   saveQueue, quota, savePending, popped, disk, removedByUser,
                   failedRestore, raced, finishLog, lastExit>>
    /\ \A g \in Torrents \ {h} :
           /\ live'[g] = live[g] /\ adds'[g] = adds[g]
           /\ progress'[g] = progress[g] /\ dirty'[g] = dirty[g]
           /\ atTick'[g] = atTick[g]

\* The torrent enters the session with progress p.
Entered(h, p) ==
    /\ live'[h] = adds[h] + 1 /\ adds'[h] = adds[h] + 1
    /\ progress'[h] = p /\ atTick'[h] = 0

SameTorrent(h) ==
    /\ live'[h] = live[h] /\ adds'[h] = adds[h]
    /\ progress'[h] = progress[h] /\ atTick'[h] = atTick[h]

\* The type of what is kept for one torrent.
LEMMA TypedTorrent ==
  ASSUME TypeOK, NEW h \in Torrents
  PROVE  /\ live[h] \in Nat /\ adds[h] \in Nat /\ handles[h] \in Nat
         /\ progress[h] \in 0..Full /\ dirty[h] \in BOOLEAN
         /\ disk[h] \in NoFile..Full /\ atTick[h] \in 0..Full
         /\ records[h] \in {"none", "restored", "added"}
BY DEF TypeOK, AppTypeOK, LibTypeOK, HistTypeOK

\* The file of a torrent whose restore is serviced is still there.
LEMMA RestoreHasFile ==
  ASSUME IInv, NextCmd("restore")
  PROVE  /\ live[Head(cmds).h] = 0
         /\ disk[Head(cmds).h] \in 0..Full
         /\ \A k \in DOMAIN alerts : alerts[k].h # Head(cmds).h
<1> DEFINE h == Head(cmds).h
<1>1. CmdsPop /\ Head(cmds) \in Cmd /\ Head(cmds).op = "restore"
  BY CmdServiced DEF IInv
<1>2. h \in Torrents
  BY <1>1, CmdTyped
<1>3. 1 \in DOMAIN cmds /\ IsRestore(cmds[1]) /\ cmds[1].h = h
  BY <1>1 DEF CmdsPop, IsRestore
<1>4. /\ live[h] = 0 /\ disk[h] # NoFile
      /\ \A k \in DOMAIN alerts : alerts[k].h # h
  BY <1>3 DEF IInv, Bookkeeping, UntouchedUntilRestored
<1>5. disk[h] \in NoFile..Full
  BY <1>2, TypedTorrent DEF IInv
<1>6. disk[h] \in 0..Full
  BY <1>4, <1>5, ConstantsAssumption DEF NoFile, ConstantsAssumption
<1> QED BY <1>4, <1>6

\* A restore that succeeds: the torrent enters with what its file claims, and
\* the answer is the first of the alerts posted.
LEMMA RestoreOkShape ==
  ASSUME IInv, NetRestoreOk
  PROVE  LET h == Head(cmds).h IN
         /\ CmdsPop /\ AlertsGrow /\ h \in Torrents
         /\ Head(cmds) \in Cmd /\ IsRestore(Head(cmds))
         /\ ServedAlone(h) /\ calls' = calls
         /\ Entered(h, disk[h]) /\ dirty'[h] = FALSE
         /\ NewAlert(Len(alerts) + 1)
         /\ alerts'[Len(alerts) + 1] = Added(h, adds[h] + 1, TRUE)
         /\ \A k : NewAlert(k) =>
                \/ k = Len(alerts) + 1
                \/ alerts'[k] = Finished(h, adds[h] + 1, "reconfirm")
<1> DEFINE h == Head(cmds).h
           a == Added(h, adds[h] + 1, TRUE)
           f == Finished(h, adds[h] + 1, "reconfirm")
<1>1. CmdsPop /\ Head(cmds) \in Cmd /\ Head(cmds).op = "restore"
  BY CmdServiced DEF IInv, NetRestoreOk
<1>2. h \in Torrents /\ IsRestore(Head(cmds))
  BY <1>1, CmdTyped DEF IsRestore
<1>3. ServedAlone(h) /\ calls' = calls
  BY DEF NetRestoreOk, LibUnchanged, ServedAlone, Enter, IInv, TypeOK,
         LibTypeOK, HistTypeOK
<1>4. Entered(h, disk[h]) /\ dirty'[h] = FALSE
  BY <1>2 DEF NetRestoreOk, Enter, Entered, IInv, TypeOK, LibTypeOK, HistTypeOK
<1>5. a \in Alert /\ f \in Alert /\ alerts \in Seq(Alert)
  <2>1. adds[h] + 1 \in Nat
    BY <1>2, TypedTorrent DEF IInv
  <2> QED BY <1>2, <2>1, AlertTypes, Queued DEF IInv
<1>6. alerts' \in {Append(alerts, a), Append(Append(alerts, a), f)}
  BY DEF NetRestoreOk
<1> HIDE DEF a, f
<1>7. /\ AlertsGrow
      /\ NewAlert(Len(alerts) + 1)
      /\ alerts'[Len(alerts) + 1] = a
      /\ \A k : NewAlert(k) => k = Len(alerts) + 1 \/ alerts'[k] = f
  <2>1. CASE alerts' = Append(alerts, a)
    BY <1>5, <2>1, AlertPosted DEF IInv
  <2>2. CASE alerts' = Append(Append(alerts, a), f)
    <3>1. /\ Len(alerts) \in Nat /\ DOMAIN alerts = 1..Len(alerts)
          /\ Len(alerts') = Len(alerts) + 2 /\ DOMAIN alerts' = 1..Len(alerts')
          /\ \A k \in 1..Len(alerts) : alerts'[k] = alerts[k]
          /\ alerts'[Len(alerts) + 1] = a /\ alerts'[Len(alerts) + 2] = f
      BY <1>5, <2>2, AppendProperties, LenProperties
    <3> QED BY <3>1 DEF AlertsGrow, NewAlert
  <2> QED BY <1>6, <2>1, <2>2
<1> QED BY <1>1, <1>2, <1>3, <1>4, <1>7 DEF a, f

\* A restore whose files are gone: the torrent enters with nothing.
LEMMA RecheckedShape ==
  ASSUME IInv, NetRestoreRechecked
  PROVE  LET h == Head(cmds).h IN
         /\ CmdsPop /\ AlertsGrow /\ h \in Torrents
         /\ Head(cmds) \in Cmd /\ IsRestore(Head(cmds))
         /\ ServedAlone(h) /\ calls' = calls
         /\ Entered(h, 0) /\ dirty'[h] = TRUE
         /\ NewAlert(Len(alerts) + 1)
         /\ alerts'[Len(alerts) + 1] = Added(h, adds[h] + 1, TRUE)
         /\ \A k : NewAlert(k) => k = Len(alerts) + 1
<1> DEFINE h == Head(cmds).h
           a == Added(h, adds[h] + 1, TRUE)
<1>1. CmdsPop /\ Head(cmds) \in Cmd /\ Head(cmds).op = "restore"
  BY CmdServiced DEF IInv, NetRestoreRechecked
<1>2. h \in Torrents /\ IsRestore(Head(cmds))
  BY <1>1, CmdTyped DEF IsRestore
<1>3. ServedAlone(h) /\ calls' = calls
  BY DEF NetRestoreRechecked, LibUnchanged, ServedAlone, Enter, IInv, TypeOK,
         LibTypeOK, HistTypeOK
<1>4. Entered(h, 0) /\ dirty'[h] = TRUE
  BY <1>2 DEF NetRestoreRechecked, Enter, Entered, IInv, TypeOK, LibTypeOK,
              HistTypeOK
<1>5. a \in Alert /\ alerts' = Append(alerts, a)
  <2>1. adds[h] + 1 \in Nat
    BY <1>2, TypedTorrent DEF IInv
  <2> QED BY <1>2, <2>1, AlertTypes DEF NetRestoreRechecked
<1> HIDE DEF a
<1>6. /\ AlertsGrow
      /\ \A k : NewAlert(k) <=> k = Len(alerts) + 1
      /\ \A k : NewAlert(k) => alerts'[k] = a
  BY <1>5, AlertPosted DEF IInv
<1> QED BY <1>1, <1>2, <1>3, <1>4, <1>6 DEF a

\* A restore that libtorrent refuses: only the answer is posted.
LEMMA RefusedShape ==
  ASSUME IInv, NetRestoreRefused
  PROVE  LET h == Head(cmds).h IN
         /\ CmdsPop /\ AlertsGrow /\ h \in Torrents
         /\ Head(cmds) \in Cmd /\ IsRestore(Head(cmds))
         /\ ServedAlone(h) /\ calls' = calls
         /\ SameTorrent(h) /\ dirty'[h] = dirty[h]
         /\ NewAlert(Len(alerts) + 1)
         /\ alerts'[Len(alerts) + 1] = Added(h, 0, FALSE)
         /\ \A k : NewAlert(k) => k = Len(alerts) + 1
<1> DEFINE h == Head(cmds).h
           a == Added(h, 0, FALSE)
<1>1. CmdsPop /\ Head(cmds) \in Cmd /\ Head(cmds).op = "restore"
  BY CmdServiced DEF IInv, NetRestoreRefused
<1>2. h \in Torrents /\ IsRestore(Head(cmds))
  BY <1>1, CmdTyped DEF IsRestore
<1>3. /\ ServedAlone(h) /\ calls' = calls
      /\ SameTorrent(h) /\ dirty'[h] = dirty[h]
  BY DEF NetRestoreRefused, LibUnchanged, ServedAlone, SameTorrent
<1>4. a \in Alert /\ alerts' = Append(alerts, a)
  BY <1>2, AlertTypes DEF NetRestoreRefused
<1> HIDE DEF a
<1>5. /\ AlertsGrow
      /\ \A k : NewAlert(k) <=> k = Len(alerts) + 1
      /\ \A k : NewAlert(k) => alerts'[k] = a
  BY <1>4, AlertPosted DEF IInv
<1> QED BY <1>1, <1>2, <1>3, <1>5 DEF a

\* An add of a torrent that is not in the session: it enters with nothing.
LEMMA AddNewShape ==
  ASSUME IInv, NetAddNew
  PROVE  LET c == Head(cmds) IN
         /\ CmdsPop /\ AlertsGrow /\ c.h \in Torrents
         /\ c \in Cmd /\ c.op = "add"
         /\ ServedAlone(c.h) /\ Answer(c.thread, "ok", adds[c.h] + 1)
         /\ live[c.h] = 0 /\ Entered(c.h, 0) /\ dirty'[c.h] = TRUE
         /\ \A k : NewAlert(k) <=> k = Len(alerts) + 1
         /\ \A k : NewAlert(k) => alerts'[k] = Added(c.h, adds[c.h] + 1, TRUE)
<1> DEFINE c == Head(cmds)
           a == Added(c.h, adds[c.h] + 1, TRUE)
<1>1. CmdsPop /\ c \in Cmd /\ c.op = "add"
  BY CmdServiced DEF IInv, NetAddNew
<1>2. c.h \in Torrents
  BY <1>1, CmdTyped
<1>3. ServedAlone(c.h) /\ Answer(c.thread, "ok", adds[c.h] + 1)
  BY DEF NetAddNew, LibUnchanged, ServedAlone, Enter, IInv, TypeOK,
         LibTypeOK, HistTypeOK
<1>4. live[c.h] = 0 /\ Entered(c.h, 0) /\ dirty'[c.h] = TRUE
  BY <1>2 DEF NetAddNew, Enter, Entered, IInv, TypeOK, LibTypeOK, HistTypeOK
<1>5. a \in Alert /\ alerts' = Append(alerts, a)
  <2>1. adds[c.h] + 1 \in Nat
    BY <1>2, TypedTorrent DEF IInv
  <2> QED BY <1>2, <2>1, AlertTypes DEF NetAddNew
<1> HIDE DEF a
<1>6. /\ AlertsGrow
      /\ \A k : NewAlert(k) <=> k = Len(alerts) + 1
      /\ \A k : NewAlert(k) => alerts'[k] = a
  BY <1>5, AlertPosted DEF IInv
<1> QED BY <1>1, <1>2, <1>3, <1>4, <1>6 DEF a

\* An add of a torrent in the session: it is refused, or answered with the
\* incarnation that is there.
LEMMA AddDuplicateShape ==
  ASSUME IInv, NetAddDuplicate
  PROVE  LET c == Head(cmds)
             inc == IF c.strict THEN 0 ELSE live[c.h] IN
         /\ CmdsPop /\ AlertsGrow /\ c.h \in Torrents
         /\ c \in Cmd /\ c.op = "add" /\ inc \in Nat
         /\ ServedAlone(c.h) /\ SameTorrent(c.h) /\ dirty'[c.h] = dirty[c.h]
         /\ live[c.h] # 0
         /\ IF c.strict THEN Answer(c.thread, "dup", 0)
                        ELSE Answer(c.thread, "ok", live[c.h])
         /\ \A k : NewAlert(k) <=> k = Len(alerts) + 1
         /\ \A k : NewAlert(k) => alerts'[k] = Added(c.h, inc, ~c.strict)
<1> DEFINE c == Head(cmds)
           inc == IF c.strict THEN 0 ELSE live[c.h]
           a == Added(c.h, inc, ~c.strict)
<1>1. CmdsPop /\ c \in Cmd /\ c.op = "add"
  BY CmdServiced DEF IInv, NetAddDuplicate
<1>2. c.h \in Torrents /\ c.strict \in BOOLEAN
  BY <1>1, CmdTyped
<1>3. /\ ServedAlone(c.h) /\ SameTorrent(c.h) /\ dirty'[c.h] = dirty[c.h]
      /\ live[c.h] # 0
      /\ IF c.strict THEN Answer(c.thread, "dup", 0)
                     ELSE Answer(c.thread, "ok", live[c.h])
  BY DEF NetAddDuplicate, LibUnchanged, ServedAlone, SameTorrent
<1>4. inc \in Nat
  BY <1>2, TypedTorrent DEF IInv
<1>5. a \in Alert /\ alerts' = Append(alerts, a)
  BY <1>2, <1>4, AlertTypes DEF NetAddDuplicate
<1> HIDE DEF a
<1>6. /\ AlertsGrow
      /\ \A k : NewAlert(k) <=> k = Len(alerts) + 1
      /\ \A k : NewAlert(k) => alerts'[k] = a
  BY <1>5, AlertPosted DEF IInv
<1> QED BY <1>1, <1>2, <1>3, <1>4, <1>6 DEF a

\* A removal: the incarnation it names leaves the session, another stays.
LEMMA RemoveShape ==
  ASSUME IInv, NetRemove
  PROVE  LET c == Head(cmds) IN
         /\ CmdsPop /\ AlertsGrow /\ c.h \in Torrents
         /\ c \in Cmd /\ c.op = "remove" /\ c.inc \in Nat
         /\ ServedAlone(c.h) /\ calls' = calls
         /\ adds'[c.h] = adds[c.h] /\ atTick'[c.h] = atTick[c.h]
         /\ \/ /\ live[c.h] = c.inc
               /\ live'[c.h] = 0 /\ progress'[c.h] = 0 /\ dirty'[c.h] = FALSE
               /\ \A k : NewAlert(k) <=> k = Len(alerts) + 1
               /\ \A k : NewAlert(k) =>
                      alerts'[k] = [kind |-> "removed", h |-> c.h,
                                    inc |-> c.inc]
            \/ /\ live[c.h] # c.inc
               /\ SameTorrent(c.h) /\ dirty'[c.h] = dirty[c.h]
               /\ \A k : ~NewAlert(k)
<1> DEFINE c == Head(cmds)
           a == [kind |-> "removed", h |-> c.h, inc |-> c.inc]
<1>1. CmdsPop /\ c \in Cmd /\ c.op = "remove"
  BY CmdServiced DEF IInv, NetRemove
<1>2. c.h \in Torrents /\ c.inc \in Nat
  BY <1>1, CmdTyped
<1>3. /\ ServedAlone(c.h) /\ calls' = calls
      /\ adds'[c.h] = adds[c.h] /\ atTick'[c.h] = atTick[c.h]
  BY DEF NetRemove, LibUnchanged, ServedAlone, IInv, TypeOK, LibTypeOK
<1>4. CASE live[c.h] = c.inc
  <2>1. live'[c.h] = 0 /\ progress'[c.h] = 0 /\ dirty'[c.h] = FALSE
    BY <1>2, <1>4 DEF NetRemove, IInv, TypeOK, LibTypeOK
  <2>2. a \in Alert /\ alerts' = Append(alerts, a)
    BY <1>2, <1>4, AlertTypes DEF NetRemove
  <2> HIDE DEF a
  <2>3. /\ AlertsGrow
        /\ \A k : NewAlert(k) <=> k = Len(alerts) + 1
        /\ \A k : NewAlert(k) => alerts'[k] = a
    BY <2>2, AlertPosted DEF IInv
  <2> QED BY <1>1, <1>2, <1>3, <1>4, <2>1, <2>3 DEF a
<1>5. CASE live[c.h] # c.inc
  <2>1. /\ SameTorrent(c.h) /\ dirty'[c.h] = dirty[c.h] /\ alerts' = alerts
    BY <1>5 DEF NetRemove, SameTorrent, LibUnchanged
  <2>2. AlertsGrow /\ \A k : ~NewAlert(k)
    BY <2>1, AlertsStay DEF IInv
  <2> QED BY <1>1, <1>2, <1>3, <1>5, <2>1, <2>2
<1> QED BY <1>4, <1>5

\* A save: the alert carries the incarnation asked for and its progress, or a
\* failure when there is nothing to save.
LEMMA SaveShape ==
  ASSUME IInv, NetSave
  PROVE  LET c == Head(cmds)
             done == live[c.h] = c.inc /\ (c.lazy => dirty[c.h]) IN
         /\ CmdsPop /\ AlertsGrow /\ c.h \in Torrents
         /\ c \in Cmd /\ c.op = "save" /\ c.inc \in Nat
         /\ ServedAlone(c.h) /\ SameTorrent(c.h) /\ calls' = calls
         /\ dirty'[c.h] = (dirty[c.h] /\ ~done)
         /\ \A k : NewAlert(k) <=> k = Len(alerts) + 1
         /\ \A k : NewAlert(k) =>
                alerts'[k] =
                    IF done THEN [kind |-> "saved", h |-> c.h, inc |-> c.inc,
                                  p |-> progress[c.h]]
                            ELSE [kind |-> "saveFailed", h |-> c.h,
                                  inc |-> c.inc]
<1> DEFINE c == Head(cmds)
           done == live[c.h] = c.inc /\ (c.lazy => dirty[c.h])
           a == IF done THEN [kind |-> "saved", h |-> c.h, inc |-> c.inc,
                              p |-> progress[c.h]]
                        ELSE [kind |-> "saveFailed", h |-> c.h, inc |-> c.inc]
<1>1. CmdsPop /\ c \in Cmd /\ c.op = "save"
  BY CmdServiced DEF IInv, NetSave
<1>2. c.h \in Torrents /\ c.inc \in Nat
  BY <1>1, CmdTyped
<1>3. ServedAlone(c.h) /\ SameTorrent(c.h) /\ calls' = calls
  BY DEF NetSave, LibUnchanged, ServedAlone, SameTorrent, IInv, TypeOK,
         LibTypeOK
<1>4. dirty'[c.h] = (dirty[c.h] /\ ~done)
  BY <1>2 DEF NetSave, IInv, TypeOK, LibTypeOK
<1>5. a \in Alert /\ alerts' = Append(alerts, a)
  <2>1. progress[c.h] \in 0..Full
    BY <1>2, TypedTorrent DEF IInv
  <2> QED BY <1>2, <2>1, AlertTypes DEF NetSave
<1> HIDE DEF a
<1>6. /\ AlertsGrow
      /\ \A k : NewAlert(k) <=> k = Len(alerts) + 1
      /\ \A k : NewAlert(k) => alerts'[k] = a
  BY <1>5, AlertPosted DEF IInv
<1> HIDE DEF done
<1>7. /\ CmdsPop /\ AlertsGrow /\ c.h \in Torrents
      /\ c \in Cmd /\ c.op = "save" /\ c.inc \in Nat
      /\ ServedAlone(c.h) /\ SameTorrent(c.h) /\ calls' = calls
      /\ dirty'[c.h] = (dirty[c.h] /\ ~done)
      /\ \A k : NewAlert(k) <=> k = Len(alerts) + 1
      /\ \A k : NewAlert(k) => alerts'[k] = a
  BY <1>1, <1>2, <1>3, <1>4, <1>6
<1> QED BY <1>7 DEF a, done

\* Downloading: one torrent advances by one and is no longer what was saved.
LEMMA DownloadShape ==
  ASSUME IInv, NEW h \in Torrents, Download(h)
  PROVE  /\ ServedAlone(h) /\ calls' = calls /\ cmds' = cmds /\ AlertsGrow
         /\ live[h] # 0 /\ live' = live /\ adds' = adds /\ atTick' = atTick
         /\ progress[h] < Full /\ dirty'[h] = TRUE
         /\ progress' = [progress EXCEPT ![h] = progress[h] + 1]
         /\ progress'[h] = progress[h] + 1
         /\ \A k : NewAlert(k) => alerts'[k] = Finished(h, live[h], "done")
<1> DEFINE a == Finished(h, live[h], "done")
<1>1. /\ ServedAlone(h) /\ calls' = calls /\ cmds' = cmds /\ live[h] # 0
      /\ live' = live /\ adds' = adds /\ atTick' = atTick
      /\ progress[h] < Full /\ dirty'[h] = TRUE
      /\ progress' = [progress EXCEPT ![h] = progress[h] + 1]
      /\ progress'[h] = progress[h] + 1
  BY DEF Download, LibUnchanged, ServedAlone, IInv, TypeOK, LibTypeOK
<1>2. a \in Alert /\ alerts' \in {alerts, Append(alerts, a)}
  <2>1. live[h] \in Nat
    BY TypedTorrent DEF IInv
  <2> QED BY <2>1, AlertTypes DEF Download
<1> HIDE DEF a
<1>3. AlertsGrow /\ \A k : NewAlert(k) => alerts'[k] = a
  <2>1. CASE alerts' = alerts
    BY <2>1, AlertsStay DEF IInv
  <2>2. CASE alerts' = Append(alerts, a)
    BY <1>2, <2>2, AlertPosted DEF IInv
  <2> QED BY <1>2, <2>1, <2>2
<1> QED BY <1>1, <1>3 DEF a

-----------------------------------------------------------------------------
(* Incarnations only grow                                                  *)

OldCmd(c) == \E i \in DOMAIN cmds : cmds[i] = c
OldAlert(a) == \E k \in DOMAIN alerts : alerts[k] = a

\* After a step, an element of a queue was there before, or is the one that
\* the step posted.
LEMMA OldOrNew ==
  /\ CmdsGrow => \A i \in DOMAIN cmds' : OldCmd(cmds'[i]) \/ NewCmd(i)
  /\ CmdsPop => \A i \in DOMAIN cmds' : OldCmd(cmds'[i])
  /\ AlertsGrow => \A k \in DOMAIN alerts' : OldAlert(alerts'[k]) \/ NewAlert(k)
  /\ AlertsPop => \A k \in DOMAIN alerts' : OldAlert(alerts'[k])
BY DEF CmdsGrow, CmdsPop, AlertsGrow, AlertsPop, OldCmd, OldAlert, NewCmd,
       NewAlert

\* What a step may do to the torrent of an info-hash: go on, leave, enter.
Goes(h) == /\ live'[h] = live[h] /\ adds'[h] = adds[h]
           /\ progress'[h] >= progress[h]
           /\ live[h] = 0 => progress'[h] = progress[h]
Leaves(h) == live'[h] = 0 /\ adds'[h] = adds[h] /\ progress'[h] = 0
Enters(h) == live'[h] = adds[h] + 1 /\ adds'[h] = adds[h] + 1

\* Such a step names no incarnation from the future, and an answer to a save
\* claims no more than its torrent has, if what it posts does not.
LEMMA IncarnationsKept ==
  ASSUME TypeOK, TypeOK', Incarnations,
         \A h \in Torrents : Goes(h) \/ Leaves(h) \/ Enters(h),
         \A h \in Torrents : handles'[h] <= adds'[h],
         \A i \in DOMAIN cmds' : cmds'[i].op \in {"remove", "save"} =>
             OldCmd(cmds'[i]) \/ cmds'[i].inc <= adds'[cmds'[i].h],
         \A k \in DOMAIN alerts' :
             \/ OldAlert(alerts'[k])
             \/ /\ alerts'[k].inc <= adds'[alerts'[k].h]
                /\ alerts'[k].kind = "saved" =>
                       alerts'[k].p <= progress'[alerts'[k].h],
         \A c \in calls' : c \in calls \/ c.inc <= adds'[c.h]
  PROVE  Incarnations'
<1>1. \A h \in Torrents :
         /\ live[h] \in Nat /\ live'[h] \in Nat
         /\ adds[h] \in Nat /\ adds'[h] \in Nat
         /\ progress[h] \in Nat /\ progress'[h] \in Nat
         /\ live[h] <= adds[h] /\ adds[h] <= adds'[h]
         /\ Goes(h) \/ Leaves(h) \/ Enters(h)
  BY DEF TypeOK, LibTypeOK, Incarnations, NoneFromTheFuture, Goes, Leaves,
         Enters
<1>2. \A k \in DOMAIN alerts' : alerts'[k] \in Alert
  <2>1. alerts' \in Seq(Alert)
    BY DEF TypeOK, QueueTypeOK
  <2> QED BY <2>1, ElementOfSeq, LenProperties
<1>3. \A i \in DOMAIN cmds' : cmds'[i] \in Cmd
  <2>1. cmds' \in Seq(Cmd)
    BY DEF TypeOK, QueueTypeOK
  <2> QED BY <2>1, ElementOfSeq, LenProperties
<1>4. \A h \in Torrents : live'[h] <= adds'[h]
  BY <1>1 DEF Goes, Leaves, Enters
<1>5. ASSUME NEW i \in DOMAIN cmds', cmds'[i].op \in {"remove", "save"}
      PROVE  cmds'[i].inc <= adds'[cmds'[i].h]
  <2>1. cmds'[i].h \in Torrents /\ cmds'[i].inc \in Nat
    BY <1>3, <1>5, CmdTyped
  <2>2. CASE OldCmd(cmds'[i])
    <3>1. cmds'[i].inc <= adds[cmds'[i].h]
      BY <1>5, <2>2 DEF OldCmd, Incarnations, NoneFromTheFuture
    <3> QED BY <1>1, <2>1, <3>1
  <2> QED BY <1>5, <2>2
<1>6. ASSUME NEW k \in DOMAIN alerts'
      PROVE  alerts'[k].inc <= adds'[alerts'[k].h]
  <2>1. alerts'[k].h \in Torrents /\ alerts'[k].inc \in Nat
    BY <1>2, AlertTyped
  <2>2. CASE OldAlert(alerts'[k])
    <3>1. alerts'[k].inc <= adds[alerts'[k].h]
      BY <2>2 DEF OldAlert, Incarnations, NoneFromTheFuture
    <3> QED BY <1>1, <2>1, <3>1
  <2> QED BY <2>2
<1>7. ASSUME NEW c \in calls' PROVE c.inc <= adds'[c.h]
  <2>1. c.h \in Torrents /\ c.inc \in Nat
    BY DEF TypeOK, AppTypeOK, Call
  <2>2. c \in calls => c.inc <= adds[c.h]
    BY DEF Incarnations, NoneFromTheFuture
  <2> QED BY <1>1, <2>1, <2>2
<1>8. \A h \in Torrents : live'[h] = 0 => progress'[h] = 0
  BY <1>1 DEF Goes, Leaves, Enters, Incarnations, SavesBacked
<1>9. ASSUME NEW h \in Torrents, live'[h] # 0, NEW k \in DOMAIN alerts',
             alerts'[k].kind = "saved", alerts'[k].h = h,
             alerts'[k].inc = live'[h]
      PROVE  alerts'[k].p <= progress'[h]
  <2>1. alerts'[k].p \in Nat
    BY <1>2, <1>9, AlertTyped
  <2>2. CASE OldAlert(alerts'[k])
    <3>1. PICK j \in DOMAIN alerts : alerts[j] = alerts'[k]
      BY <2>2 DEF OldAlert
    <3>2. alerts[j].inc <= adds[h]
      BY <1>9, <3>1 DEF Incarnations, NoneFromTheFuture
    <3>3. Goes(h)
      BY <1>1, <1>9, <3>1, <3>2 DEF Leaves, Enters
    <3>4. IsSave(alerts[j], h) /\ live[h] # 0
      BY <1>9, <3>1, <3>3 DEF IsSave, Goes
    <3>5. alerts[j].p <= progress[h]
      BY <3>4 DEF Incarnations, SavesBacked
    <3> QED BY <1>1, <2>1, <3>1, <3>3, <3>5 DEF Goes
  <2> QED BY <1>9, <2>2
<1>10. NoneFromTheFuture'
  BY <1>4, <1>5, <1>6, <1>7 DEF NoneFromTheFuture
<1>11. SavesBacked'
  BY <1>8, <1>9 DEF SavesBacked, IsSave
<1> QED BY <1>10, <1>11 DEF Incarnations

-----------------------------------------------------------------------------
(* Calls to add_torrent()                                                  *)

\* The request a thread is blocked in is the one libtorrent answers.
LEMMA AnswerShape ==
  ASSUME TypeOK, Calling, CmdsPop, Head(cmds).op = "add",
         NEW stage, NEW inc, Answer(Head(cmds).thread, stage, inc)
  PROVE  \E w \in calls :
            /\ w.stage = "wait" /\ w.thread = Head(cmds).thread
            /\ w.h = Head(cmds).h
            /\ calls' = (calls \ {w})
                        \cup {[w EXCEPT !.stage = stage, !.inc = inc]}
<1> DEFINE t == Head(cmds).thread
<1>1. Head(cmds) = cmds[1] /\ 1 \in DOMAIN cmds
  BY DEF CmdsPop
<1>2. PICK w \in calls : /\ w.stage = "wait" /\ w.thread = t
                         /\ w.h = Head(cmds).h
  BY <1>1 DEF Calling, AddsAwaited
<1>3. \A c \in calls : c.thread = t <=> c = w
  BY <1>2 DEF Calling, OneCall
<1>4. calls' = (calls \ {w}) \cup {[w EXCEPT !.stage = stage, !.inc = inc]}
  BY <1>2, <1>3 DEF Answer
<1> QED BY <1>2, <1>4

\* Nobody leaves a call but with its answer.
LEMMA CallingKept ==
  ASSUME TypeOK, Calling, calls' \subseteq calls,
         \A c \in calls : c.stage = "wait" => c \in calls',
         gui' # "idle" => ~InCall(Gui),
         \/ CmdsGrow /\ \A i : NewCmd(i) => cmds'[i].op # "add"
         \/ CmdsPop
  PROVE  Calling'
<1>1. OneCall'
  BY DEF Calling, OneCall, InCall
<1>2. CASE CmdsGrow /\ \A i : NewCmd(i) => cmds'[i].op # "add"
  <2>1. \A i \in DOMAIN cmds' : cmds'[i].op = "add" =>
            i \in DOMAIN cmds /\ cmds'[i] = cmds[i]
    BY <1>2 DEF CmdsGrow, NewCmd
  <2>2. AddsAwaited'
    BY <2>1 DEF Calling, AddsAwaited
  <2> QED BY <1>1, <2>2 DEF Calling
<1>3. CASE CmdsPop
  <2>1. \A i \in DOMAIN cmds' :
            i \in Nat /\ i + 1 \in DOMAIN cmds /\ cmds'[i] = cmds[i + 1]
    BY <1>3 DEF CmdsPop
  <2>2. \A i \in DOMAIN cmds' : cmds'[i].op = "add" =>
            \E c \in calls' : /\ c.thread = cmds'[i].thread /\ c.h = cmds'[i].h
                              /\ c.stage = "wait"
    BY <2>1 DEF Calling, AddsAwaited
  <2>3. \A i, j \in DOMAIN cmds' :
            cmds'[i].op = "add" /\ cmds'[j].op = "add"
            /\ cmds'[i].thread = cmds'[j].thread => i = j
    BY <2>1 DEF Calling, AddsAwaited
  <2> QED BY <1>1, <2>2, <2>3 DEF Calling, AddsAwaited
<1> QED BY <1>2, <1>3

\* The answer to a call ends its wait and takes its request off the queue.
LEMMA AnswerKeepsCalling ==
  ASSUME TypeOK, Calling, CmdsPop, Head(cmds).op = "add", gui' = gui,
         NEW stage, NEW inc, Answer(Head(cmds).thread, stage, inc)
  PROVE  Calling'
<1>1. PICK w \in calls :
         /\ w.stage = "wait" /\ w.thread = Head(cmds).thread
         /\ w.h = Head(cmds).h
         /\ calls' = (calls \ {w})
                     \cup {[w EXCEPT !.stage = stage, !.inc = inc]}
  BY AnswerShape
<1> DEFINE v == [w EXCEPT !.stage = stage, !.inc = inc]
<1>2. v.thread = w.thread /\ calls' = (calls \ {w}) \cup {v}
  BY <1>1 DEF TypeOK, AppTypeOK, Call
<1> HIDE DEF v
<1>3. OneCall'
  BY <1>1, <1>2 DEF Calling, OneCall, InCall
<1>4. \A i \in DOMAIN cmds' :
          /\ i \in Nat /\ i # 0
          /\ i + 1 \in DOMAIN cmds /\ cmds'[i] = cmds[i + 1]
  BY DEF CmdsPop
<1>5. 1 \in DOMAIN cmds /\ Head(cmds) = cmds[1]
  BY DEF CmdsPop
<1>6. ASSUME NEW i \in DOMAIN cmds', cmds'[i].op = "add"
      PROVE  \E c \in calls' : /\ c.thread = cmds'[i].thread
                               /\ c.h = cmds'[i].h /\ c.stage = "wait"
  <2>1. PICK c \in calls : /\ c.thread = cmds'[i].thread
                           /\ c.h = cmds'[i].h /\ c.stage = "wait"
    BY <1>4, <1>6 DEF Calling, AddsAwaited
  <2>2. cmds[i + 1].thread # cmds[1].thread
    BY <1>4, <1>5, <1>6 DEF Calling, AddsAwaited
  <2>3. c # w
    BY <1>1, <1>4, <1>5, <2>1, <2>2
  <2> QED BY <1>1, <2>1, <2>3
<1>7. \A i, j \in DOMAIN cmds' :
          cmds'[i].op = "add" /\ cmds'[j].op = "add"
          /\ cmds'[i].thread = cmds'[j].thread => i = j
  BY <1>4 DEF Calling, AddsAwaited
<1> QED BY <1>3, <1>6, <1>7 DEF Calling, AddsAwaited

\* add_torrent() posts one request.
LEMMA AddBeginShape ==
  ASSUME IInv, NEW t \in Threads, NEW h \in Torrents, NEW strict \in BOOLEAN,
         AddBegin(t, h, strict)
  PROVE  LET c == [op |-> "add", h |-> h, thread |-> t, strict |-> strict] IN
         /\ CmdsGrow /\ c \in Cmd
         /\ \A i : NewCmd(i) <=> i = Len(cmds) + 1
         /\ \A i : NewCmd(i) => cmds'[i] = c
<1> DEFINE c == [op |-> "add", h |-> h, thread |-> t, strict |-> strict]
<1>1. c \in Cmd
  BY DEF Cmd
<1>2. cmds' = Append(cmds, c)
  BY DEF AddBegin
<1> HIDE DEF c
<1>3. /\ CmdsGrow
      /\ \A i : NewCmd(i) <=> i = Len(cmds) + 1
      /\ \A i : NewCmd(i) => cmds'[i] = c
  BY <1>1, <1>2, CmdPosted DEF IInv
<1> QED BY <1>1, <1>3 DEF c

\* A thread enters add_torrent() only outside of any other call.
LEMMA AddBeginKeepsCalling ==
  ASSUME IInv, Calling, NEW t \in Threads, NEW h \in Torrents,
         NEW strict \in BOOLEAN, AddBegin(t, h, strict)
  PROVE  Calling'
<1> DEFINE call == [thread |-> t, h |-> h, stage |-> "wait", inc |-> 0]
           c == [op |-> "add", h |-> h, thread |-> t, strict |-> strict]
<1>1. /\ ~InCall(t) /\ gui' = gui /\ calls' = calls \cup {call}
      /\ t = Gui => gui = "idle"
  BY DEF AddBegin, GuiIdle
<1>2. /\ CmdsGrow
      /\ \A i : NewCmd(i) <=> i = Len(cmds) + 1
      /\ \A i : NewCmd(i) => cmds'[i] = c
  BY AddBeginShape
<1>3. call.thread = t /\ call.h = h /\ call.stage = "wait"
      /\ c.thread = t /\ c.h = h
  OBVIOUS
<1> HIDE DEF call, c
<1>4. OneCall'
  BY <1>1, <1>3 DEF Calling, OneCall, InCall
<1>5. \A i \in DOMAIN cmds' :
          \/ i \in DOMAIN cmds /\ cmds'[i] = cmds[i]
          \/ i = Len(cmds) + 1 /\ cmds'[i] = c
  BY <1>2 DEF CmdsGrow, NewCmd
<1>6. \A i \in DOMAIN cmds : cmds[i].op = "add" => cmds[i].thread # t
  BY <1>1 DEF Calling, AddsAwaited, InCall
<1>7. \A i \in DOMAIN cmds' : cmds'[i].op = "add" =>
          \E d \in calls' : /\ d.thread = cmds'[i].thread /\ d.h = cmds'[i].h
                            /\ d.stage = "wait"
  BY <1>1, <1>3, <1>5 DEF Calling, AddsAwaited
<1>8. \A i, j \in DOMAIN cmds' :
          cmds'[i].op = "add" /\ cmds'[j].op = "add"
          /\ cmds'[i].thread = cmds'[j].thread => i = j
  BY <1>3, <1>5, <1>6 DEF Calling, AddsAwaited
<1> QED BY <1>4, <1>7, <1>8 DEF Calling, AddsAwaited

-----------------------------------------------------------------------------
(* What the application asks for                                           *)

\* remove() posts a removal of the incarnation that the handle names.
LEMMA RemoveAsked ==
  ASSUME IInv, NEW h \in Torrents, Remove(h)
  PROVE  /\ CmdsGrow
         /\ \A i : NewCmd(i) =>
                /\ cmds'[i].op = "remove" /\ cmds'[i].h = h
                /\ cmds'[i].inc = handles[h]
<1> DEFINE c == [op |-> "remove", h |-> h, inc |-> handles[h]]
<1>1. c \in Cmd
  <2>1. handles[h] \in Nat
    BY TypedTorrent DEF IInv
  <2> QED BY <2>1 DEF Cmd
<1>2. cmds' = Append(cmds, c)
  BY DEF Remove
<1> HIDE DEF c
<1>3. CmdsGrow /\ \A i : NewCmd(i) => cmds'[i] = c
  BY <1>1, <1>2, CmdPosted DEF IInv
<1> QED BY <1>3 DEF c

\* The drain of the save queue asks for a save of a valid handle.
LEMMA DrainAsked ==
  ASSUME IInv, DrainOne
  PROVE  /\ CmdsGrow
         /\ \A i : NewCmd(i) =>
                \E h \in Torrents :
                    /\ cmds'[i].op = "save" /\ cmds'[i].h = h
                    /\ cmds'[i].inc = handles[h] /\ cmds'[i].lazy = TRUE
                    /\ IsValid(h, handles[h])
<1> DEFINE h == Head(saveQueue)
           c == [op |-> "save", h |-> h, inc |-> handles[h], lazy |-> TRUE]
<1>1. h \in Torrents
  <2>1. saveQueue # <<>> /\ saveQueue \in Seq(Torrents)
    BY EmptySeq DEF DrainOne, IInv, TypeOK, AppTypeOK
  <2> QED BY <2>1, QueueTail
<1>2. c \in Cmd
  <2>1. handles[h] \in Nat
    BY <1>1, TypedTorrent DEF IInv
  <2> QED BY <1>1, <2>1 DEF Cmd
<1>3. \/ cmds' = cmds
      \/ cmds' = Append(cmds, c) /\ IsValid(h, handles[h])
  BY DEF DrainOne
<1>4. CASE cmds' = cmds
  BY <1>4, CmdsStay DEF IInv
<1>5. CASE cmds' = Append(cmds, c) /\ IsValid(h, handles[h])
  <2>1. /\ c.op = "save" /\ c.h = h /\ c.inc = handles[h] /\ c.lazy = TRUE
        /\ IsValid(h, handles[h])
    BY <1>5
  <2> HIDE DEF c, h
  <2>2. CmdsGrow /\ \A i : NewCmd(i) => cmds'[i] = c
    BY <1>2, <1>5, CmdPosted DEF IInv
  <2> QED BY <1>1, <2>1, <2>2
<1> QED BY <1>3, <1>4, <1>5

\* shutdown() asks for a save of valid handles only.
LEMMA ShutdownAsked ==
  ASSUME IInv, ShutdownBegin
  PROVE  /\ CmdsGrow
         /\ \A i : NewCmd(i) =>
                \E h \in Torrents :
                    /\ cmds'[i].op = "save" /\ cmds'[i].h = h
                    /\ cmds'[i].inc = handles[h] /\ cmds'[i].lazy = FALSE
                    /\ IsValid(h, handles[h])
<1> DEFINE saves(order) ==
             [i \in 1..Cardinality(SavedAtExit) |->
                 [op |-> "save", h |-> order[i], inc |-> handles[order[i]],
                  lazy |-> FALSE]]
<1>1. PICK order \in Orders(SavedAtExit) : cmds' = cmds \o saves(order)
  BY DEF ShutdownBegin
<1>2. SavedAtExit \in SUBSET Torrents
  BY DEF SavedAtExit
<1>3. /\ Cardinality(SavedAtExit) \in Nat
      /\ order \in [1..Cardinality(SavedAtExit) -> SavedAtExit]
  BY <1>1, <1>2, Ordered
<1>4. saves(order) \in Seq(Cmd)
  BY <1>1, <1>2, Saves DEF IInv
<1> DEFINE s == saves(order)
<1>5. \A i \in DOMAIN s :
          \E h \in Torrents :
              /\ s[i].op = "save" /\ s[i].h = h
              /\ s[i].inc = handles[h] /\ s[i].lazy = FALSE
              /\ IsValid(h, handles[h])
  BY <1>3 DEF SavedAtExit
<1>6. s \in Seq(Cmd) /\ cmds' = cmds \o s
  BY <1>1, <1>4
<1> HIDE DEF s
<1>7. /\ cmds \in Seq(Cmd) /\ Len(cmds) \in Nat /\ Len(s) \in Nat
      /\ DOMAIN cmds = 1..Len(cmds)
      /\ cmds' \in Seq(Cmd) /\ DOMAIN cmds' = 1..(Len(cmds) + Len(s))
      /\ \A i \in 1..Len(cmds) : cmds'[i] = cmds[i]
      /\ \A i \in DOMAIN cmds' :
             \/ i \in DOMAIN cmds /\ cmds'[i] = cmds[i]
             \/ i - Len(cmds) \in DOMAIN s /\ cmds'[i] = s[i - Len(cmds)]
  BY <1>6, Concat, Queued DEF IInv
<1>8. Len(cmds') = Len(cmds) + Len(s)
  BY <1>7, LenProperties
<1>9. CmdsGrow
  BY <1>7, <1>8 DEF CmdsGrow
<1>10. \A i : NewCmd(i) => \E j \in DOMAIN s : cmds'[i] = s[j]
  BY <1>7 DEF NewCmd
<1> QED BY <1>5, <1>9, <1>10

\* A launch asks for the restore of every torrent that left a file.
LEMMA LaunchAsked ==
  ASSUME IInv, Launch
  PROVE  \A i \in DOMAIN cmds' :
             /\ IsRestore(cmds'[i]) /\ cmds'[i].h \in Torrents
             /\ disk[cmds'[i].h] # NoFile
<1> DEFINE saved == {h \in Torrents : disk[h] # NoFile}
<1>1. PICK order \in Orders(saved) :
         cmds' = [i \in 1..Cardinality(saved) |->
                     [op |-> "restore", h |-> order[i]]]
  BY DEF Launch
<1>2. order \in [1..Cardinality(saved) -> saved]
  BY <1>1, Ordered
<1>3. \A i \in DOMAIN cmds' : cmds'[i].op = "restore" /\ cmds'[i].h = order[i]
  BY <1>1
<1> QED BY <1>1, <1>2, <1>3 DEF IsRestore

-----------------------------------------------------------------------------
(* Every step keeps track of the calls                                     *)

\* No step puts a thread in two calls or leaves an add nobody waits for.
LEMMA CallingStep ==
  ASSUME IInv, Calling, [Next]_vars
  PROVE  Calling'
<1>1. TypeOK
  BY DEF IInv
<1>2. CASE cmds' = cmds /\ gui' = gui /\ calls' = calls
  BY <1>2 DEF Calling, OneCall, AddsAwaited, InCall
<1>3. ASSUME NEW t \in Threads, NEW h \in Torrents, NEW strict \in BOOLEAN,
             AddBegin(t, h, strict)
      PROVE  Calling'
  BY <1>3, AddBeginKeepsCalling
<1>4. ASSUME NEW c \in calls, AddReturn(c) \/ AddRaise(c)
      PROVE  Calling'
  <2>1. /\ gui' = gui /\ cmds' = cmds /\ calls' \subseteq calls
        /\ \A d \in calls : d.stage = "wait" => d \in calls'
    BY <1>4 DEF AddReturn, AddRaise, lib
  <2>2. CmdsGrow /\ \A i : ~NewCmd(i)
    BY <1>1, <2>1, CmdsStay
  <2> QED BY <1>1, <2>1, <2>2, CallingKept DEF Calling, OneCall
<1>5. CASE NetRestoreOk \/ NetRestoreRechecked \/ NetRestoreRefused
  <2>1. CmdsPop /\ calls' = calls /\ gui' = gui
    BY <1>5, RestoreOkShape, RecheckedShape, RefusedShape DEF ServedAlone
  <2> QED BY <1>1, <2>1, CallingKept DEF Calling, OneCall
<1>6. CASE NetRemove \/ NetSave
  <2>1. CmdsPop /\ calls' = calls /\ gui' = gui
    BY <1>6, RemoveShape, SaveShape DEF ServedAlone
  <2> QED BY <1>1, <2>1, CallingKept DEF Calling, OneCall
<1>7. CASE NetAddNew
  BY <1>1, <1>7, AddNewShape, AnswerKeepsCalling DEF ServedAlone
<1>8. CASE NetAddDuplicate
  BY <1>1, <1>8, AddDuplicateShape, AnswerKeepsCalling DEF ServedAlone
<1>9. ASSUME NEW h \in Torrents, Remove(h) PROVE Calling'
  <2>1. gui' = gui /\ calls' = calls
    BY <1>9 DEF Remove, app
  <2>2. CmdsGrow /\ \A i : NewCmd(i) => cmds'[i].op # "add"
    BY <1>9, RemoveAsked
  <2> QED BY <1>1, <2>1, <2>2, CallingKept DEF Calling, OneCall
<1>10. CASE DrainOne
  <2>1. gui' = gui /\ calls' = calls
    BY <1>10 DEF DrainOne
  <2>2. CmdsGrow /\ \A i : NewCmd(i) => cmds'[i].op # "add"
    BY <1>10, DrainAsked
  <2> QED BY <1>1, <2>1, <2>2, CallingKept DEF Calling, OneCall
<1>11. CASE ShutdownBegin
  <2>1. calls' = calls /\ ~InCall(Gui)
    BY <1>11 DEF ShutdownBegin, GuiIdle
  <2>2. CmdsGrow /\ \A i : NewCmd(i) => cmds'[i].op # "add"
    BY <1>11, ShutdownAsked
  <2> QED BY <1>1, <2>1, <2>2, CallingKept
<1>12. CASE Tick \/ BindPoll \/ EndPass \/ Autosave
  <2>1. calls' = calls /\ cmds' = cmds /\ (gui' # "idle" => ~InCall(Gui))
    BY <1>12 DEF Tick, BindPoll, EndPass, Autosave, GuiIdle, lib, Calling,
                 OneCall
  <2>2. CmdsGrow /\ \A i : ~NewCmd(i)
    BY <1>1, <2>1, CmdsStay
  <2> QED BY <1>1, <2>1, <2>2, CallingKept
<1>13. CASE Launch
  <2>1. calls' = {}
    BY <1>13 DEF Launch, IInv, Bookkeeping, OffIsEmpty
  <2>2. \A i \in DOMAIN cmds' : cmds'[i].op # "add"
    BY <1>13, LaunchAsked DEF IsRestore
  <2> QED BY <2>1, <2>2 DEF Calling, OneCall, AddsAwaited, InCall
<1>14. ASSUME NEW how, End(how) PROVE Calling'
  <2>1. calls' = {} /\ cmds' = <<>>
    BY <1>14 DEF End
  <2> QED BY <2>1 DEF Calling, OneCall, AddsAwaited, InCall
<1>15. CASE OnAlert \/ ShutdownPoll \/ ShutdownSaved \/ ShutdownSaveFailed
            \/ ShutdownIgnored
  BY <1>2, <1>15 DEF OnAlert, OnTorrentAdded, OnTorrentFinished,
     OnSaveResumeData, OnSaveFailed, OnTorrentRemoved, NextAlert, ShutdownPoll,
     ShutdownSaved, ShutdownSaveFailed, ShutdownIgnored, ShutdownUnchanged, app
<1>16. ASSUME NEW h \in Torrents, Download(h) PROVE Calling'
  BY <1>2, <1>16, DownloadShape DEF ServedAlone
<1>17. CASE ShutdownDone \/ ShutdownTimeout \/ ShutdownRaise \/ Crash
  BY <1>14, <1>17 DEF ShutdownDone, ShutdownTimeout, ShutdownRaise, Crash
<1>18. CASE UNCHANGED vars
  BY <1>2, <1>18 DEF vars, app, lib
<1> QED
  BY <1>3, <1>4, <1>5, <1>6, <1>7, <1>8, <1>9, <1>10, <1>11, <1>12, <1>13,
     <1>15, <1>16, <1>17, <1>18
  DEF Next, User, Returns, Net, GuiLoop, ShutdownLoop

\* libtorrent's thread: what it posts names the torrent it just served.
LEMMA NetIncarnations ==
  ASSUME IInv, IInv', Calling, Incarnations,
         Net \/ \E h \in Torrents : Download(h)
  PROVE  Incarnations'
<1>1. TypeOK /\ TypeOK'
  BY DEF IInv
<1>2. \A g \in Torrents :
         /\ live[g] \in Nat /\ adds[g] \in Nat /\ progress[g] \in Nat
         /\ handles[g] \in Nat /\ handles[g] <= adds[g] /\ live[g] <= adds[g]
  BY <1>1, TypedTorrent DEF Incarnations, NoneFromTheFuture
<1>3. CASE NetRestoreOk
  <2> DEFINE h == Head(cmds).h
  <2>1. /\ CmdsPop /\ AlertsGrow /\ h \in Torrents
        /\ ServedAlone(h) /\ calls' = calls /\ Entered(h, disk[h])
        /\ alerts'[Len(alerts) + 1] = Added(h, adds[h] + 1, TRUE)
        /\ \A k : NewAlert(k) =>
               \/ k = Len(alerts) + 1
               \/ alerts'[k] = Finished(h, adds[h] + 1, "reconfirm")
    BY <1>3, RestoreOkShape
  <2>2. \A g \in Torrents : Goes(g) \/ Enters(g)
    BY <1>2, <2>1 DEF ServedAlone, Entered, Goes, Enters
  <2>3. \A g \in Torrents : handles'[g] <= adds'[g]
    BY <1>2, <2>1 DEF ServedAlone, Entered
  <2>4. \A i \in DOMAIN cmds' : OldCmd(cmds'[i])
    BY <2>1, OldOrNew
  <2>5. \A k \in DOMAIN alerts' :
            \/ OldAlert(alerts'[k])
            \/ alerts'[k].inc <= adds'[alerts'[k].h] /\ alerts'[k].kind # "saved"
    BY <1>2, <2>1, OldOrNew DEF Entered, Added, Finished
  <2> QED BY <1>1, <2>1, <2>2, <2>3, <2>4, <2>5, IncarnationsKept
<1>4. CASE NetRestoreRechecked
  <2> DEFINE h == Head(cmds).h
  <2>1. /\ CmdsPop /\ AlertsGrow /\ h \in Torrents
        /\ ServedAlone(h) /\ calls' = calls /\ Entered(h, 0)
        /\ alerts'[Len(alerts) + 1] = Added(h, adds[h] + 1, TRUE)
        /\ \A k : NewAlert(k) => k = Len(alerts) + 1
    BY <1>4, RecheckedShape
  <2>2. \A g \in Torrents : Goes(g) \/ Enters(g)
    BY <1>2, <2>1 DEF ServedAlone, Entered, Goes, Enters
  <2>3. \A g \in Torrents : handles'[g] <= adds'[g]
    BY <1>2, <2>1 DEF ServedAlone, Entered
  <2>4. \A i \in DOMAIN cmds' : OldCmd(cmds'[i])
    BY <2>1, OldOrNew
  <2>5. \A k \in DOMAIN alerts' :
            \/ OldAlert(alerts'[k])
            \/ alerts'[k].inc <= adds'[alerts'[k].h] /\ alerts'[k].kind # "saved"
    BY <1>2, <2>1, OldOrNew DEF Entered, Added
  <2> QED BY <1>1, <2>1, <2>2, <2>3, <2>4, <2>5, IncarnationsKept
<1>5. CASE NetRestoreRefused
  <2> DEFINE h == Head(cmds).h
  <2>1. /\ CmdsPop /\ AlertsGrow /\ h \in Torrents
        /\ ServedAlone(h) /\ calls' = calls /\ SameTorrent(h)
        /\ alerts'[Len(alerts) + 1] = Added(h, 0, FALSE)
        /\ \A k : NewAlert(k) => k = Len(alerts) + 1
    BY <1>5, RefusedShape
  <2>2. \A g \in Torrents : Goes(g) /\ handles'[g] <= adds'[g]
    BY <1>2, <2>1 DEF ServedAlone, SameTorrent, Goes
  <2>3. \A i \in DOMAIN cmds' : OldCmd(cmds'[i])
    BY <2>1, OldOrNew
  <2>4. \A k \in DOMAIN alerts' :
            \/ OldAlert(alerts'[k])
            \/ alerts'[k].inc <= adds'[alerts'[k].h] /\ alerts'[k].kind # "saved"
    BY <1>2, <2>1, OldOrNew DEF SameTorrent, Added
  <2> QED BY <1>1, <2>1, <2>2, <2>3, <2>4, IncarnationsKept
<1>6. CASE NetAddNew
  <2> DEFINE c == Head(cmds)
  <2>1. /\ CmdsPop /\ AlertsGrow /\ c.h \in Torrents /\ c \in Cmd
        /\ ServedAlone(c.h) /\ Answer(c.thread, "ok", adds[c.h] + 1)
        /\ Entered(c.h, 0) /\ c.op = "add" /\ c = cmds[1] /\ 1 \in DOMAIN cmds
        /\ \A k : NewAlert(k) => alerts'[k] = Added(c.h, adds[c.h] + 1, TRUE)
    BY <1>6, AddNewShape DEF CmdsPop
  <2>2. \A g \in Torrents : Goes(g) \/ Enters(g)
    BY <1>2, <2>1 DEF ServedAlone, Entered, Goes, Enters
  <2>3. \A g \in Torrents : handles'[g] <= adds'[g]
    BY <1>2, <2>1 DEF ServedAlone, Entered
  <2>4. \A i \in DOMAIN cmds' : OldCmd(cmds'[i])
    BY <2>1, OldOrNew
  <2>5. \A k \in DOMAIN alerts' :
            \/ OldAlert(alerts'[k])
            \/ alerts'[k].inc <= adds'[alerts'[k].h] /\ alerts'[k].kind # "saved"
    BY <1>2, <2>1, OldOrNew DEF Entered, Added
  <2>6. \A d \in calls' : d \in calls \/ d.inc <= adds'[d.h]
    <3>1. PICK w \in calls :
             /\ w.h = c.h
             /\ calls' = (calls \ {w})
                         \cup {[w EXCEPT !.stage = "ok", !.inc = adds[c.h] + 1]}
      BY <1>1, <2>1, AnswerShape
    <3>2. w \in Call
      BY <1>1 DEF TypeOK, AppTypeOK
    <3> DEFINE v == [w EXCEPT !.stage = "ok", !.inc = adds[c.h] + 1]
    <3>3. v.h = c.h /\ v.inc = adds[c.h] + 1
      BY <3>1, <3>2 DEF Call
    <3>4. calls' = (calls \ {w}) \cup {v}
      BY <3>1
    <3> HIDE DEF v
    <3> QED BY <1>2, <2>1, <3>3, <3>4 DEF Entered
  <2> QED BY <1>1, <2>2, <2>3, <2>4, <2>5, <2>6, IncarnationsKept
<1>7. CASE NetAddDuplicate
  <2> DEFINE c == Head(cmds)
             inc == IF c.strict THEN 0 ELSE live[c.h]
             stage == IF c.strict THEN "dup" ELSE "ok"
  <2>1. /\ CmdsPop /\ AlertsGrow /\ c.h \in Torrents /\ c \in Cmd
        /\ ServedAlone(c.h) /\ SameTorrent(c.h) /\ Answer(c.thread, stage, inc)
        /\ c.op = "add" /\ inc \in Nat
        /\ \A k : NewAlert(k) => alerts'[k] = Added(c.h, inc, ~c.strict)
    BY <1>7, AddDuplicateShape
  <2>2. \A g \in Torrents : Goes(g) /\ handles'[g] <= adds'[g]
    BY <1>2, <2>1 DEF ServedAlone, SameTorrent, Goes
  <2>3. inc <= adds'[c.h]
    BY <1>2, <2>1 DEF SameTorrent
  <2> HIDE DEF inc, stage
  <2>4. \A i \in DOMAIN cmds' : OldCmd(cmds'[i])
    BY <2>1, OldOrNew
  <2>5. \A k \in DOMAIN alerts' :
            \/ OldAlert(alerts'[k])
            \/ alerts'[k].inc <= adds'[alerts'[k].h] /\ alerts'[k].kind # "saved"
    BY <2>1, <2>3, OldOrNew DEF Added
  <2>6. \A d \in calls' : d \in calls \/ d.inc <= adds'[d.h]
    <3>1. PICK w \in calls :
             /\ w.h = c.h
             /\ calls' = (calls \ {w})
                         \cup {[w EXCEPT !.stage = stage, !.inc = inc]}
      BY <1>1, <2>1, AnswerShape
    <3>2. w \in Call
      BY <1>1 DEF TypeOK, AppTypeOK
    <3> DEFINE v == [w EXCEPT !.stage = stage, !.inc = inc]
    <3>3. v.h = c.h /\ v.inc = inc
      BY <3>1, <3>2 DEF Call
    <3>4. calls' = (calls \ {w}) \cup {v}
      BY <3>1
    <3> HIDE DEF v
    <3> QED BY <2>3, <3>3, <3>4
  <2> QED BY <1>1, <2>2, <2>4, <2>5, <2>6, IncarnationsKept
<1>8. CASE NetRemove
  <2> DEFINE c == Head(cmds)
  <2>1. /\ CmdsPop /\ AlertsGrow /\ c.h \in Torrents /\ c \in Cmd
        /\ ServedAlone(c.h) /\ calls' = calls /\ adds'[c.h] = adds[c.h]
        /\ \/ /\ live[c.h] = c.inc
              /\ live'[c.h] = 0 /\ progress'[c.h] = 0
              /\ \A k : NewAlert(k) => alerts'[k] = [kind |-> "removed",
                                                    h |-> c.h, inc |-> c.inc]
           \/ SameTorrent(c.h) /\ \A k : ~NewAlert(k)
    BY <1>8, RemoveShape
  <2>2. \A g \in Torrents : Goes(g) \/ Leaves(g)
    BY <1>2, <2>1 DEF ServedAlone, SameTorrent, Goes, Leaves
  <2>3. \A g \in Torrents : handles'[g] <= adds'[g]
    BY <1>2, <2>1 DEF ServedAlone
  <2>4. \A i \in DOMAIN cmds' : OldCmd(cmds'[i])
    BY <2>1, OldOrNew
  <2>5. \A k \in DOMAIN alerts' :
            \/ OldAlert(alerts'[k])
            \/ alerts'[k].inc <= adds'[alerts'[k].h] /\ alerts'[k].kind # "saved"
    BY <1>2, <2>1, OldOrNew
  <2> QED BY <1>1, <2>1, <2>2, <2>3, <2>4, <2>5, IncarnationsKept
<1>9. CASE NetSave
  <2> DEFINE c == Head(cmds)
  <2>1. /\ CmdsPop /\ AlertsGrow /\ c.h \in Torrents /\ c \in Cmd
        /\ c.op = "save" /\ c.inc \in Nat /\ c = cmds[1] /\ 1 \in DOMAIN cmds
        /\ ServedAlone(c.h) /\ SameTorrent(c.h) /\ calls' = calls
        /\ \A k : NewAlert(k) =>
               \/ alerts'[k] = [kind |-> "saved", h |-> c.h, inc |-> c.inc,
                                p |-> progress[c.h]]
               \/ alerts'[k] = [kind |-> "saveFailed", h |-> c.h, inc |-> c.inc]
    BY <1>9, SaveShape DEF CmdsPop
  <2>2. \A g \in Torrents : Goes(g) /\ handles'[g] <= adds'[g]
    BY <1>2, <2>1 DEF ServedAlone, SameTorrent, Goes
  <2>3. \A i \in DOMAIN cmds' : OldCmd(cmds'[i])
    BY <2>1, OldOrNew
  <2>4. c.inc <= adds'[c.h] /\ progress[c.h] <= progress'[c.h]
    BY <1>2, <2>1 DEF SameTorrent, Incarnations, NoneFromTheFuture
  <2>5. \A k \in DOMAIN alerts' :
            \/ OldAlert(alerts'[k])
            \/ /\ alerts'[k].inc <= adds'[alerts'[k].h]
               /\ alerts'[k].kind = "saved" =>
                      alerts'[k].p <= progress'[alerts'[k].h]
    BY <2>1, <2>4, OldOrNew
  <2> QED BY <1>1, <2>1, <2>2, <2>3, <2>5, IncarnationsKept
<1>10. ASSUME NEW h \in Torrents, Download(h) PROVE Incarnations'
  <2>1. /\ ServedAlone(h) /\ calls' = calls /\ cmds' = cmds /\ AlertsGrow
        /\ live[h] # 0 /\ live' = live /\ adds' = adds
        /\ progress'[h] = progress[h] + 1
        /\ \A k : NewAlert(k) => alerts'[k] = Finished(h, live[h], "done")
    BY <1>10, DownloadShape
  <2>2. \A g \in Torrents : Goes(g) /\ handles'[g] <= adds'[g]
    BY <1>2, <2>1 DEF ServedAlone, Goes
  <2>3. \A i \in DOMAIN cmds' : OldCmd(cmds'[i])
    BY <2>1 DEF OldCmd
  <2>4. \A k \in DOMAIN alerts' :
            \/ OldAlert(alerts'[k])
            \/ alerts'[k].inc <= adds'[alerts'[k].h] /\ alerts'[k].kind # "saved"
    BY <1>2, <2>1, OldOrNew DEF Finished
  <2> QED BY <1>1, <2>1, <2>2, <2>3, <2>4, IncarnationsKept
<1> QED
  BY <1>3, <1>4, <1>5, <1>6, <1>7, <1>8, <1>9, <1>10 DEF Net

\* The application: it asks about, and binds, torrents that libtorrent made.
LEMMA AppIncarnations ==
  ASSUME IInv, IInv', Incarnations, gui # "off",
         UNCHANGED <<live, adds, progress>>,
         \A h \in Torrents : handles'[h] <= adds[h],
         \A i \in DOMAIN cmds' : cmds'[i].op \in {"remove", "save"} =>
             \/ OldCmd(cmds'[i])
             \/ /\ cmds'[i].h \in Torrents
                /\ cmds'[i].inc <= adds[cmds'[i].h],
         \A k \in DOMAIN alerts' : OldAlert(alerts'[k]),
         \A c \in calls' : c \in calls \/ c.inc <= adds[c.h]
  PROVE  Incarnations'
<1>1. TypeOK /\ TypeOK'
  BY DEF IInv
<1>2. \A h \in Torrents : Goes(h)
  <2>1. \A h \in Torrents : progress[h] \in Nat
    BY <1>1, TypedTorrent
  <2> QED BY <2>1 DEF Goes
<1> QED BY <1>1, <1>2, IncarnationsKept

\* No step makes a handle, a request, a call or an alert name an incarnation
\* to come, or a save claim more than its torrent has.
LEMMA IncarnationsStep ==
  ASSUME IInv, IInv', Calling, Incarnations, [Next]_vars
  PROVE  Incarnations'
<1>1. /\ TypeOK /\ TypeOK' /\ handles \in [Torrents -> Nat]
      /\ \A h \in Torrents : handles[h] \in Nat /\ adds[h] \in Nat
                             /\ handles[h] <= adds[h] /\ live[h] <= adds[h]
  BY TypedTorrent DEF IInv, Incarnations, NoneFromTheFuture, TypeOK, AppTypeOK
<1>2. CASE UNCHANGED <<live, adds, progress, handles, cmds, alerts>>
           /\ calls' \subseteq calls
  BY <1>2 DEF Incarnations, NoneFromTheFuture, SavesBacked, IsSave
<1>3. ASSUME NEW t \in Threads, NEW h \in Torrents, NEW strict \in BOOLEAN,
             AddBegin(t, h, strict)
      PROVE  Incarnations'
  <2> DEFINE c == [op |-> "add", h |-> h, thread |-> t, strict |-> strict]
             call == [thread |-> t, h |-> h, stage |-> "wait", inc |-> 0]
  <2>1. /\ UNCHANGED <<live, adds, progress, handles, alerts>> /\ gui # "off"
        /\ calls' = calls \cup {call} /\ call.inc <= adds[call.h]
    BY <1>1, <1>3, ConstantsAssumption
    DEF AddBegin, GuiIdle, ConstantsAssumption
  <2>2. /\ CmdsGrow
        /\ \A i : NewCmd(i) => cmds'[i] = c
    BY <1>3, AddBeginShape
  <2>3. \A i : NewCmd(i) => cmds'[i].op = "add"
    BY <2>2
  <2> HIDE DEF c, call
  <2>4. \A i \in DOMAIN cmds' : cmds'[i].op \in {"remove", "save"} =>
            OldCmd(cmds'[i])
    BY <2>2, <2>3, OldOrNew
  <2>5. \A k \in DOMAIN alerts' : OldAlert(alerts'[k])
    BY <2>1 DEF OldAlert
  <2> QED BY <1>1, <2>1, <2>4, <2>5, AppIncarnations
<1>4. ASSUME NEW c \in calls, AddReturn(c)
      PROVE  Incarnations'
  <2>1. /\ UNCHANGED <<live, adds, progress, cmds, alerts>>
        /\ calls' \subseteq calls /\ handles' = [handles EXCEPT ![c.h] = c.inc]
    BY <1>4 DEF AddReturn, lib
  <2>2. c.inc <= adds[c.h]
    BY DEF Incarnations, NoneFromTheFuture
  <2>3. \A h \in Torrents : handles'[h] <= adds[h]
    BY <1>1, <2>1, <2>2
  <2> QED BY <2>1, <2>3 DEF Incarnations, NoneFromTheFuture, SavesBacked, IsSave
<1>5. ASSUME NEW h \in Torrents, Remove(h) PROVE Incarnations'
  <2>1. /\ UNCHANGED <<live, adds, progress, handles, alerts, calls>>
        /\ gui # "off"
    BY <1>5 DEF Remove, app, GuiIdle
  <2>2. \A i \in DOMAIN cmds' :
            \/ OldCmd(cmds'[i])
            \/ cmds'[i].h \in Torrents /\ cmds'[i].inc <= adds[cmds'[i].h]
    BY <1>1, <1>5, RemoveAsked, OldOrNew
  <2>3. \A k \in DOMAIN alerts' : OldAlert(alerts'[k])
    BY <2>1 DEF OldAlert
  <2> QED BY <1>1, <2>1, <2>2, <2>3, AppIncarnations
<1>6. CASE DrainOne \/ ShutdownBegin
  <2>1. /\ UNCHANGED <<live, adds, progress, handles, alerts, calls>>
        /\ gui # "off"
    BY <1>6 DEF DrainOne, ShutdownBegin, GuiIdle
  <2>2. \A i \in DOMAIN cmds' :
            \/ OldCmd(cmds'[i])
            \/ cmds'[i].h \in Torrents /\ cmds'[i].inc <= adds[cmds'[i].h]
    BY <1>1, <1>6, DrainAsked, ShutdownAsked, OldOrNew
  <2>3. \A k \in DOMAIN alerts' : OldAlert(alerts'[k])
    BY <2>1 DEF OldAlert
  <2> QED BY <1>1, <2>1, <2>2, <2>3, AppIncarnations
<1>7. CASE Launch
  <2>1. /\ UNCHANGED <<live, adds, progress, handles, alerts, calls>>
    BY <1>7 DEF Launch
  <2>2. \A i \in DOMAIN cmds' : cmds'[i].op \notin {"remove", "save"}
    BY <1>7, LaunchAsked DEF IsRestore
  <2> QED BY <2>1, <2>2 DEF Incarnations, NoneFromTheFuture, SavesBacked, IsSave
<1>8. ASSUME NEW how, End(how) PROVE Incarnations'
  <2>1. /\ \A h \in Torrents : live'[h] = 0 /\ handles'[h] = 0 /\ adds'[h] = 0
                               /\ progress'[h] = 0
        /\ calls' = {} /\ cmds' = <<>> /\ alerts' = <<>>
    BY <1>8 DEF End
  <2> QED BY <2>1 DEF Incarnations, NoneFromTheFuture, SavesBacked, IsSave
<1>9. CASE OnAlert \/ ShutdownSaved \/ ShutdownSaveFailed \/ ShutdownIgnored
  <2>1. /\ popped > 0 /\ alerts' = Tail(alerts) /\ gui # "off"
        /\ UNCHANGED <<live, adds, progress, cmds, calls>>
    BY <1>9 DEF OnAlert, OnTorrentAdded, OnTorrentFinished, OnSaveResumeData,
       OnSaveFailed, OnTorrentRemoved, NextAlert, ShutdownSaved,
       ShutdownSaveFailed, ShutdownIgnored, ShutdownUnchanged, NextPopped
  <2>2. AlertsPop /\ Head(alerts) \in Alert
    BY <1>1, <2>1, AlertPopped
  <2>3. /\ \A k \in DOMAIN alerts' : OldAlert(alerts'[k])
        /\ \A i \in DOMAIN cmds' : OldCmd(cmds'[i])
    BY <2>1, <2>2, OldOrNew DEF OldCmd
  <2>4. /\ Head(alerts).h \in Torrents
        /\ Head(alerts).inc <= adds[Head(alerts).h]
    BY <2>2, AlertTyped DEF AlertsPop, Incarnations, NoneFromTheFuture
  <2>5. \/ handles' = handles
        \/ handles' = [handles EXCEPT ![Head(alerts).h] = Head(alerts).inc]
        \/ handles' = [handles EXCEPT ![Head(alerts).h] = 0]
    BY <1>9 DEF OnAlert, OnTorrentAdded, OnTorrentFinished, OnSaveResumeData,
       OnSaveFailed, OnTorrentRemoved, BindRestored, RefuseRestored, Forget,
       ShutdownSaved, ShutdownSaveFailed, ShutdownIgnored, ShutdownUnchanged
  <2>6. \A h \in Torrents : handles'[h] <= adds[h]
    <3>1. Head(alerts).inc \in Nat
      BY <2>2, AlertTyped
    <3> QED BY <1>1, <2>4, <2>5, <3>1
  <2> QED BY <1>1, <2>1, <2>3, <2>6, AppIncarnations
<1>10. CASE Net \/ \E h \in Torrents : Download(h)
  BY <1>10, NetIncarnations
<1>11. CASE Tick \/ BindPoll \/ EndPass \/ Autosave \/ ShutdownPoll
  BY <1>2, <1>11 DEF Tick, BindPoll, EndPass, Autosave, ShutdownPoll, lib, app
<1>12. ASSUME NEW c \in calls, AddRaise(c) PROVE Incarnations'
  BY <1>2, <1>12 DEF AddRaise, lib
<1>13. CASE ShutdownDone \/ ShutdownTimeout \/ ShutdownRaise \/ Crash
  BY <1>8, <1>13 DEF ShutdownDone, ShutdownTimeout, ShutdownRaise, Crash
<1>14. CASE UNCHANGED vars
  BY <1>2, <1>14 DEF vars, app, lib
<1> QED
  BY <1>3, <1>4, <1>5, <1>6, <1>7, <1>9, <1>10, <1>11, <1>12, <1>13, <1>14
  DEF Next, User, Returns, GuiLoop, ShutdownLoop

-----------------------------------------------------------------------------
(* Each step is a step of the store, or none                               *)

StoreInv == IInv /\ Calling /\ Incarnations

\* At the start the store is what the session's files are.
LEMMA StoreInit == Init => StoreInv /\ Store!Init
<1> SUFFICES ASSUME Init PROVE StoreInv /\ Store!Init
  OBVIOUS
<1>1. IInv
  BY InitIInv
<1>2. Calling
  BY DEF Init, Calling, OneCall, AddsAwaited, InCall
<1>3. Incarnations
  BY DEF Init, Incarnations, NoneFromTheFuture, SavesBacked, IsSave
<1>4. Store!Init
  BY DEF Init, Store!Init, InSession, Dropped
<1> QED BY <1>1, <1>2, <1>3, <1>4 DEF StoreInv

\* What the refinement leans on is inductive.
LEMMA StoreInvStep == StoreInv /\ [Next]_vars => StoreInv'
BY NextIInv, CallingStep, IncarnationsStep DEF StoreInv

\* What the store does not see of the session.
Unseen == UNCHANGED <<live, progress, disk, removedByUser, raced>>

\* A step that changes nothing the store sees is a stutter of the store.
LEMMA UnseenStutters == Unseen => UNCHANGED Store!vars
BY DEF Unseen, Store!vars, InSession, Dropped

\* A torrent enters the session from its file, or from nothing.
LEMMA EntersStore ==
  ASSUME StoreInv, NEW h \in Torrents, NEW p, live[h] = 0, Enter(h, p),
         p \in {0, disk[h]} \ {NoFile},
         UNCHANGED <<disk, removedByUser, raced>>
  PROVE  Store!Enter(h)
<1>1. live \in [Torrents -> Nat] /\ adds[h] \in Nat
  BY DEF StoreInv, IInv, TypeOK, LibTypeOK
<1>2. live' = [live EXCEPT ![h] = adds[h] + 1] /\ adds[h] + 1 # 0
  BY <1>1 DEF Enter
<1>3. InSession' = InSession \cup {h} /\ h \notin InSession
  BY <1>1, <1>2 DEF InSession
<1> QED BY <1>3 DEF Enter, Store!Enter, Dropped

\* Only the torrent in the session is saved, and never ahead of itself.
LEMMA SavesStore ==
  ASSUME StoreInv, popped > 0, alerts' = Tail(alerts),
         Head(alerts).kind = "saved",
         IsValid(Head(alerts).h, Head(alerts).inc),
         disk' = [disk EXCEPT ![Head(alerts).h] = Head(alerts).p],
         UNCHANGED <<live, progress, removedByUser, raced>>
  PROVE  \E h \in Torrents : Store!Save(h)
<1> DEFINE a == Head(alerts)
<1>1. /\ a \in Alert /\ a = alerts[1] /\ 1 \in DOMAIN alerts
  BY AlertPopped DEF AlertsPop, StoreInv, IInv
<1>2. a.h \in Torrents /\ a.p \in 0..Full
  BY <1>1, AlertTyped
<1>3. live[a.h] # 0 /\ IsSave(a, a.h)
  BY DEF IsValid, IsSave
<1>4. a.p <= progress[a.h]
  BY <1>1, <1>2, <1>3 DEF StoreInv, Incarnations, SavesBacked
<1>5. a.p \in 0..progress[a.h]
  BY <1>2, <1>4, TypedTorrent DEF StoreInv, IInv
<1>6. Store!Save(a.h)
  BY <1>2, <1>3, <1>5 DEF Store!Save, InSession, Dropped
<1> QED BY <1>2, <1>6

\* A process that ends leaves the files, and nothing of the session.
LEMMA EndCloses ==
  ASSUME StoreInv', NEW how, End(how) PROVE Store!Close
BY DEF End, Store!Close, InSession, Dropped, StoreInv, IInv, TypeOK, HistTypeOK

\* Each step of the session is one of the store, or a stutter.
LEMMA StoreStep ==
  ASSUME StoreInv, StoreInv', [Next]_vars
  PROVE  [Store!Next]_(Store!vars)
<1>1. IInv /\ TypeOK /\ TypeOK'
  BY DEF StoreInv, IInv
<1>2. CASE Unseen
  BY <1>2, UnseenStutters
<1>3. CASE NetRestoreOk
  <2> DEFINE h == Head(cmds).h
  <2>1. /\ h \in Torrents /\ live[h] = 0 /\ disk[h] \in 0..Full
        /\ Enter(h, disk[h]) /\ ServedAlone(h)
    BY <1>1, <1>3, RestoreOkShape, RestoreHasFile DEF NetRestoreOk
  <2>2. disk[h] \in {0, disk[h]} \ {NoFile}
    BY <2>1, ConstantsAssumption DEF NoFile, ConstantsAssumption
  <2>3. Store!Enter(h)
    BY <2>1, <2>2, EntersStore DEF ServedAlone
  <2> QED BY <2>1, <2>3 DEF Store!Next
<1>4. CASE NetRestoreRechecked
  <2> DEFINE h == Head(cmds).h
  <2>1. /\ h \in Torrents /\ live[h] = 0 /\ Enter(h, 0) /\ ServedAlone(h)
    BY <1>1, <1>4, RecheckedShape, RestoreHasFile DEF NetRestoreRechecked
  <2>2. Store!Enter(h)
    BY <2>1, EntersStore DEF ServedAlone, NoFile
  <2> QED BY <2>1, <2>2 DEF Store!Next
<1>5. CASE NetAddNew
  <2> DEFINE h == Head(cmds).h
  <2>1. /\ h \in Torrents /\ live[h] = 0 /\ Enter(h, 0) /\ ServedAlone(h)
    BY <1>1, <1>5, AddNewShape DEF NetAddNew
  <2>2. Store!Enter(h)
    BY <2>1, EntersStore DEF ServedAlone, NoFile
  <2> QED BY <2>1, <2>2 DEF Store!Next
<1>6. CASE NetRemove
  <2> DEFINE c == Head(cmds)
  <2>1. c.h \in Torrents /\ ServedAlone(c.h)
    BY <1>1, <1>6, RemoveShape
  <2>2. CASE live[c.h] = c.inc /\ live[c.h] # 0
    <3>1. /\ live' = [live EXCEPT ![c.h] = 0]
          /\ progress' = [progress EXCEPT ![c.h] = 0]
      BY <1>6, <2>2 DEF NetRemove
    <3>2. InSession' = InSession \ {c.h} /\ c.h \in InSession
      BY <1>1, <2>1, <2>2, <3>1 DEF InSession, TypeOK, LibTypeOK
    <3>3. Store!Leave(c.h)
      BY <2>1, <3>1, <3>2 DEF Store!Leave, Dropped, ServedAlone
    <3> QED BY <2>1, <3>3 DEF Store!Next
  <2>3. CASE live[c.h] = c.inc /\ live[c.h] = 0
    <3>1. progress[c.h] = 0
      BY <2>1, <2>3 DEF StoreInv, Incarnations, SavesBacked
    <3>2. live' = live /\ progress' = progress
      BY <1>1, <1>6, <2>1, <2>3, <3>1 DEF NetRemove, TypeOK, LibTypeOK
    <3> QED BY <2>1, <3>2, UnseenStutters DEF Unseen, ServedAlone
  <2>4. CASE live[c.h] # c.inc
    <3>1. live' = live /\ progress' = progress
      BY <1>6, <2>4 DEF NetRemove
    <3> QED BY <2>1, <3>1, UnseenStutters DEF Unseen, ServedAlone
  <2> QED BY <2>2, <2>3, <2>4
<1>7. ASSUME NEW h \in Torrents, Download(h)
      PROVE  [Store!Next]_(Store!vars)
  <2>1. /\ ServedAlone(h) /\ live[h] # 0 /\ live' = live /\ progress[h] < Full
        /\ progress' = [progress EXCEPT ![h] = progress[h] + 1]
    BY <1>1, <1>7, DownloadShape
  <2>2. Store!Advance(h)
    BY <2>1 DEF Store!Advance, InSession, Dropped, ServedAlone
  <2> QED BY <2>2 DEF Store!Next
<1>8. CASE NetRestoreRefused \/ NetAddDuplicate \/ NetSave
  BY <1>2, <1>8 DEF NetRestoreRefused, NetAddDuplicate, NetSave, LibUnchanged,
                    Unseen
<1>9. CASE (\E t \in Threads, h \in Torrents, strict \in BOOLEAN :
               AddBegin(t, h, strict))
           \/ (\E h \in Torrents : Remove(h)) \/ ShutdownBegin \/ Launch
  <2>1. UNCHANGED <<live, progress, disk>>
    BY <1>9 DEF AddBegin, Remove, ShutdownBegin, Launch
  <2>2. Dropped' \in SUBSET Torrents
    BY <1>1 DEF Dropped, TypeOK, HistTypeOK
  <2>3. Store!Decide
    BY <2>1, <2>2 DEF Store!Decide, InSession
  <2> QED BY <2>3 DEF Store!Next
<1>10. CASE OnSaveResumeData
  <2>1. /\ popped > 0 /\ alerts' = Tail(alerts) /\ Head(alerts).kind = "saved"
        /\ UNCHANGED <<live, progress, removedByUser, raced>>
    BY <1>10 DEF OnSaveResumeData, NextAlert
  <2>2. CASE IsValid(Head(alerts).h, Head(alerts).inc)
    <3>1. disk' = [disk EXCEPT ![Head(alerts).h] = Head(alerts).p]
      BY <1>10, <2>2 DEF OnSaveResumeData
    <3> QED BY <2>1, <2>2, <3>1, SavesStore DEF Store!Next
  <2>3. CASE ~IsValid(Head(alerts).h, Head(alerts).inc)
    <3>1. disk' = disk
      BY <1>10, <2>3 DEF OnSaveResumeData
    <3> QED BY <1>2, <2>1, <3>1 DEF Unseen
  <2> QED BY <2>2, <2>3
<1>11. CASE ShutdownSaved
  <2>1. /\ popped > 0 /\ alerts' = Tail(alerts) /\ Head(alerts).kind = "saved"
        /\ UNCHANGED <<live, progress, removedByUser, raced>>
        /\ IsValid(Head(alerts).h, Head(alerts).inc)
        /\ disk' = [disk EXCEPT ![Head(alerts).h] = Head(alerts).p]
    BY <1>11 DEF ShutdownSaved, NextPopped, ShutdownUnchanged, hist
  <2> QED BY <2>1, SavesStore DEF Store!Next
<1>12. CASE OnTorrentRemoved
  <2> DEFINE h == Head(alerts).h
  <2>1. /\ popped > 0 /\ alerts' = Tail(alerts)
        /\ Head(alerts).kind = "removed" /\ disk' = [disk EXCEPT ![h] = NoFile]
        /\ UNCHANGED <<live, progress, removedByUser, raced>>
    BY <1>12 DEF OnTorrentRemoved, NextAlert, Forget
  <2>2. /\ Head(alerts) \in Alert /\ Head(alerts) = alerts[1]
        /\ 1 \in DOMAIN alerts
    BY <1>1, <2>1, AlertPopped DEF AlertsPop
  <2>3. h \in Torrents
    BY <2>2, AlertTyped
  <2>4. h \in Dropped
    BY <1>1, <2>1, <2>2 DEF IInv, Bookkeeping, RemovalsMeant, Dropped
  <2>5. Store!Delete(h)
    BY <2>1, <2>4 DEF Store!Delete, InSession, Dropped
  <2> QED BY <2>3, <2>5 DEF Store!Next
<1>13. CASE OnTorrentAdded \/ OnTorrentFinished \/ OnSaveFailed
            \/ ShutdownSaveFailed \/ ShutdownIgnored
  BY <1>2, <1>13 DEF OnTorrentAdded, BindRestored, RefuseRestored,
     OnTorrentFinished, OnSaveFailed, NextAlert, ShutdownSaveFailed,
     ShutdownIgnored, ShutdownUnchanged, NextPopped, hist, Unseen
<1>14. CASE Returns \/ Tick \/ BindPoll \/ DrainOne \/ EndPass \/ Autosave
            \/ ShutdownPoll
  BY <1>2, <1>14 DEF Returns, AddReturn, AddRaise, Tick, BindPoll, DrainOne,
     EndPass, Autosave, ShutdownPoll, lib, hist, Unseen
<1>15. CASE ShutdownDone \/ ShutdownTimeout \/ ShutdownRaise \/ Crash
  BY <1>15, EndCloses DEF ShutdownDone, ShutdownTimeout, ShutdownRaise, Crash,
     Store!Next
<1>16. CASE UNCHANGED vars
  BY <1>2, <1>16 DEF vars, lib, hist, Unseen
<1> QED
  BY <1>3, <1>4, <1>5, <1>6, <1>7, <1>8, <1>9, <1>10, <1>11, <1>12, <1>13,
     <1>14, <1>15, <1>16
  DEF Next, User, Net, GuiLoop, OnAlert, ShutdownLoop

\* SessionManager implements ResumeStore: whatever the order in which
\* libtorrent answers and the process ends, a .fastresume file is written only
\* of a torrent in the session, never claims more than that torrent has, and
\* goes only once the torrent was dropped.
THEOREM StoreKept == Spec => ImplementsStore
<1>1. Init => StoreInv /\ Store!Init
  BY StoreInit
<1>2. StoreInv /\ [Next]_vars => StoreInv'
  BY StoreInvStep
<1>3. StoreInv /\ StoreInv' /\ [Next]_vars => [Store!Next]_(Store!vars)
  BY StoreStep
<1> QED BY <1>1, <1>2, <1>3, PTL DEF Spec, ImplementsStore, Store!Spec
=============================================================================
