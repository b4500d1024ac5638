------------------------ MODULE SessionManagerProofs ------------------------
(***************************************************************************)
(* IInv is an inductive invariant of SessionManager.  One lemma per action *)
(* says that it keeps TypeOK.  Three others say what keeps Bookkeeping: a  *)
(* request appended to cmds (RequestKeeps), one serviced by libtorrent's   *)
(* thread (NetKeeps), an alert taken off the queue (HandlerKeeps); every   *)
(* action is an instance of one of them.                                   *)
(***************************************************************************)
EXTENDS SessionManager, FiniteSetTheorems, SequenceTheorems, TLAPS

(* Types                                                                   *)

\* An ordering of a set of torrents is a sequence of torrents that lists each
\* of its members once (the loops over _handles and over the .fastresume
\* files).
LEMMA Ordered ==
  ASSUME NEW S \in SUBSET Torrents, NEW order \in Orders(S)
  PROVE  /\ Cardinality(S) \in Nat
         /\ order \in [1..Cardinality(S) -> S]
         /\ order \in Seq(Torrents)
         /\ \A i, j \in 1..Cardinality(S) : i # j => order[i] # order[j]
         /\ \A h \in S : \E i \in 1..Cardinality(S) : order[i] = h
<1>1. IsFiniteSet(S)
  BY FS_Subset, ConstantsAssumption DEF ConstantsAssumption
<1>2. Cardinality(S) \in Nat
  BY <1>1, FS_CardinalityType
<1>3. order \in [1..Cardinality(S) -> S]
  BY DEF Orders, Bijection, Injection
<1>4. order \in Seq(Torrents)
  BY <1>2, <1>3, SeqDef
<1>5. \A i, j \in 1..Cardinality(S) : i # j => order[i] # order[j]
  BY <1>3 DEF Orders, Bijection, Injection, IsInjective
<1>6. \A h \in S : \E i \in 1..Cardinality(S) : order[i] = h
  BY DEF Orders, Bijection, Surjection
<1> QED BY <1>2, <1>3, <1>4, <1>5, <1>6

\* The request libtorrent's thread services next is a request about a known
\* torrent, and what is left behind it is a queue of requests.
LEMMA HeadCmd ==
  ASSUME TypeOK, NEW op, NextCmd(op)
  PROVE  /\ Head(cmds) \in Cmd /\ Head(cmds).op = op
         /\ Head(cmds).h \in Torrents
         /\ cmds' \in Seq(Cmd)
BY DEF TypeOK, QueueTypeOK, NextCmd, Cmd

\* The alerts the network thread posts are alerts.
LEMMA AlertTypes ==
  ASSUME NEW h \in Torrents, NEW inc \in Nat
  PROVE  /\ \A ok \in BOOLEAN : Added(h, inc, ok) \in Alert
         /\ \A why \in {"done", "reconfirm"} : Finished(h, inc, why) \in Alert
         /\ \A p \in 0..Full :
                [kind |-> "saved", h |-> h, inc |-> inc, p |-> p] \in Alert
         /\ [kind |-> "saveFailed", h |-> h, inc |-> inc] \in Alert
         /\ [kind |-> "removed", h |-> h, inc |-> inc] \in Alert
BY DEF Alert, Added, Finished

\* Posting an alert lengthens the queue by one.
LEMMA Post ==
  ASSUME NEW q \in Seq(Alert), NEW a \in Alert
  PROVE  Append(q, a) \in Seq(Alert) /\ Len(Append(q, a)) = Len(q) + 1
BY AppendProperties

\* Taking the head off a queue moves every other element up by one place.
LEMMA QueueTail ==
  ASSUME NEW S, NEW q \in Seq(S), q # <<>>
  PROVE  /\ Head(q) = q[1] /\ Head(q) \in S
         /\ Tail(q) \in Seq(S)
         /\ Len(q) \in Nat /\ Len(q) >= 1 /\ Len(Tail(q)) = Len(q) - 1
         /\ \A i \in DOMAIN Tail(q) :
                i + 1 \in DOMAIN q /\ Tail(q)[i] = q[i + 1]
BY HeadTailProperties, LenProperties

\* A step that posts at most one alert, and pops none, leaves the queues well
\* typed: popped still counts a prefix of the alerts.
LEMMA QueuesPosted ==
  ASSUME QueueTypeOK, cmds' \in Seq(Cmd), popped' = popped,
         alerts' = alerts \/ \E a \in Alert : alerts' = Append(alerts, a)
  PROVE  QueueTypeOK'
<1>1. /\ alerts \in Seq(Alert)
      /\ Len(alerts) \in Nat
      /\ popped \in Nat
      /\ popped <= Len(alerts)
  BY DEF QueueTypeOK
<1>2. /\ alerts' \in Seq(Alert)
      /\ Len(alerts') \in Nat
      /\ Len(alerts) <= Len(alerts')
  BY <1>1, Post
<1> QED BY <1>1, <1>2 DEF QueueTypeOK

\* A step that takes one popped alert off leaves the queues well typed, and
\* the alert is about a known torrent.
LEMMA QueuesPopped ==
  ASSUME QueueTypeOK, popped > 0, cmds' = cmds, alerts' = Tail(alerts),
         popped' = popped - 1
  PROVE  /\ QueueTypeOK'
         /\ alerts # <<>>
         /\ Head(alerts) \in Alert /\ Head(alerts).h \in Torrents
<1>1. /\ alerts \in Seq(Alert)
      /\ Len(alerts) \in Nat
      /\ popped \in Nat
      /\ popped <= Len(alerts)
  BY DEF QueueTypeOK
<1>2. alerts # <<>>
  BY <1>1, EmptySeq
<1>3. /\ Head(alerts) \in Alert
      /\ Tail(alerts) \in Seq(Alert)
      /\ Len(Tail(alerts)) = Len(alerts) - 1
  BY <1>1, <1>2, QueueTail
<1>4. Head(alerts).h \in Torrents
  BY <1>3 DEF Alert
<1>5. QueueTypeOK'
  BY <1>1, <1>3 DEF QueueTypeOK
<1> QED BY <1>2, <1>3, <1>4, <1>5

\* An add_torrent() call that returns or raises keeps the types.
LEMMA TypeReturns ==
  ASSUME TypeOK, NEW c \in calls, AddReturn(c) \/ AddRaise(c)
  PROVE  TypeOK'
<1>1. c.h \in Torrents /\ c.inc \in Nat
  BY DEF TypeOK, AppTypeOK, Call
<1>2. AppTypeOK'
  BY <1>1 DEF TypeOK, AppTypeOK, AddReturn, AddRaise
<1> QED
  BY <1>2 DEF TypeOK, LibTypeOK, QueueTypeOK, HistTypeOK, AddReturn, AddRaise,
              lib, hist

\* The restore poll, the pops of shutdown()'s loop and the end of a pass keep
\* the types: no more alerts are popped than are queued.
LEMMA TypePolls ==
  ASSUME TypeOK, BindPoll \/ ShutdownPoll \/ EndPass
  PROVE  TypeOK'
<1>1. QueueTypeOK'
  <2>1. Len(alerts) \in Nat
    BY LenProperties DEF TypeOK, QueueTypeOK
  <2> QED BY <2>1 DEF TypeOK, QueueTypeOK, BindPoll, ShutdownPoll, EndPass, lib
<1>2. AppTypeOK'
  BY DEF TypeOK, AppTypeOK, BindPoll, ShutdownPoll, EndPass, app
<1> QED
  BY <1>1, <1>2 DEF TypeOK, LibTypeOK, HistTypeOK, BindPoll, ShutdownPoll,
                    EndPass, lib, hist

\* A tick keeps the types: it never plans more saves than are queued.
LEMMA TypeTick ==
  ASSUME TypeOK, Tick PROVE TypeOK'
<1>1. quota' \in Nat /\ quota' <= Len(saveQueue)
  BY ConstantsAssumption
  DEF Tick, DrainQuota, ConstantsAssumption, TypeOK, AppTypeOK
<1>2. AppTypeOK'
  BY <1>1 DEF Tick, TypeOK, AppTypeOK
<1> QED BY <1>2 DEF Tick, TypeOK, LibTypeOK, QueueTypeOK, HistTypeOK

\* The periodic save keeps the types: the queue only grows under the quota.
LEMMA TypeAutosave ==
  ASSUME TypeOK, Autosave PROVE TypeOK'
<1> DEFINE fresh == {h \in Torrents : handles[h] # 0} \ Range(saveQueue)
<1>1. PICK order \in Orders(fresh) : saveQueue' = saveQueue \o order
  BY DEF Autosave
<1>2. order \in Seq(Torrents)
  BY Ordered
<1>3. /\ saveQueue' \in Seq(Torrents)
      /\ Len(saveQueue') \in Nat
      /\ Len(saveQueue) <= Len(saveQueue')
  BY <1>1, <1>2, ConcatProperties, LenProperties DEF TypeOK, AppTypeOK
<1>4. AppTypeOK'
  <2>1. quota' \in Nat /\ quota' <= Len(saveQueue')
    BY <1>3 DEF Autosave, TypeOK, AppTypeOK
  <2> QED BY <1>3, <2>1 DEF Autosave, TypeOK, AppTypeOK
<1> QED BY <1>4
  DEF Autosave, TypeOK, LibTypeOK, QueueTypeOK, HistTypeOK, lib, hist

\* A call to the add API keeps the types.
LEMMA TypeAddBegin ==
  ASSUME TypeOK, NEW t \in Threads, NEW h \in Torrents,
         NEW strict \in BOOLEAN, AddBegin(t, h, strict)
  PROVE TypeOK'
<1> DEFINE cmd == [op |-> "add", h |-> h, thread |-> t, strict |-> strict]
           call == [thread |-> t, h |-> h, stage |-> "wait", inc |-> 0]
<1>1. cmd \in Cmd /\ call \in Call
  BY DEF Cmd, Call
<1>2. cmds' \in Seq(Cmd)
  BY <1>1, AppendProperties DEF AddBegin, TypeOK, QueueTypeOK
<1>3. AppTypeOK'
  BY <1>1 DEF AddBegin, TypeOK, AppTypeOK
<1>4. QueueTypeOK'
  BY <1>2 DEF AddBegin, TypeOK, QueueTypeOK
<1> QED BY <1>3, <1>4 DEF AddBegin, TypeOK, LibTypeOK, HistTypeOK

\* remove_torrent keeps the types.
LEMMA TypeRemove ==
  ASSUME TypeOK, NEW h \in Torrents, Remove(h) PROVE TypeOK'
<1>1. [op |-> "remove", h |-> h, inc |-> handles[h]] \in Cmd
  BY DEF Cmd, TypeOK, AppTypeOK
<1>2. cmds' \in Seq(Cmd)
  BY <1>1, AppendProperties DEF Remove, TypeOK, QueueTypeOK
<1> QED BY <1>2
  DEF Remove, TypeOK, AppTypeOK, LibTypeOK, QueueTypeOK, HistTypeOK, app

\* Draining one queued save keeps the types: a positive quota means that the
\* queue is not empty.
LEMMA TypeDrainOne ==
  ASSUME TypeOK, DrainOne PROVE TypeOK'
<1>1. /\ saveQueue # <<>> /\ Head(saveQueue) \in Torrents
      /\ saveQueue' \in Seq(Torrents) /\ Len(saveQueue') = Len(saveQueue) - 1
  <2>1. saveQueue # <<>> /\ saveQueue \in Seq(Torrents)
    BY EmptySeq DEF DrainOne, TypeOK, AppTypeOK
  <2> QED BY <2>1, QueueTail DEF DrainOne
<1>2. cmds' \in Seq(Cmd)
  <2> DEFINE h == Head(saveQueue)
             c == [op |-> "save", h |-> h, inc |-> handles[h], lazy |-> TRUE]
  <2>1. c \in Cmd
    BY <1>1 DEF Cmd, TypeOK, AppTypeOK
  <2> QED BY <2>1, AppendProperties DEF DrainOne, TypeOK, QueueTypeOK
<1>3. AppTypeOK'
  <2>1. quota' \in Nat /\ quota' <= Len(saveQueue')
    BY <1>1, LenProperties DEF DrainOne, TypeOK, AppTypeOK
  <2> QED BY <1>1, <2>1 DEF DrainOne, TypeOK, AppTypeOK
<1> QED BY <1>2, <1>3
  DEF DrainOne, TypeOK, LibTypeOK, QueueTypeOK, HistTypeOK, hist

\* The save requests for a set of torrents, in any order, are requests.
LEMMA Saves ==
  ASSUME TypeOK, NEW S \in SUBSET Torrents, NEW order \in Orders(S),
         NEW lazy \in BOOLEAN
  PROVE  [i \in 1..Cardinality(S) |->
             [op |-> "save", h |-> order[i], inc |-> handles[order[i]],
              lazy |-> lazy]] \in Seq(Cmd)
<1>1. Cardinality(S) \in Nat /\ order \in [1..Cardinality(S) -> S]
  BY Ordered
<1>2. \A i \in 1..Cardinality(S) :
          [op |-> "save", h |-> order[i], inc |-> handles[order[i]],
           lazy |-> lazy] \in Cmd
  BY <1>1 DEF Cmd, TypeOK, AppTypeOK
<1> QED BY <1>1, <1>2, SeqDef

\* The final save requests of shutdown() keep the types.
LEMMA TypeShutdownBegin ==
  ASSUME TypeOK, ShutdownBegin PROVE TypeOK'
<1> DEFINE saves(order) ==
             [i \in 1..Cardinality(SavedAtExit) |->
                 [op |-> "save", h |-> order[i], inc |-> handles[order[i]],
                  lazy |-> FALSE]]
<1>1. PICK order \in Orders(SavedAtExit) : cmds' = cmds \o saves(order)
  BY DEF ShutdownBegin
<1>2. SavedAtExit \subseteq Torrents
  BY DEF SavedAtExit
<1>3. saves(order) \in Seq(Cmd)
  BY <1>2, Saves
<1>4. cmds' \in Seq(Cmd)
  BY <1>1, <1>3, ConcatProperties DEF TypeOK, QueueTypeOK
<1>5. savePending' \subseteq (Torrents \X Nat)
  BY <1>2 DEF ShutdownBegin, TypeOK, AppTypeOK
<1> QED
  BY <1>4, <1>5 DEF ShutdownBegin, TypeOK, AppTypeOK, LibTypeOK, QueueTypeOK,
                    HistTypeOK

\* A launch keeps the types, whatever files it finds.
LEMMA TypeLaunch ==
  ASSUME TypeOK, Launch PROVE TypeOK'
<1> DEFINE saved == {h \in Torrents : disk[h] # NoFile}
           restores(order) == [i \in 1..Cardinality(saved) |->
                                  [op |-> "restore", h |-> order[i]]]
<1>1. PICK order \in Orders(saved) : cmds' = restores(order)
  BY DEF Launch
<1>2. Cardinality(saved) \in Nat /\ order \in [1..Cardinality(saved) -> saved]
  BY Ordered
<1>3. \A i \in 1..Cardinality(saved) : [op |-> "restore", h |-> order[i]] \in Cmd
  BY <1>2 DEF Cmd
<1>4. cmds' \in Seq(Cmd)
  BY <1>1, <1>2, <1>3, SeqDef
<1>5. AppTypeOK'
  BY DEF Launch, ConfirmExpected, TypeOK, AppTypeOK
<1>6. QueueTypeOK'
  BY <1>4 DEF Launch, TypeOK, QueueTypeOK
<1> QED BY <1>5, <1>6 DEF Launch, TypeOK, LibTypeOK, HistTypeOK

\* However the process ends, the types hold.
LEMMA TypeEnd ==
  ASSUME TypeOK, NEW how \in {"clean", "timeout", "raised", "crash"}, End(how)
  PROVE  TypeOK'
<1>1. AppTypeOK' /\ LibTypeOK' /\ HistTypeOK'
  BY ConstantsAssumption
  DEF End, TypeOK, AppTypeOK, LibTypeOK, HistTypeOK, ConstantsAssumption
<1>2. QueueTypeOK'
  BY EmptySeq DEF End, QueueTypeOK
<1> QED BY <1>1, <1>2 DEF TypeOK

\* A torrent that enters the session keeps the types of libtorrent's state.
LEMMA TypeEnter ==
  ASSUME TypeOK, NEW h \in Torrents, NEW p \in 0..Full, Enter(h, p)
  PROVE  /\ adds[h] + 1 \in Nat
         /\ live' \in [Torrents -> Nat] /\ adds' \in [Torrents -> Nat]
         /\ progress' \in [Torrents -> 0..Full]
         /\ atTick' \in [Torrents -> 0..Full]
BY ConstantsAssumption
DEF Enter, TypeOK, LibTypeOK, HistTypeOK, ConstantsAssumption

\* A restore that succeeds keeps the types, when the torrent still has the
\* file its progress comes from.
LEMMA TypeNetRestoreOk ==
  ASSUME TypeOK, NetRestoreOk, disk[Head(cmds).h] # NoFile
  PROVE  TypeOK'
<1> DEFINE h == Head(cmds).h
           a == Added(h, adds[h] + 1, TRUE)
           f == Finished(h, adds[h] + 1, "reconfirm")
<1>1. h \in Torrents /\ cmds' \in Seq(Cmd)
  BY HeadCmd DEF NetRestoreOk
<1>2. disk[h] \in 0..Full /\ adds[h] + 1 \in Nat
  BY <1>1, ConstantsAssumption
  DEF TypeOK, HistTypeOK, LibTypeOK, NoFile, ConstantsAssumption
<1>3. /\ alerts' \in Seq(Alert)
      /\ Len(alerts') \in Nat
      /\ Len(alerts) <= Len(alerts')
  <2>1. a \in Alert /\ f \in Alert
    BY <1>1, <1>2, AlertTypes
  <2>2. alerts \in Seq(Alert) /\ Len(alerts) \in Nat
    BY DEF TypeOK, QueueTypeOK
  <2>3. alerts' \in {Append(alerts, a), Append(Append(alerts, a), f)}
    BY DEF NetRestoreOk
  <2> HIDE DEF a, f
  <2> QED BY <2>1, <2>2, <2>3, Post
<1>4. QueueTypeOK'
  <2>1. /\ popped' = popped
        /\ popped \in Nat
        /\ popped <= Len(alerts)
        /\ Len(alerts) \in Nat
    BY DEF TypeOK, QueueTypeOK, NetRestoreOk, LibUnchanged
  <2> QED BY <1>1, <1>3, <2>1 DEF QueueTypeOK
<1>5. LibTypeOK' /\ atTick' \in [Torrents -> 0..Full]
  BY <1>1, <1>2, TypeEnter DEF TypeOK, LibTypeOK, NetRestoreOk
<1> QED
  BY <1>4, <1>5 DEF TypeOK, AppTypeOK, HistTypeOK, NetRestoreOk, LibUnchanged

\* A restore that starts over keeps the types.
LEMMA TypeNetRestoreRechecked ==
  ASSUME TypeOK, NetRestoreRechecked PROVE TypeOK'
<1> DEFINE h == Head(cmds).h
<1>1. h \in Torrents /\ cmds' \in Seq(Cmd)
  BY HeadCmd DEF NetRestoreRechecked
<1>2. adds[h] + 1 \in Nat /\ 0 \in 0..Full
  BY <1>1, ConstantsAssumption DEF TypeOK, LibTypeOK, ConstantsAssumption
<1>3. QueueTypeOK'
  BY <1>1, <1>2, AlertTypes, QueuesPosted
  DEF TypeOK, NetRestoreRechecked, LibUnchanged
<1>4. LibTypeOK' /\ atTick' \in [Torrents -> 0..Full]
  BY <1>1, <1>2, TypeEnter DEF TypeOK, LibTypeOK, NetRestoreRechecked
<1> QED
  BY <1>3, <1>4 DEF TypeOK, AppTypeOK, HistTypeOK, NetRestoreRechecked,
                    LibUnchanged

\* A refused restore keeps the types.
LEMMA TypeNetRestoreRefused ==
  ASSUME TypeOK, NetRestoreRefused PROVE TypeOK'
<1>1. Head(cmds).h \in Torrents /\ cmds' \in Seq(Cmd)
  BY HeadCmd DEF NetRestoreRefused
<1>2. QueueTypeOK'
  BY <1>1, AlertTypes, QueuesPosted DEF TypeOK, NetRestoreRefused, LibUnchanged
<1> QED
  BY <1>2 DEF TypeOK, AppTypeOK, LibTypeOK, HistTypeOK, NetRestoreRefused,
              LibUnchanged

\* Answering a call of add_torrent() leaves a set of calls.
LEMMA TypeAnswer ==
  ASSUME TypeOK, NEW t, NEW stage \in {"ok", "dup"}, NEW inc \in Nat,
         Answer(t, stage, inc)
  PROVE  calls' \subseteq Call
BY DEF Answer, TypeOK, AppTypeOK, Call

\* The add of a torrent that is not in the session keeps the types.
LEMMA TypeNetAddNew ==
  ASSUME TypeOK, NetAddNew PROVE TypeOK'
<1> DEFINE h == Head(cmds).h
<1>1. h \in Torrents /\ cmds' \in Seq(Cmd)
  BY HeadCmd DEF NetAddNew
<1>2. adds[h] + 1 \in Nat /\ 0 \in 0..Full
  BY <1>1, ConstantsAssumption DEF TypeOK, LibTypeOK, ConstantsAssumption
<1>3. QueueTypeOK'
  BY <1>1, <1>2, AlertTypes, QueuesPosted DEF TypeOK, NetAddNew, LibUnchanged
<1>4. LibTypeOK' /\ atTick' \in [Torrents -> 0..Full]
  BY <1>1, <1>2, TypeEnter DEF TypeOK, LibTypeOK, NetAddNew
<1>5. calls' \subseteq Call
  BY <1>2, TypeAnswer DEF NetAddNew
<1> QED
  BY <1>3, <1>4, <1>5
  DEF TypeOK, AppTypeOK, HistTypeOK, NetAddNew, LibUnchanged

\* The add of a torrent that is in the session keeps the types.
LEMMA TypeNetAddDuplicate ==
  ASSUME TypeOK, NetAddDuplicate PROVE TypeOK'
<1> DEFINE c == Head(cmds)
<1>1. /\ c \in Cmd
      /\ c.h \in Torrents
      /\ cmds' \in Seq(Cmd)
      /\ c.strict \in BOOLEAN
  BY HeadCmd DEF NetAddDuplicate, Cmd
<1>2. live[c.h] \in Nat
  BY <1>1 DEF TypeOK, LibTypeOK
<1>3. QueueTypeOK'
  <2>1. (IF c.strict THEN 0 ELSE live[c.h]) \in Nat /\ (~c.strict) \in BOOLEAN
    BY <1>1, <1>2
  <2> QED
    BY <1>1, <2>1, AlertTypes, QueuesPosted
    DEF TypeOK, NetAddDuplicate, LibUnchanged
<1>4. calls' \subseteq Call
  BY <1>2, TypeAnswer DEF NetAddDuplicate
<1> QED
  BY <1>3, <1>4 DEF TypeOK, AppTypeOK, LibTypeOK, HistTypeOK, NetAddDuplicate,
                    LibUnchanged

\* The removal by the network thread keeps the types.
LEMMA TypeNetRemove ==
  ASSUME TypeOK, NetRemove PROVE TypeOK'
<1> DEFINE c == Head(cmds)
<1>1. c.h \in Torrents /\ c.inc \in Nat /\ cmds' \in Seq(Cmd)
  BY HeadCmd DEF NetRemove, Cmd
<1>2. QueueTypeOK'
  BY <1>1, AlertTypes, QueuesPosted DEF TypeOK, NetRemove, LibUnchanged
<1>3. LibTypeOK'
  <2>1. 0 \in 0..Full
    BY ConstantsAssumption DEF ConstantsAssumption
  <2>2. CASE live[c.h] = c.inc
    <3>1. /\ live' = [live EXCEPT ![c.h] = 0]
          /\ progress' = [progress EXCEPT ![c.h] = 0]
          /\ dirty' = [dirty EXCEPT ![c.h] = FALSE]
          /\ adds' = adds
      BY <2>2 DEF NetRemove
    <3> QED BY <1>1, <2>1, <3>1 DEF TypeOK, LibTypeOK
  <2>3. CASE live[c.h] # c.inc
    BY <2>3 DEF TypeOK, LibTypeOK, NetRemove
  <2> QED BY <2>2, <2>3
<1> QED
  BY <1>2, <1>3 DEF TypeOK, AppTypeOK, HistTypeOK, NetRemove, LibUnchanged

\* The answer to a save request keeps the types.
LEMMA TypeNetSave ==
  ASSUME TypeOK, NetSave PROVE TypeOK'
<1> DEFINE c == Head(cmds)
<1>1. c.h \in Torrents /\ c.inc \in Nat /\ cmds' \in Seq(Cmd)
  BY HeadCmd DEF NetSave, Cmd
<1>2. progress[c.h] \in 0..Full
  BY <1>1 DEF TypeOK, LibTypeOK
<1>3. QueueTypeOK'
  BY <1>1, <1>2, AlertTypes, QueuesPosted DEF TypeOK, NetSave, LibUnchanged
<1>4. LibTypeOK'
  BY <1>1 DEF TypeOK, LibTypeOK, NetSave
<1> QED
  BY <1>3, <1>4 DEF TypeOK, AppTypeOK, HistTypeOK, NetSave, LibUnchanged

\* Progress of a download keeps the types: it stops at Full.
LEMMA TypeDownload ==
  ASSUME TypeOK, NEW h \in Torrents, Download(h) PROVE TypeOK'
<1>1. live[h] \in Nat /\ cmds' \in Seq(Cmd)
  BY DEF TypeOK, LibTypeOK, QueueTypeOK, Download
<1>2. QueueTypeOK'
  BY <1>1, AlertTypes, QueuesPosted DEF TypeOK, Download, LibUnchanged
<1>3. LibTypeOK'
  BY ConstantsAssumption DEF TypeOK, LibTypeOK, Download, ConstantsAssumption
<1> QED
  BY <1>2, <1>3 DEF TypeOK, AppTypeOK, HistTypeOK, Download, LibUnchanged

\* A handler is given an alert of its own kind, about a known torrent.
LEMMA PoppedAlert ==
  ASSUME TypeOK, NEW kind, NextAlert(kind)
  PROVE  /\ QueueTypeOK' /\ LibTypeOK'
         /\ alerts # <<>> /\ Head(alerts) \in Alert
         /\ Head(alerts).h \in Torrents /\ Head(alerts).kind = kind
BY QueuesPopped DEF NextAlert, TypeOK, LibTypeOK

\* _on_torrent_added keeps the types.
LEMMA TypeOnTorrentAdded ==
  ASSUME TypeOK, OnTorrentAdded PROVE TypeOK'
<1> DEFINE a == Head(alerts)
<1>1. a \in Alert /\ a.kind = "added" /\ QueueTypeOK' /\ LibTypeOK'
  BY PoppedAlert DEF OnTorrentAdded
<1>2. a.h \in Torrents /\ a.inc \in Nat
  BY <1>1 DEF Alert
<1>3. AppTypeOK'
  BY <1>2 DEF OnTorrentAdded, NextAlert, StillPending, BindRestored,
              RefuseRestored, TypeOK, AppTypeOK
<1>4. HistTypeOK'
  BY <1>2 DEF OnTorrentAdded, NextAlert, BindRestored, RefuseRestored, TypeOK,
              HistTypeOK
<1> QED BY <1>1, <1>3, <1>4 DEF TypeOK

\* _on_torrent_finished keeps the types.
LEMMA TypeOnTorrentFinished ==
  ASSUME TypeOK, OnTorrentFinished PROVE TypeOK'
<1> DEFINE a == Head(alerts)
<1>1. a \in Alert /\ a.kind = "finished" /\ QueueTypeOK' /\ LibTypeOK'
  BY PoppedAlert DEF OnTorrentFinished
<1>2. a.why \in {"done", "reconfirm"}
  BY <1>1 DEF Alert
<1>3. AppTypeOK'
  BY DEF OnTorrentFinished, NextAlert, TypeOK, AppTypeOK
<1>4. HistTypeOK'
  BY <1>2 DEF OnTorrentFinished, NextAlert, TypeOK, HistTypeOK
<1> QED BY <1>1, <1>3, <1>4 DEF TypeOK

\* The handlers of a save's answer keep the types.
LEMMA TypeOnSaves ==
  ASSUME TypeOK, OnSaveResumeData \/ OnSaveFailed PROVE TypeOK'
<1> DEFINE a == Head(alerts)
<1>1. /\ a \in Alert
      /\ a.kind \in {"saved", "saveFailed"}
      /\ QueueTypeOK'
      /\ LibTypeOK'
  BY PoppedAlert DEF OnSaveResumeData, OnSaveFailed
<1>2. a.kind = "saved" => a.h \in Torrents /\ a.p \in NoFile..Full
  BY <1>1, ConstantsAssumption DEF Alert, NoFile, ConstantsAssumption
<1>3. AppTypeOK'
  BY DEF OnSaveResumeData, OnSaveFailed, NextAlert, TypeOK, AppTypeOK
<1>4. HistTypeOK'
  BY <1>2 DEF OnSaveResumeData, OnSaveFailed, NextAlert, TypeOK, HistTypeOK
<1> QED BY <1>1, <1>3, <1>4 DEF TypeOK

\* _on_torrent_removed keeps the types.
LEMMA TypeOnTorrentRemoved ==
  ASSUME TypeOK, OnTorrentRemoved PROVE TypeOK'
<1>1. Head(alerts).h \in Torrents /\ QueueTypeOK' /\ LibTypeOK'
  BY PoppedAlert DEF OnTorrentRemoved
<1>2. NoFile \in NoFile..Full
  BY ConstantsAssumption DEF NoFile, ConstantsAssumption
<1>3. AppTypeOK'
  BY <1>1 DEF OnTorrentRemoved, NextAlert, Forget, TypeOK, AppTypeOK
<1>4. HistTypeOK'
  BY <1>1, <1>2 DEF OnTorrentRemoved, NextAlert, Forget, TypeOK, HistTypeOK
<1> QED BY <1>1, <1>3, <1>4 DEF TypeOK

\* The alerts shutdown() handles itself keep the types.
LEMMA TypeShutdownAlerts ==
  ASSUME TypeOK, ShutdownSaved \/ ShutdownSaveFailed \/ ShutdownIgnored
  PROVE  TypeOK'
<1> DEFINE a == Head(alerts)
<1>1. /\ popped > 0 /\ cmds' = cmds /\ alerts' = Tail(alerts)
      /\ popped' = popped - 1
  BY DEF ShutdownSaved, ShutdownSaveFailed, ShutdownIgnored, NextPopped,
         ShutdownUnchanged
<1>2. QueueTypeOK' /\ a \in Alert
  BY <1>1, QueuesPopped DEF TypeOK
<1>3. a.kind = "saved" => a.h \in Torrents /\ a.p \in NoFile..Full
  BY <1>2, ConstantsAssumption DEF Alert, NoFile, ConstantsAssumption
<1>4. AppTypeOK' /\ LibTypeOK'
  BY DEF ShutdownSaved, ShutdownSaveFailed, ShutdownIgnored, ShutdownUnchanged,
         TypeOK, AppTypeOK, LibTypeOK
<1>5. HistTypeOK'
  BY <1>3 DEF ShutdownSaved, ShutdownSaveFailed, ShutdownIgnored, NextPopped,
              ShutdownUnchanged, hist, TypeOK, HistTypeOK
<1> QED BY <1>2, <1>4, <1>5 DEF TypeOK

-----------------------------------------------------------------------------
(* Sequences that grow at the end                                          *)

\* An element of a concatenation is an element of one of its parts, at the
\* place that part gives it.
LEMMA Concat ==
  ASSUME NEW S, NEW p \in Seq(S), NEW q \in Seq(S)
  PROVE  /\ p \o q \in Seq(S) /\ Len(p) \in Nat /\ Len(q) \in Nat
         /\ DOMAIN p = 1..Len(p) /\ DOMAIN q = 1..Len(q)
         /\ DOMAIN (p \o q) = 1..(Len(p) + Len(q))
         /\ \A i \in 1..Len(p) : (p \o q)[i] = p[i]
         /\ \A i \in 1..Len(q) : (p \o q)[Len(p) + i] = q[i]
         /\ \A i \in DOMAIN (p \o q) :
                \/ i \in DOMAIN p /\ (p \o q)[i] = p[i]
                \/ i - Len(p) \in DOMAIN q /\ (p \o q)[i] = q[i - Len(p)]
BY ConcatProperties, LenProperties

\* Appending one element is concatenating a sequence of length one.
LEMMA OneMore ==
  ASSUME NEW S, NEW q \in Seq(S), NEW e \in S
  PROVE  /\ <<e>> \in Seq(S)
         /\ Append(q, e) = q \o <<e>>
         /\ \A i \in DOMAIN <<e>> : <<e>>[i] = e
         /\ 1 \in DOMAIN <<e>>
<1>1. <<e>> \in Seq(S)
  OBVIOUS
<1>2. Append(q, e) = q \o <<e>>
  BY AppendIsConcat
<1>3. \A i \in DOMAIN <<e>> : <<e>>[i] = e
  OBVIOUS
<1>4. 1 \in DOMAIN <<e>>
  OBVIOUS
<1> QED BY <1>1, <1>2, <1>3, <1>4

\* Appending two elements is concatenating a sequence of length two.
LEMMA TwoMore ==
  ASSUME NEW S, NEW q \in Seq(S), NEW d \in S, NEW e \in S
  PROVE  /\ <<d, e>> \in Seq(S)
         /\ Append(Append(q, d), e) = q \o <<d, e>>
         /\ DOMAIN <<d, e>> = {1, 2} /\ <<d, e>>[1] = d /\ <<d, e>>[2] = e
<1>1. <<d>> \in Seq(S) /\ <<e>> \in Seq(S) /\ q \o <<d>> \in Seq(S)
  BY OneMore, ConcatProperties
<1>2. Append(Append(q, d), e) = (q \o <<d>>) \o <<e>>
  <2>1. Append(q, d) = q \o <<d>>
    BY OneMore
  <2> QED BY <1>1, <2>1, OneMore
<1>3. (q \o <<d>>) \o <<e>> = q \o (<<d>> \o <<e>>)
  BY <1>1, ConcatAssociative
<1>4. <<d>> \o <<e>> = <<d, e>>
  <2>1. <<d, e>> \in Seq(S) /\ Len(<<d, e>>) = 2
    OBVIOUS
  <2>2. /\ <<d>> \o <<e>> \in Seq(S) /\ Len(<<d>> \o <<e>>) = 2
        /\ (<<d>> \o <<e>>)[1] = d /\ (<<d>> \o <<e>>)[2] = e
    BY <1>1, ConcatProperties
  <2>3. \A i \in 1..2 : (<<d>> \o <<e>>)[i] = <<d, e>>[i]
    BY <2>2
  <2> QED BY <2>1, <2>2, <2>3, SeqEqual
<1>5. <<d, e>> \in Seq(S)
  OBVIOUS
<1>6. DOMAIN <<d, e>> = {1, 2} /\ <<d, e>>[1] = d /\ <<d, e>>[2] = e
  OBVIOUS
<1> QED BY <1>2, <1>3, <1>4, <1>5, <1>6

\* Appending nothing is concatenating the empty sequence.
LEMMA NoneMore ==
  ASSUME NEW S, NEW q \in Seq(S)
  PROVE  <<>> \in Seq(S) /\ q = q \o <<>> /\ DOMAIN <<>> = {}
BY ConcatEmptySeq, EmptySeq

-----------------------------------------------------------------------------
(* What keeps the bookkeeping                                              *)

\* A step that touches neither the queues nor the files, and does not leave
\* shutdown(), keeps the bookkeeping.
LEMMA QuietKeeps ==
  ASSUME IInv, gui # "off", gui' # "off", gui = "saving" => gui' = "saving",
         UNCHANGED <<live, cmds, alerts, disk, restoreConfirm, pendingRestore,
                     removedByUser, raced, finishLog>>
  PROVE  Bookkeeping'
<1> USE DEF IInv, Bookkeeping
<1>1. OffIsEmpty'
  BY DEF OffIsEmpty
<1>2. RestoresFirst' /\ UntouchedUntilRestored' /\ RemovalsMeant'
  BY DEF RestoresFirst, UntouchedUntilRestored, RemovalsMeant
<1>3. ReconfirmFirst' /\ ReconfirmExpected' /\ NoSpuriousFinish'
  BY DEF ReconfirmFirst, ReconfirmExpected, NoSpuriousFinish
<1>4. PendingIsAnswerable'
  BY DEF PendingIsAnswerable
<1> QED BY <1>1, <1>2, <1>3, <1>4

\* Requests other than restores, posted behind what is queued, keep the
\* bookkeeping; a removal among them must be one the user asked for.
LEMMA RequestKeeps ==
  ASSUME IInv, gui # "off", gui' \in {gui, "saving"},
         NEW s \in Seq(Cmd), cmds' = cmds \o s,
         \A i \in DOMAIN s : ~IsRestore(s[i]),
         \A i \in DOMAIN s :
             s[i].op = "remove" => s[i].h \in removedByUser' \cup raced',
         \A h \in removedByUser \cup raced :
             RemovalInFlight(h) => h \in removedByUser' \cup raced',
         UNCHANGED <<live, alerts, disk, restoreConfirm, pendingRestore,
                     finishLog>>
  PROVE  Bookkeeping'
<1> USE DEF IInv, Bookkeeping
<1>1. cmds \in Seq(Cmd)
  BY DEF TypeOK, QueueTypeOK
<1>2. /\ Len(cmds) \in Nat /\ DOMAIN cmds = 1..Len(cmds)
      /\ \A i \in DOMAIN cmds : i \in DOMAIN cmds' /\ cmds'[i] = cmds[i]
      /\ \A i \in DOMAIN cmds' :
             \/ i \in DOMAIN cmds /\ cmds'[i] = cmds[i]
             \/ \E k \in DOMAIN s : cmds'[i] = s[k]
  BY <1>1, Concat
<1>3. \A i \in DOMAIN cmds' :
          IsRestore(cmds'[i]) => i \in DOMAIN cmds /\ cmds'[i] = cmds[i]
  BY <1>2
<1>4. OffIsEmpty'
  BY DEF OffIsEmpty
<1>5. RestoresFirst'
  BY <1>2, <1>3 DEF RestoresFirst
<1>6. UntouchedUntilRestored'
  BY <1>3 DEF UntouchedUntilRestored
<1>7. ReconfirmFirst' /\ ReconfirmExpected' /\ NoSpuriousFinish'
  BY DEF ReconfirmFirst, ReconfirmExpected, NoSpuriousFinish
<1>8. RemovalsMeant'
  BY <1>2 DEF RemovalsMeant, RemovalInFlight
<1>9. PendingIsAnswerable'
  BY <1>2 DEF PendingIsAnswerable
<1> QED BY <1>4, <1>5, <1>6, <1>7, <1>8, <1>9

\* The network thread keeps the bookkeeping when it services the first
\* request, answers about that torrent alone, answers a restore with an added
\* alert, and reconfirms a torrent only in answer to its restore.
LEMMA NetKeeps ==
  ASSUME IInv, cmds # <<>>, cmds' = Tail(cmds),
         NEW s \in Seq(Alert), alerts' = alerts \o s,
         \A i \in DOMAIN s : s[i].h = Head(cmds).h,
         \A i \in DOMAIN s : s[i].kind = "removed" => Head(cmds).op = "remove",
         IsRestore(Head(cmds)) => \E i \in DOMAIN s : s[i].kind = "added",
         \A j \in DOMAIN s : IsReconfirm(s[j]) =>
             /\ IsRestore(Head(cmds)) /\ disk[Head(cmds).h] = Full
             /\ \A i \in 1..(j - 1) : s[i].kind = "added" /\ s[i].ok,
         \A h \in Torrents \ {Head(cmds).h} : live'[h] = live[h],
         UNCHANGED <<gui, disk, restoreConfirm, pendingRestore, removedByUser,
                     raced, finishLog>>
  PROVE  Bookkeeping'
<1> USE DEF IInv, Bookkeeping
<1> DEFINE c == Head(cmds)
<1>1. cmds \in Seq(Cmd) /\ alerts \in Seq(Alert)
  BY DEF TypeOK, QueueTypeOK
<1>2. /\ c = cmds[1] /\ c \in Cmd /\ 1 \in DOMAIN cmds
      /\ DOMAIN cmds = 1..Len(cmds) /\ DOMAIN cmds' = 1..Len(cmds')
      /\ Len(cmds) \in Nat /\ Len(cmds') = Len(cmds) - 1
      /\ \A i \in DOMAIN cmds' : i + 1 \in DOMAIN cmds /\ cmds'[i] = cmds[i + 1]
  BY <1>1, QueueTail, LenProperties
<1>3. /\ Len(alerts) \in Nat /\ DOMAIN alerts = 1..Len(alerts)
      /\ DOMAIN s = 1..Len(s) /\ Len(s) \in Nat
      /\ \A i \in DOMAIN alerts : i \in DOMAIN alerts' /\ alerts'[i] = alerts[i]
      /\ \A i \in DOMAIN s :
             i + Len(alerts) \in DOMAIN alerts' /\ alerts'[Len(alerts) + i] = s[i]
      /\ \A i \in DOMAIN alerts' :
             \/ i \in DOMAIN alerts /\ alerts'[i] = alerts[i]
             \/ i - Len(alerts) \in DOMAIN s /\ alerts'[i] = s[i - Len(alerts)]
  BY <1>1, Concat
<1>4. \A i \in DOMAIN cmds' :
          IsRestore(cmds'[i]) => /\ i + 1 \in DOMAIN cmds
                                 /\ IsRestore(cmds[i + 1])
                                 /\ cmds[i + 1].h # c.h
                                 /\ IsRestore(c)
  BY <1>2 DEF RestoresFirst
<1>5. OffIsEmpty'
  BY DEF OffIsEmpty
<1>6. RestoresFirst'
  <2> SUFFICES ASSUME NEW j \in DOMAIN cmds', IsRestore(cmds'[j]),
                      NEW i \in 1..(j - 1)
               PROVE  IsRestore(cmds'[i]) /\ cmds'[i].h # cmds'[j].h
    BY DEF RestoresFirst
  <2>1. j \in Nat /\ i \in DOMAIN cmds' /\ i + 1 \in 1..((j + 1) - 1)
    BY <1>2
  <2>2. IsRestore(cmds[i + 1]) /\ cmds[i + 1].h # cmds[j + 1].h
    BY <1>4, <1>2, <2>1 DEF RestoresFirst
  <2> QED BY <1>2, <2>1, <2>2
<1>7. UntouchedUntilRestored'
  <2> SUFFICES ASSUME NEW i \in DOMAIN cmds', IsRestore(cmds'[i])
               PROVE  LET h == cmds'[i].h IN
                      /\ live'[h] = 0
                      /\ disk'[h] # NoFile
                      /\ disk'[h] = Full => h \in restoreConfirm'
                      /\ \A k \in DOMAIN alerts' : alerts'[k].h # h
    BY DEF UntouchedUntilRestored
  <2> DEFINE h == cmds'[i].h
  <2>1. /\ i + 1 \in DOMAIN cmds
        /\ IsRestore(cmds[i + 1])
        /\ h = cmds[i + 1].h
        /\ h # c.h
    BY <1>2, <1>4
  <2>2. /\ live[h] = 0 /\ disk[h] # NoFile
        /\ disk[h] = Full => h \in restoreConfirm
        /\ \A k \in DOMAIN alerts : alerts[k].h # h
    BY <2>1 DEF UntouchedUntilRestored
  <2>3. h \in Torrents
    BY <1>1, <2>1, ElementOfSeq, LenProperties DEF Cmd
  <2>4. \A k \in DOMAIN alerts' : alerts'[k].h # h
    BY <1>3, <2>1, <2>2
  <2> QED BY <2>1, <2>2, <2>3, <2>4
<1>8. ReconfirmFirst'
  <2> SUFFICES ASSUME NEW j \in DOMAIN alerts', IsReconfirm(alerts'[j]),
                      NEW i \in 1..(j - 1), alerts'[i].h = alerts'[j].h
               PROVE  alerts'[i].kind = "added" /\ alerts'[i].ok
    BY DEF ReconfirmFirst
  <2>1. i \in DOMAIN alerts'
    BY <1>3, <1>1, Concat
  <2>2. CASE j \in DOMAIN alerts
    BY <1>3, <2>2 DEF ReconfirmFirst
  <2>3. CASE j \notin DOMAIN alerts
    <3>1. j - Len(alerts) \in DOMAIN s /\ alerts'[j] = s[j - Len(alerts)]
      BY <1>3, <2>3
    <3>2. IsRestore(c) /\ alerts'[j].h = c.h
      BY <3>1
    <3>3. \A k \in DOMAIN alerts : alerts[k].h # c.h
      <4>1. 1 \in DOMAIN cmds /\ IsRestore(cmds[1]) /\ cmds[1].h = c.h
        BY <1>2, <3>2
      <4> QED BY <4>1 DEF UntouchedUntilRestored
    <3>4. i - Len(alerts) \in DOMAIN s /\ alerts'[i] = s[i - Len(alerts)]
      BY <1>3, <2>1, <3>2, <3>3
    <3>5. i - Len(alerts) \in 1..((j - Len(alerts)) - 1)
      BY <1>3, <3>1, <3>4
    <3> QED BY <3>1, <3>4, <3>5
  <2> QED BY <2>2, <2>3
<1>9. ReconfirmExpected'
  <2>1. IsRestore(c) /\ disk[c.h] = Full => c.h \in restoreConfirm
    BY <1>2 DEF UntouchedUntilRestored
  <2> QED BY <1>3, <2>1 DEF ReconfirmExpected
<1>10. RemovalsMeant'
  BY <1>2, <1>3 DEF RemovalsMeant
<1>11. PendingIsAnswerable'
  <2> SUFFICES ASSUME gui # "saving", NEW h \in pendingRestore
               PROVE  \/ \E i \in DOMAIN cmds' :
                             cmds'[i].op = "restore" /\ cmds'[i].h = h
                      \/ \E i \in DOMAIN alerts' :
                             alerts'[i].kind = "added" /\ alerts'[i].h = h
    BY DEF PendingIsAnswerable
  <2>1. CASE \E i \in DOMAIN alerts : alerts[i].kind = "added" /\ alerts[i].h = h
    BY <1>3, <2>1
  <2>2. CASE \E i \in DOMAIN cmds : cmds[i].op = "restore" /\ cmds[i].h = h
    <3>1. PICK i \in DOMAIN cmds : cmds[i].op = "restore" /\ cmds[i].h = h
      BY <2>2
    <3>2. CASE i = 1
      BY <1>2, <1>3, <3>1, <3>2 DEF IsRestore
    <3>3. CASE i # 1
      <4>1. i - 1 \in DOMAIN cmds' /\ cmds'[i - 1] = cmds[i]
        BY <1>2, <3>3
      <4> QED BY <3>1, <4>1
    <3> QED BY <3>2, <3>3
  <2> QED BY <2>1, <2>2 DEF PendingIsAnswerable
<1>12. NoSpuriousFinish'
  BY DEF NoSpuriousFinish
<1> QED BY <1>5, <1>6, <1>7, <1>8, <1>9, <1>10, <1>11, <1>12

\* A handler keeps the bookkeeping when it takes the first alert, touches the
\* files and expectations of that torrent alone, and settles its restore only
\* on an added alert.
LEMMA HandlerKeeps ==
  ASSUME IInv, alerts # <<>>, alerts' = Tail(alerts),
         UNCHANGED <<gui, cmds, live, removedByUser, raced>>,
         calls' \subseteq calls,
         \A h \in Torrents \ {Head(alerts).h} : disk'[h] = disk[h],
         restoreConfirm \ {Head(alerts).h} \subseteq restoreConfirm',
         (/\ Head(alerts).kind = "added" /\ Head(alerts).ok
          /\ Head(alerts).h \in restoreConfirm)
             => Head(alerts).h \in restoreConfirm',
         pendingRestore' \subseteq pendingRestore,
         gui # "saving" /\ Head(alerts).kind = "added"
             => Head(alerts).h \notin pendingRestore',
         NoSpuriousFinish'
  PROVE  Bookkeeping'
<1> USE DEF IInv, Bookkeeping
<1> DEFINE a == Head(alerts)
<1>1. cmds \in Seq(Cmd) /\ alerts \in Seq(Alert)
  BY DEF TypeOK, QueueTypeOK
<1>2. /\ a = alerts[1] /\ 1 \in DOMAIN alerts
      /\ DOMAIN alerts = 1..Len(alerts) /\ DOMAIN alerts' = 1..Len(alerts')
      /\ Len(alerts) \in Nat /\ Len(alerts') = Len(alerts) - 1
      /\ \A i \in DOMAIN alerts' :
             i + 1 \in DOMAIN alerts /\ alerts'[i] = alerts[i + 1]
  BY <1>1, QueueTail, LenProperties
<1>3. OffIsEmpty'
  BY DEF OffIsEmpty
<1>4. RestoresFirst'
  BY DEF RestoresFirst
<1>5. UntouchedUntilRestored'
  <2> SUFFICES ASSUME NEW i \in DOMAIN cmds, IsRestore(cmds[i])
               PROVE  LET h == cmds[i].h IN
                      /\ live[h] = 0
                      /\ disk'[h] # NoFile
                      /\ disk'[h] = Full => h \in restoreConfirm'
                      /\ \A k \in DOMAIN alerts' : alerts'[k].h # h
    BY DEF UntouchedUntilRestored
  <2> DEFINE h == cmds[i].h
  <2>1. /\ live[h] = 0 /\ disk[h] # NoFile
        /\ disk[h] = Full => h \in restoreConfirm
        /\ \A k \in DOMAIN alerts : alerts[k].h # h
    BY DEF UntouchedUntilRestored
  <2>2. h \in Torrents /\ h # a.h
    BY <1>1, <1>2, <2>1, ElementOfSeq, LenProperties DEF Cmd
  <2> QED BY <1>2, <2>1, <2>2
<1>6. ReconfirmFirst'
  <2> SUFFICES ASSUME NEW j \in DOMAIN alerts', IsReconfirm(alerts'[j]),
                      NEW i \in 1..(j - 1), alerts'[i].h = alerts'[j].h
               PROVE  alerts'[i].kind = "added" /\ alerts'[i].ok
    BY DEF ReconfirmFirst
  <2>1. i \in DOMAIN alerts' /\ i + 1 \in 1..((j + 1) - 1)
    BY <1>2
  <2> QED BY <1>2, <2>1 DEF ReconfirmFirst
<1>7. ReconfirmExpected'
  <2> SUFFICES ASSUME NEW j \in DOMAIN alerts', IsReconfirm(alerts'[j])
               PROVE  alerts'[j].h \in restoreConfirm'
    BY DEF ReconfirmExpected
  <2>1. /\ j + 1 \in DOMAIN alerts /\ alerts'[j] = alerts[j + 1]
        /\ IsReconfirm(alerts[j + 1]) /\ 1 \in 1..((j + 1) - 1)
    BY <1>2
  <2>2. alerts'[j].h \in restoreConfirm
    BY <2>1 DEF ReconfirmExpected
  <2>3. alerts'[j].h = a.h => a.kind = "added" /\ a.ok
    BY <1>2, <2>1 DEF ReconfirmFirst
  <2> QED BY <2>2, <2>3
<1>8. RemovalsMeant'
  BY <1>2 DEF RemovalsMeant
<1>9. PendingIsAnswerable'
  <2> SUFFICES ASSUME gui # "saving", NEW h \in pendingRestore'
               PROVE  \/ \E i \in DOMAIN cmds :
                             cmds[i].op = "restore" /\ cmds[i].h = h
                      \/ \E i \in DOMAIN alerts' :
                             alerts'[i].kind = "added" /\ alerts'[i].h = h
    BY DEF PendingIsAnswerable
  <2>1. CASE \E i \in DOMAIN cmds : cmds[i].op = "restore" /\ cmds[i].h = h
    BY <2>1
  <2>2. CASE \E i \in DOMAIN alerts : alerts[i].kind = "added" /\ alerts[i].h = h
    <3>1. PICK i \in DOMAIN alerts : alerts[i].kind = "added" /\ alerts[i].h = h
      BY <2>2
    <3>2. i # 1
      BY <1>2, <3>1
    <3>3. i - 1 \in DOMAIN alerts' /\ alerts'[i - 1] = alerts[i]
      BY <1>2, <3>2
    <3> QED BY <3>1, <3>3
  <2> QED BY <2>1, <2>2 DEF PendingIsAnswerable
<1> QED BY <1>3, <1>4, <1>5, <1>6, <1>7, <1>8, <1>9

-----------------------------------------------------------------------------
(* The actions                                                             *)

\* The end of the process keeps the bookkeeping: nothing of it survives.
LEMMA EndKeeps ==
  ASSUME NEW how, End(how) PROVE Bookkeeping'
<1> USE DEF End
<1>1. OffIsEmpty'
  BY DEF OffIsEmpty
<1>2. RestoresFirst' /\ UntouchedUntilRestored' /\ RemovalsMeant'
  BY DEF RestoresFirst, UntouchedUntilRestored, RemovalsMeant
<1>3. ReconfirmFirst' /\ ReconfirmExpected' /\ NoSpuriousFinish'
  BY DEF ReconfirmFirst, ReconfirmExpected, NoSpuriousFinish
<1>4. PendingIsAnswerable'
  BY DEF PendingIsAnswerable
<1> QED BY <1>1, <1>2, <1>3, <1>4 DEF Bookkeeping

\* A launch establishes the bookkeeping for the restores it queues.
LEMMA LaunchKeeps ==
  ASSUME IInv, Launch PROVE Bookkeeping'
<1> USE DEF IInv, Bookkeeping
<1> DEFINE saved == {h \in Torrents : disk[h] # NoFile}
           n == Cardinality(saved)
<1>1. PICK order \in Orders(saved) :
          cmds' = [i \in 1..n |-> [op |-> "restore", h |-> order[i]]]
  BY DEF Launch
<1>2. /\ n \in Nat
      /\ order \in [1..n -> saved]
      /\ \A i, j \in 1..n : i # j => order[i] # order[j]
      /\ \A h \in saved : \E i \in 1..n : order[i] = h
  BY Ordered
<1>3. /\ DOMAIN cmds' = 1..n
      /\ \A i \in 1..n : cmds'[i].op = "restore" /\ cmds'[i].h = order[i]
  BY <1>1
<1>4. /\ alerts = <<>> /\ alerts' = <<>> /\ live' = live /\ disk' = disk
      /\ \A h \in Torrents : live[h] = 0
      /\ gui' = "idle" /\ finishLog' = finishLog
      /\ pendingRestore' = saved
      /\ restoreConfirm' = {h \in saved : disk[h] = Full}
  BY DEF Launch, ConfirmExpected, OffIsEmpty
<1> HIDE DEF n, saved
<1>5. OffIsEmpty'
  BY <1>4 DEF OffIsEmpty
<1>6. RestoresFirst'
  BY <1>2, <1>3 DEF RestoresFirst, IsRestore
<1>7. UntouchedUntilRestored'
  BY <1>2, <1>3, <1>4 DEF UntouchedUntilRestored, saved
<1>8. ReconfirmFirst' /\ ReconfirmExpected' /\ NoSpuriousFinish'
  BY <1>4 DEF ReconfirmFirst, ReconfirmExpected, NoSpuriousFinish
<1>9. RemovalsMeant'
  BY <1>3, <1>4 DEF RemovalsMeant
<1>10. PendingIsAnswerable'
  BY <1>2, <1>3, <1>4 DEF PendingIsAnswerable
<1> QED BY <1>5, <1>6, <1>7, <1>8, <1>9, <1>10

\* Progress of a download keeps the bookkeeping: the finished alert it may
\* post is not a reconfirmation.
LEMMA DownloadKeeps ==
  ASSUME IInv, NEW h \in Torrents, Download(h) PROVE Bookkeeping'
<1> USE DEF IInv, Bookkeeping
<1> DEFINE f == Finished(h, live[h], "done")
<1>1. /\ live[h] # 0
      /\ UNCHANGED <<gui, calls, live, cmds, disk, restoreConfirm, pendingRestore,
                     removedByUser, raced, finishLog>>
      /\ alerts' = alerts \/ alerts' = Append(alerts, f)
  BY DEF Download, LibUnchanged
<1>2. gui # "off"
  BY <1>1 DEF OffIsEmpty
<1>3. CASE alerts' = alerts
  BY <1>1, <1>2, <1>3, QuietKeeps
<1>4. CASE alerts' = Append(alerts, f)
  <2>1. alerts \in Seq(Alert) /\ f \in Alert
    BY AlertTypes DEF TypeOK, QueueTypeOK, LibTypeOK
  <2>2. /\ Len(alerts) \in Nat /\ DOMAIN alerts = 1..Len(alerts)
        /\ DOMAIN alerts' = 1..(Len(alerts) + 1)
        /\ \A i \in DOMAIN alerts : alerts'[i] = alerts[i]
        /\ alerts'[Len(alerts) + 1] = f
    BY <1>4, <2>1, AppendProperties, LenProperties
  <2>3. f.kind = "finished" /\ f.why = "done" /\ f.h = h
    BY DEF Finished
  <2> HIDE DEF f
  <2>4. OffIsEmpty' /\ RestoresFirst'
    BY <1>1, <1>2 DEF OffIsEmpty, RestoresFirst
  <2>5. UntouchedUntilRestored'
    BY <1>1, <2>2, <2>3 DEF UntouchedUntilRestored
  <2>6. ReconfirmFirst'
    BY <2>2, <2>3 DEF ReconfirmFirst, IsReconfirm
  <2>7. ReconfirmExpected'
    BY <1>1, <2>2, <2>3 DEF ReconfirmExpected, IsReconfirm
  <2>8. RemovalsMeant' /\ NoSpuriousFinish'
    BY <1>1, <2>2, <2>3 DEF RemovalsMeant, NoSpuriousFinish
  <2>9. PendingIsAnswerable'
    BY <1>1, <2>2 DEF PendingIsAnswerable
  <2> QED BY <2>4, <2>5, <2>6, <2>7, <2>8, <2>9
<1> QED BY <1>1, <1>3, <1>4

\* The returns of add_torrent(), the tick, the polls, the end of a pass and
\* the periodic save keep the bookkeeping.
LEMMA QuietStepKeeps ==
  ASSUME IInv,
         \/ \E c \in calls : AddReturn(c) \/ AddRaise(c)
         \/ EndPass \/ Autosave \/ Tick \/ BindPoll \/ ShutdownPoll
  PROVE  Bookkeeping'
<1>1. gui # "off"
  BY DEF IInv, Bookkeeping, OffIsEmpty, AddReturn, AddRaise, EndPass, Autosave,
         Tick, BindPoll, ShutdownPoll, GuiIdle
<1>2. /\ gui' # "off"
      /\ gui = "saving" => gui' = "saving"
  BY <1>1 DEF AddReturn, AddRaise, EndPass, Autosave, Tick, BindPoll,
              ShutdownPoll, GuiIdle, app
<1>3. UNCHANGED <<live, cmds, alerts, disk, restoreConfirm, pendingRestore,
                  removedByUser, raced, finishLog>>
  BY DEF AddReturn, AddRaise, EndPass, Autosave, Tick, BindPoll,
         ShutdownPoll, app, lib, hist
<1> QED BY <1>1, <1>2, <1>3, QuietKeeps

\* One request that is not a restore keeps the bookkeeping; a removal must be
\* one the user asked for.
LEMMA OneRequestKeeps ==
  ASSUME IInv, gui # "off", gui' = gui,
         NEW c \in Cmd, cmds' = Append(cmds, c), ~IsRestore(c),
         c.op = "remove" => c.h \in removedByUser' \cup raced',
         \A h \in removedByUser \cup raced :
             RemovalInFlight(h) => h \in removedByUser' \cup raced',
         UNCHANGED <<live, alerts, disk, restoreConfirm, pendingRestore,
                     finishLog>>
  PROVE  Bookkeeping'
<1> DEFINE s == <<c>>
<1>1. cmds \in Seq(Cmd)
  BY DEF IInv, TypeOK, QueueTypeOK
<1>2. s \in Seq(Cmd) /\ cmds' = cmds \o s /\ \A i \in DOMAIN s : s[i] = c
  BY <1>1, OneMore
<1> HIDE DEF s
<1> QED BY <1>2, RequestKeeps

\* A call to the add API keeps the bookkeeping: adding a torrent whose removal
\* is under way counts as a race.
LEMMA AddBeginKeeps ==
  ASSUME IInv, NEW t \in Threads, NEW h \in Torrents,
         NEW strict \in BOOLEAN, AddBegin(t, h, strict)
  PROVE  Bookkeeping'
<1> DEFINE c == [op |-> "add", h |-> h, thread |-> t, strict |-> strict]
<1>1. c \in Cmd /\ ~IsRestore(c) /\ c.op # "remove"
  BY DEF Cmd, IsRestore
<1>2. cmds' = Append(cmds, c) /\ cmds \in Seq(Cmd)
  BY DEF AddBegin, IInv, TypeOK, QueueTypeOK
<1>3. gui # "off"
  BY DEF AddBegin, GuiIdle
<1>4. \A g \in removedByUser \cup raced :
          RemovalInFlight(g) => g \in removedByUser' \cup raced'
  BY DEF AddBegin
<1>5. UNCHANGED <<gui, live, alerts, disk, restoreConfirm, pendingRestore,
                  finishLog>>
  BY DEF AddBegin
<1> HIDE DEF c
<1> QED BY <1>1, <1>2, <1>3, <1>4, <1>5, OneRequestKeeps

\* remove_torrent keeps the bookkeeping: the user asked for it.
LEMMA RemoveKeeps ==
  ASSUME IInv, NEW h \in Torrents, Remove(h)
  PROVE  Bookkeeping'
<1> DEFINE c == [op |-> "remove", h |-> h, inc |-> handles[h]]
<1>1. c \in Cmd /\ ~IsRestore(c) /\ c.h = h
  BY DEF Cmd, IsRestore, IInv, TypeOK, AppTypeOK
<1>2. cmds' = Append(cmds, c) /\ cmds \in Seq(Cmd)
  BY DEF Remove, IInv, TypeOK, QueueTypeOK
<1>3. gui # "off"
  BY DEF Remove, GuiIdle
<1>4. /\ h \in removedByUser'
      /\ removedByUser \cup raced \subseteq removedByUser' \cup raced'
  BY DEF Remove
<1>5. UNCHANGED <<gui, live, alerts, disk, restoreConfirm, pendingRestore,
                  finishLog>>
  BY DEF Remove, app
<1> HIDE DEF c
<1> QED BY <1>1, <1>2, <1>3, <1>4, <1>5, OneRequestKeeps

\* Draining one queued save keeps the bookkeeping.
LEMMA DrainOneKeeps ==
  ASSUME IInv, DrainOne
  PROVE  Bookkeeping'
<1> DEFINE h == Head(saveQueue)
           c == [op |-> "save", h |-> h, inc |-> handles[h], lazy |-> TRUE]
<1>1. saveQueue # <<>> /\ h \in Torrents
  <2>1. saveQueue # <<>> /\ saveQueue \in Seq(Torrents)
    BY EmptySeq DEF DrainOne, IInv, TypeOK, AppTypeOK
  <2> QED BY <2>1, QueueTail
<1>2. c \in Cmd /\ ~IsRestore(c) /\ c.op = "save"
  BY <1>1 DEF Cmd, IsRestore, IInv, TypeOK, AppTypeOK
<1>3. /\ cmds \in Seq(Cmd)
      /\ cmds' = cmds \/ cmds' = Append(cmds, c)
      /\ gui = "tick"
      /\ UNCHANGED <<gui, live, alerts, disk, restoreConfirm, pendingRestore,
                     removedByUser, raced, finishLog>>
  BY DEF DrainOne, IInv, TypeOK, QueueTypeOK, hist
<1> HIDE DEF c
<1>4. CASE cmds' = cmds
  BY <1>3, <1>4, QuietKeeps
<1>5. CASE cmds' = Append(cmds, c)
  BY <1>2, <1>3, <1>5, OneRequestKeeps
<1> QED BY <1>3, <1>4, <1>5

\* The start of shutdown() keeps the bookkeeping.
LEMMA ShutdownBeginKeeps ==
  ASSUME IInv, ShutdownBegin
  PROVE  Bookkeeping'
<1> DEFINE saves(order) ==
             [i \in 1..Cardinality(SavedAtExit) |->
                 [op |-> "save", h |-> order[i], inc |-> handles[order[i]],
                  lazy |-> FALSE]]
<1>1. PICK order \in Orders(SavedAtExit) : cmds' = cmds \o saves(order)
  BY DEF ShutdownBegin
<1>2. saves(order) \in Seq(Cmd)
  BY Saves DEF SavedAtExit, IInv
<1>3. \A i \in DOMAIN saves(order) : saves(order)[i].op = "save"
  OBVIOUS
<1>4. /\ gui = "idle" /\ gui' = "saving"
      /\ removedByUser \cup raced \subseteq removedByUser' \cup raced'
      /\ UNCHANGED <<live, alerts, disk, restoreConfirm, pendingRestore,
                     finishLog>>
  BY DEF ShutdownBegin, GuiIdle
<1> HIDE DEF saves
<1> QED BY <1>1, <1>2, <1>3, <1>4, RequestKeeps DEF IsRestore

\* _on_torrent_added keeps the bookkeeping: it settles the restore of its own
\* torrent only, and leaves a torrent that was restored waiting for its
\* reconfirmation.
LEMMA OnTorrentAddedKeeps ==
  ASSUME IInv, OnTorrentAdded
  PROVE  Bookkeeping'
<1> DEFINE a == Head(alerts)
<1>1. alerts # <<>> /\ alerts' = Tail(alerts) /\ a.h \in Torrents
  BY PoppedAlert DEF OnTorrentAdded, NextAlert, IInv
<1>2. /\ UNCHANGED <<gui, cmds, live, removedByUser, raced, calls, disk,
                     finishLog>>
      /\ pendingRestore' = pendingRestore \ {a.h}
      /\ restoreConfirm \ {a.h} \subseteq restoreConfirm'
      /\ a.ok => restoreConfirm' = restoreConfirm
  BY DEF OnTorrentAdded, NextAlert, StillPending, BindRestored, RefuseRestored
<1>3. NoSpuriousFinish'
  BY <1>2 DEF IInv, Bookkeeping, NoSpuriousFinish
<1> QED BY <1>1, <1>2, <1>3, HandlerKeeps

\* _on_torrent_finished keeps the bookkeeping: a reconfirmation still finds
\* its torrent in _pending_restore_confirmation, so it is swallowed.
LEMMA OnTorrentFinishedKeeps ==
  ASSUME IInv, OnTorrentFinished
  PROVE  Bookkeeping'
<1> DEFINE a == Head(alerts)
<1>1. /\ alerts # <<>> /\ alerts' = Tail(alerts) /\ a \in Alert
      /\ a.kind = "finished"
  BY PoppedAlert DEF OnTorrentFinished, NextAlert, IInv
<1>2. /\ UNCHANGED <<gui, cmds, live, removedByUser, raced, calls, disk,
                     pendingRestore>>
      /\ restoreConfirm \ {a.h} \subseteq restoreConfirm'
  BY DEF OnTorrentFinished, NextAlert
<1>3. NoSpuriousFinish'
  <2>1. a.why = "reconfirm" => a.h \in restoreConfirm
    <3>1. alerts \in Seq(Alert) /\ a = alerts[1] /\ 1 \in DOMAIN alerts
      BY <1>1, QueueTail, LenProperties DEF IInv, TypeOK, QueueTypeOK
    <3> QED
      BY <1>1, <3>1 DEF IInv, Bookkeeping, ReconfirmExpected, IsReconfirm
  <2> QED
    BY <2>1 DEF OnTorrentFinished, IInv, Bookkeeping, NoSpuriousFinish
<1> QED BY <1>1, <1>2, <1>3, HandlerKeeps

\* The handlers of a save's answer keep the bookkeeping.
LEMMA OnSavesKeep ==
  ASSUME IInv, OnSaveResumeData \/ OnSaveFailed
  PROVE  Bookkeeping'
<1> DEFINE a == Head(alerts)
<1>1. /\ alerts # <<>> /\ alerts' = Tail(alerts)
      /\ a.kind \in {"saved", "saveFailed"}
  BY PoppedAlert DEF OnSaveResumeData, OnSaveFailed, NextAlert, IInv
<1>2. /\ UNCHANGED <<gui, cmds, live, removedByUser, raced, calls,
                     pendingRestore, restoreConfirm, finishLog>>
      /\ \A h \in Torrents \ {a.h} : disk'[h] = disk[h]
  BY DEF OnSaveResumeData, OnSaveFailed, NextAlert, IInv, TypeOK, HistTypeOK
<1>3. NoSpuriousFinish'
  BY <1>2 DEF IInv, Bookkeeping, NoSpuriousFinish
<1> QED BY <1>1, <1>2, <1>3, HandlerKeeps

\* _on_torrent_removed keeps the bookkeeping.
LEMMA OnTorrentRemovedKeeps ==
  ASSUME IInv, OnTorrentRemoved
  PROVE  Bookkeeping'
<1> DEFINE a == Head(alerts)
<1>1. /\ alerts # <<>> /\ alerts' = Tail(alerts)
      /\ a.kind = "removed"
  BY PoppedAlert DEF OnTorrentRemoved, NextAlert, IInv
<1>2. /\ UNCHANGED <<gui, cmds, live, removedByUser, raced, calls,
                     pendingRestore, finishLog>>
      /\ restoreConfirm' = restoreConfirm \ {a.h}
      /\ \A h \in Torrents \ {a.h} : disk'[h] = disk[h]
  BY DEF OnTorrentRemoved, NextAlert, Forget, IInv, TypeOK, HistTypeOK
<1>3. NoSpuriousFinish'
  BY <1>2 DEF IInv, Bookkeeping, NoSpuriousFinish
<1> QED BY <1>1, <1>2, <1>3, HandlerKeeps

\* The alerts shutdown() handles itself keep the bookkeeping.
LEMMA ShutdownAlertsKeep ==
  ASSUME IInv, ShutdownSaved \/ ShutdownSaveFailed \/ ShutdownIgnored
  PROVE  Bookkeeping'
<1> DEFINE a == Head(alerts)
<1>1. /\ popped > 0 /\ alerts' = Tail(alerts) /\ popped' = popped - 1
      /\ cmds' = cmds /\ gui = "saving"
  BY DEF ShutdownSaved, ShutdownSaveFailed, ShutdownIgnored, NextPopped,
         ShutdownUnchanged
<1>2. alerts # <<>>
  BY <1>1, QueuesPopped DEF IInv, TypeOK
<1>3. /\ UNCHANGED <<gui, cmds, live, removedByUser, raced, calls,
                     pendingRestore, restoreConfirm, finishLog>>
      /\ \A h \in Torrents \ {a.h} : disk'[h] = disk[h]
  BY DEF ShutdownSaved, ShutdownSaveFailed, ShutdownIgnored, NextPopped,
         ShutdownUnchanged, hist, IInv, TypeOK, HistTypeOK
<1>4. NoSpuriousFinish'
  BY <1>3 DEF IInv, Bookkeeping, NoSpuriousFinish
<1> QED BY <1>1, <1>2, <1>3, <1>4, HandlerKeeps

\* A restore that succeeds keeps the bookkeeping: the reconfirmation follows
\* its added alert, and the launch expects it.
LEMMA NetRestoreOkKeeps ==
  ASSUME IInv, NetRestoreOk
  PROVE  Bookkeeping'
<1> DEFINE c == Head(cmds)
           h == c.h
           a == Added(h, adds[h] + 1, TRUE)
           f == Finished(h, adds[h] + 1, "reconfirm")
<1>1. h \in Torrents /\ c.op = "restore" /\ cmds # <<>> /\ cmds' = Tail(cmds)
  BY HeadCmd DEF NetRestoreOk, NextCmd, IInv
<1>2. alerts \in Seq(Alert) /\ a \in Alert /\ f \in Alert
  <2>1. adds[h] + 1 \in Nat /\ alerts \in Seq(Alert)
    BY <1>1 DEF IInv, TypeOK, QueueTypeOK, LibTypeOK
  <2> QED BY <1>1, <2>1, AlertTypes
<1>3. /\ a.kind = "added" /\ a.ok /\ a.h = h
      /\ f.kind = "finished" /\ f.h = h
  BY DEF Added, Finished
<1>4. /\ UNCHANGED <<gui, disk, restoreConfirm, pendingRestore, removedByUser,
                     raced, finishLog>>
      /\ \A g \in Torrents \ {h} : live'[g] = live[g]
  BY DEF NetRestoreOk, LibUnchanged, Enter, IInv, TypeOK, LibTypeOK
<1>5. /\ disk[h] = Full => alerts' = Append(Append(alerts, a), f)
      /\ disk[h] # Full => alerts' = Append(alerts, a)
  BY DEF NetRestoreOk
<1> HIDE DEF a, f, h, c
<1>6. CASE disk[h] = Full
  <2> DEFINE s == <<a, f>>
  <2>1. /\ s \in Seq(Alert) /\ alerts' = alerts \o s
        /\ DOMAIN s = {1, 2} /\ s[1] = a /\ s[2] = f
    <3>1. alerts' = Append(Append(alerts, a), f)
      BY <1>5, <1>6
    <3> QED BY <1>2, <3>1, TwoMore
  <2> HIDE DEF s
  <2>2. \A i \in DOMAIN s : s[i].h = h /\ s[i].kind \in {"added", "finished"}
    BY <1>3, <2>1
  <2>3. \A j \in DOMAIN s : IsReconfirm(s[j]) =>
            \A i \in 1..(j - 1) : s[i].kind = "added" /\ s[i].ok
    BY <1>3, <2>1 DEF IsReconfirm
  <2>4. \E i \in DOMAIN s : s[i].kind = "added"
    BY <1>3, <2>1
  <2>5. \A j \in DOMAIN s : IsReconfirm(s[j]) =>
             /\ IsRestore(c) /\ disk[c.h] = Full
             /\ \A i \in 1..(j - 1) : s[i].kind = "added" /\ s[i].ok
    BY <1>1, <1>6, <2>3 DEF IsRestore, h
  <2> QED
    BY <1>1, <1>4, <2>1, <2>2, <2>4, <2>5, NetKeeps DEF c, h
<1>7. CASE disk[h] # Full
  <2> DEFINE s == <<a>>
  <2>1. /\ s \in Seq(Alert) /\ alerts' = alerts \o s
        /\ 1 \in DOMAIN s /\ \A i \in DOMAIN s : s[i] = a
    BY <1>2, <1>5, <1>7, OneMore
  <2> HIDE DEF s
  <2>2. \A i \in DOMAIN s : s[i].h = h /\ s[i].kind = "added"
    BY <1>3, <2>1
  <2>3. \A i \in DOMAIN s : ~IsReconfirm(s[i])
    BY <2>2 DEF IsReconfirm
  <2> QED
    BY <1>1, <1>4, <2>1, <2>2, <2>3, NetKeeps DEF c, h
<1> QED BY <1>6, <1>7

\* A request answered by one alert about its torrent keeps the bookkeeping.
LEMMA OneAnswerKeeps ==
  ASSUME IInv, cmds # <<>>, cmds' = Tail(cmds),
         NEW a \in Alert, alerts' = Append(alerts, a),
         a.h = Head(cmds).h, ~IsReconfirm(a),
         a.kind = "removed" => Head(cmds).op = "remove",
         IsRestore(Head(cmds)) => a.kind = "added",
         \A h \in Torrents \ {Head(cmds).h} : live'[h] = live[h],
         UNCHANGED <<gui, disk, restoreConfirm, pendingRestore, removedByUser,
                     raced, finishLog>>
  PROVE  Bookkeeping'
<1> DEFINE s == <<a>>
<1>1. alerts \in Seq(Alert)
  BY DEF IInv, TypeOK, QueueTypeOK
<1>2. /\ s \in Seq(Alert) /\ alerts' = alerts \o s
      /\ 1 \in DOMAIN s /\ \A i \in DOMAIN s : s[i] = a
  BY <1>1, OneMore
<1> HIDE DEF s
<1> QED BY <1>2, NetKeeps

\* A request other than a restore that is not answered keeps the bookkeeping.
LEMMA NoAnswerKeeps ==
  ASSUME IInv, cmds # <<>>, cmds' = Tail(cmds), alerts' = alerts,
         ~IsRestore(Head(cmds)),
         \A h \in Torrents \ {Head(cmds).h} : live'[h] = live[h],
         UNCHANGED <<gui, disk, restoreConfirm, pendingRestore, removedByUser,
                     raced, finishLog>>
  PROVE  Bookkeeping'
<1> DEFINE s == <<>>
<1>1. s \in Seq(Alert) /\ alerts' = alerts \o s /\ DOMAIN s = {}
  BY NoneMore DEF IInv, TypeOK, QueueTypeOK
<1> HIDE DEF s
<1> QED BY <1>1, NetKeeps

\* A restore that starts over keeps the bookkeeping.
LEMMA NetRestoreRecheckedKeeps ==
  ASSUME IInv, NetRestoreRechecked
  PROVE  Bookkeeping'
<1> DEFINE h == Head(cmds).h
           a == Added(h, adds[h] + 1, TRUE)
<1>1. h \in Torrents /\ cmds # <<>> /\ cmds' = Tail(cmds)
  BY HeadCmd DEF NetRestoreRechecked, NextCmd, IInv
<1>2. a \in Alert /\ alerts' = Append(alerts, a)
  <2>1. adds[h] + 1 \in Nat
    BY <1>1 DEF IInv, TypeOK, LibTypeOK
  <2> QED BY <1>1, <2>1, AlertTypes DEF NetRestoreRechecked
<1>3. a.kind = "added" /\ a.h = h
  BY DEF Added
<1>4. /\ UNCHANGED <<gui, disk, restoreConfirm, pendingRestore, removedByUser,
                     raced, finishLog>>
      /\ \A g \in Torrents \ {h} : live'[g] = live[g]
  BY DEF NetRestoreRechecked, LibUnchanged, Enter, IInv, TypeOK, LibTypeOK
<1> HIDE DEF a
<1> QED BY <1>1, <1>2, <1>3, <1>4, OneAnswerKeeps DEF IsReconfirm

\* A refused restore keeps the bookkeeping: it is answered.
LEMMA NetRestoreRefusedKeeps ==
  ASSUME IInv, NetRestoreRefused
  PROVE  Bookkeeping'
<1> DEFINE h == Head(cmds).h
           a == Added(h, 0, FALSE)
<1>1. h \in Torrents /\ cmds # <<>> /\ cmds' = Tail(cmds)
  BY HeadCmd DEF NetRestoreRefused, NextCmd, IInv
<1>2. a \in Alert /\ alerts' = Append(alerts, a)
  BY <1>1, AlertTypes DEF NetRestoreRefused
<1>3. a.kind = "added" /\ a.h = h
  BY DEF Added
<1>4. UNCHANGED <<gui, live, disk, restoreConfirm, pendingRestore,
                  removedByUser, raced, finishLog>>
  BY DEF NetRestoreRefused, LibUnchanged
<1> HIDE DEF a
<1> QED BY <1>1, <1>2, <1>3, <1>4, OneAnswerKeeps DEF IsReconfirm

\* An add, of a new torrent or of one in the session, keeps the bookkeeping.
LEMMA NetAddKeeps ==
  ASSUME IInv, NetAddNew \/ NetAddDuplicate
  PROVE  Bookkeeping'
<1> DEFINE c == Head(cmds)
<1>1. /\ c \in Cmd /\ c.op = "add" /\ c.h \in Torrents
      /\ cmds # <<>> /\ cmds' = Tail(cmds)
  BY HeadCmd DEF NetAddNew, NetAddDuplicate, NextCmd, IInv
<1>2. /\ UNCHANGED <<gui, disk, restoreConfirm, pendingRestore, removedByUser,
                     raced, finishLog>>
      /\ \A g \in Torrents \ {c.h} : live'[g] = live[g]
  BY DEF NetAddNew, NetAddDuplicate, LibUnchanged, Enter, IInv, TypeOK,
         LibTypeOK
<1>3. ASSUME NEW inc \in Nat, NEW ok \in BOOLEAN,
             alerts' = Append(alerts, Added(c.h, inc, ok))
      PROVE  Bookkeeping'
  <2> DEFINE a == Added(c.h, inc, ok)
  <2>1. a \in Alert /\ a.kind = "added" /\ a.h = c.h
    BY <1>1, AlertTypes DEF Added
  <2> HIDE DEF a
  <2> QED
    BY <1>1, <1>2, <1>3, <2>1, OneAnswerKeeps DEF IsReconfirm, IsRestore, a
<1>4. CASE NetAddNew
  <2>1. adds[c.h] + 1 \in Nat
    BY <1>1 DEF IInv, TypeOK, LibTypeOK
  <2> QED BY <1>3, <1>4, <2>1 DEF NetAddNew
<1>5. CASE NetAddDuplicate
  <2>1. c.strict \in BOOLEAN /\ live[c.h] \in Nat
    BY <1>1 DEF Cmd, IInv, TypeOK, LibTypeOK
  <2>2. (IF c.strict THEN 0 ELSE live[c.h]) \in Nat /\ (~c.strict) \in BOOLEAN
    BY <2>1
  <2> QED BY <1>3, <1>5, <2>2 DEF NetAddDuplicate
<1> QED BY <1>4, <1>5

\* A removal keeps the bookkeeping: it reports a torrent whose removal was
\* asked for.
LEMMA NetRemoveKeeps ==
  ASSUME IInv, NetRemove
  PROVE  Bookkeeping'
<1> DEFINE c == Head(cmds)
           a == [kind |-> "removed", h |-> c.h, inc |-> c.inc]
<1>1. /\ c \in Cmd /\ c.op = "remove" /\ c.h \in Torrents
      /\ cmds # <<>> /\ cmds' = Tail(cmds)
  BY HeadCmd DEF NetRemove, NextCmd, IInv
<1>2. a \in Alert
  BY <1>1, AlertTypes DEF Cmd
<1>3. /\ UNCHANGED <<gui, disk, restoreConfirm, pendingRestore, removedByUser,
                     raced, finishLog>>
      /\ \A g \in Torrents \ {c.h} : live'[g] = live[g]
      /\ alerts' = alerts \/ alerts' = Append(alerts, a)
  BY DEF NetRemove, LibUnchanged, IInv, TypeOK, LibTypeOK
<1>4. a.kind = "removed" /\ a.h = c.h
  OBVIOUS
<1> HIDE DEF a
<1>5. CASE alerts' = alerts
  BY <1>1, <1>3, <1>5, NoAnswerKeeps DEF IsRestore
<1>6. CASE alerts' = Append(alerts, a)
  BY <1>1, <1>2, <1>3, <1>4, <1>6, OneAnswerKeeps DEF IsReconfirm, IsRestore
<1> QED BY <1>3, <1>5, <1>6

\* The answer to a save request keeps the bookkeeping.
LEMMA NetSaveKeeps ==
  ASSUME IInv, NetSave
  PROVE  Bookkeeping'
<1> DEFINE c == Head(cmds)
<1>1. /\ c \in Cmd /\ c.op = "save" /\ c.h \in Torrents /\ c.inc \in Nat
      /\ cmds # <<>> /\ cmds' = Tail(cmds)
  BY HeadCmd DEF NetSave, NextCmd, IInv, Cmd
<1>2. UNCHANGED <<gui, live, disk, restoreConfirm, pendingRestore,
                  removedByUser, raced, finishLog>>
  BY DEF NetSave, LibUnchanged
<1>3. PICK a \in Alert : /\ alerts' = Append(alerts, a)
                         /\ a.kind \in {"saved", "saveFailed"} /\ a.h = c.h
  <2>1. progress[c.h] \in 0..Full
    BY <1>1 DEF IInv, TypeOK, LibTypeOK
  <2>2. CASE live[c.h] = c.inc /\ (c.lazy => dirty[c.h])
    <3> DEFINE a == [kind |-> "saved", h |-> c.h, inc |-> c.inc,
                     p |-> progress[c.h]]
    <3>1. a \in Alert /\ a.kind = "saved" /\ a.h = c.h
      BY <1>1, <2>1, AlertTypes
    <3>2. alerts' = Append(alerts, a)
      BY <2>2 DEF NetSave
    <3> QED BY <3>1, <3>2
  <2>3. CASE ~(live[c.h] = c.inc /\ (c.lazy => dirty[c.h]))
    <3> DEFINE a == [kind |-> "saveFailed", h |-> c.h, inc |-> c.inc]
    <3>1. a \in Alert /\ a.kind = "saveFailed" /\ a.h = c.h
      BY <1>1, AlertTypes
    <3>2. alerts' = Append(alerts, a)
      BY <2>3 DEF NetSave
    <3> QED BY <3>1, <3>2
  <2> QED BY <2>2, <2>3
<1> QED BY <1>1, <1>2, <1>3, OneAnswerKeeps DEF IsReconfirm, IsRestore

-----------------------------------------------------------------------------
(* The theorems                                                            *)

\* The inductive invariant holds before the first launch.
LEMMA InitIInv == Init => IInv
<1> SUFFICES ASSUME Init PROVE IInv
  OBVIOUS
<1> USE DEF Init
<1>1. AppTypeOK /\ LibTypeOK /\ HistTypeOK
  BY ConstantsAssumption, EmptySeq
  DEF AppTypeOK, LibTypeOK, HistTypeOK, ConstantsAssumption
<1>2. QueueTypeOK
  BY EmptySeq DEF QueueTypeOK
<1>3. OffIsEmpty /\ RestoresFirst /\ UntouchedUntilRestored /\ RemovalsMeant
  BY DEF OffIsEmpty, RestoresFirst, UntouchedUntilRestored, RemovalsMeant
<1>4. /\ ReconfirmFirst /\ ReconfirmExpected
      /\ NoSpuriousFinish /\ PendingIsAnswerable
  BY DEF ReconfirmFirst, ReconfirmExpected, NoSpuriousFinish,
         PendingIsAnswerable
<1> QED BY <1>1, <1>2, <1>3, <1>4 DEF IInv, TypeOK, Bookkeeping

\* Every step, and every stutter, preserves the inductive invariant.
LEMMA NextIInv == IInv /\ [Next]_vars => IInv'
<1> SUFFICES ASSUME IInv, [Next]_vars PROVE TypeOK' /\ Bookkeeping'
  BY DEF IInv
<1>1. TypeOK
  BY DEF IInv
<1>2. CASE Launch
  BY <1>1, <1>2, TypeLaunch, LaunchKeeps
<1>3. CASE \E t \in Threads, h \in Torrents, strict \in BOOLEAN :
               AddBegin(t, h, strict)
  BY <1>1, <1>3, TypeAddBegin, AddBeginKeeps
<1>4. CASE \E h \in Torrents : Remove(h)
  BY <1>1, <1>4, TypeRemove, RemoveKeeps
<1>5. CASE ShutdownBegin
  BY <1>1, <1>5, TypeShutdownBegin, ShutdownBeginKeeps
<1>6. CASE Crash \/ ShutdownDone \/ ShutdownTimeout \/ ShutdownRaise
  <2>1. \E how \in {"clean", "timeout", "raised", "crash"} : End(how)
    BY <1>6 DEF Crash, ShutdownDone, ShutdownTimeout, ShutdownRaise
  <2> QED BY <1>1, <2>1, TypeEnd, EndKeeps
<1>7. CASE Returns
  BY <1>1, <1>7, TypeReturns, QuietStepKeeps DEF Returns
<1>8. CASE Net
  <2>1. CASE NetRestoreOk
    <3>1. disk[Head(cmds).h] # NoFile
      <4>1. cmds # <<>> /\ cmds \in Seq(Cmd) /\ Head(cmds).op = "restore"
        BY <1>1, <2>1 DEF NetRestoreOk, NextCmd, TypeOK, QueueTypeOK
      <4>2. 1 \in DOMAIN cmds /\ Head(cmds) = cmds[1]
        BY <4>1, QueueTail, LenProperties
      <4> QED
        BY <4>1, <4>2
        DEF IInv, Bookkeeping, UntouchedUntilRestored, IsRestore
    <3> QED BY <1>1, <2>1, <3>1, TypeNetRestoreOk, NetRestoreOkKeeps
  <2>2. CASE NetRestoreRechecked
    BY <1>1, <2>2, TypeNetRestoreRechecked, NetRestoreRecheckedKeeps
  <2>3. CASE NetRestoreRefused
    BY <1>1, <2>3, TypeNetRestoreRefused, NetRestoreRefusedKeeps
  <2>4. CASE NetAddNew
    BY <1>1, <2>4, TypeNetAddNew, NetAddKeeps
  <2>5. CASE NetAddDuplicate
    BY <1>1, <2>5, TypeNetAddDuplicate, NetAddKeeps
  <2>6. CASE NetRemove
    BY <1>1, <2>6, TypeNetRemove, NetRemoveKeeps
  <2>7. CASE NetSave
    BY <1>1, <2>7, TypeNetSave, NetSaveKeeps
  <2> QED
    BY <1>8, <2>1, <2>2, <2>3, <2>4, <2>5, <2>6, <2>7 DEF Net
<1>9. CASE Tick
  BY <1>1, <1>9, TypeTick, QuietStepKeeps
<1>10. CASE BindPoll \/ EndPass \/ ShutdownPoll
  BY <1>1, <1>10, TypePolls, QuietStepKeeps
<1>11. CASE OnAlert
  <2>1. CASE OnTorrentAdded
    BY <1>1, <2>1, TypeOnTorrentAdded, OnTorrentAddedKeeps
  <2>2. CASE OnTorrentFinished
    BY <1>1, <2>2, TypeOnTorrentFinished, OnTorrentFinishedKeeps
  <2>3. CASE OnSaveResumeData \/ OnSaveFailed
    BY <1>1, <2>3, TypeOnSaves, OnSavesKeep
  <2>4. CASE OnTorrentRemoved
    BY <1>1, <2>4, TypeOnTorrentRemoved, OnTorrentRemovedKeeps
  <2> QED BY <1>11, <2>1, <2>2, <2>3, <2>4 DEF OnAlert
<1>12. CASE DrainOne
  BY <1>1, <1>12, TypeDrainOne, DrainOneKeeps
<1>13. CASE Autosave
  BY <1>1, <1>13, TypeAutosave, QuietStepKeeps
<1>14. CASE ShutdownSaved \/ ShutdownSaveFailed \/ ShutdownIgnored
  BY <1>1, <1>14, TypeShutdownAlerts, ShutdownAlertsKeep
<1>15. CASE \E h \in Torrents : Download(h)
  BY <1>1, <1>15, TypeDownload, DownloadKeeps
<1>16. CASE UNCHANGED vars
  <2> USE <1>16 DEF vars, app, lib, hist
  <2>1. TypeOK'
    BY <1>1 DEF TypeOK, AppTypeOK, LibTypeOK, QueueTypeOK, HistTypeOK
  <2>2. /\ OffIsEmpty'
        /\ RestoresFirst'
        /\ UntouchedUntilRestored'
        /\ RemovalsMeant'
    BY DEF IInv, Bookkeeping, OffIsEmpty, RestoresFirst,
           UntouchedUntilRestored, RemovalsMeant
  <2>3. /\ ReconfirmFirst' /\ ReconfirmExpected'
        /\ NoSpuriousFinish' /\ PendingIsAnswerable'
    BY DEF IInv, Bookkeeping, ReconfirmFirst, ReconfirmExpected,
           NoSpuriousFinish, PendingIsAnswerable
  <2> QED BY <2>1, <2>2, <2>3 DEF Bookkeeping
<1> QED
  BY <1>2, <1>3, <1>4, <1>5, <1>6, <1>7, <1>8, <1>9, <1>10, <1>11, <1>12,
     <1>13, <1>14, <1>15, <1>16
  DEF Next, User, GuiLoop, ShutdownLoop

\* The inductive invariant holds in every reachable state, for any set of
\* torrents and threads and any bounds.
THEOREM Invariance == Spec => []IInv
<1>1. Init => IInv
  BY InitIInv
<1>2. IInv /\ [Next]_vars => IInv'
  BY NextIInv
<1> QED BY <1>1, <1>2, PTL DEF Spec

\* TypeOK is an invariant: in particular popped never counts more alerts than
\* are queued, and a tick never plans more saves than _resume_save_queue
\* holds.
THEOREM TypeCorrect == Spec => []TypeOK
<1>1. IInv => TypeOK
  BY DEF IInv
<1> QED BY <1>1, Invariance, PTL

\* PendingIsAnswerable is an invariant: _bind_restored_handles never polls for
\* a restore that neither libtorrent nor the alert queue still owes an answer
\* to.
THEOREM RestoresAnswerable == Spec => []PendingIsAnswerable
<1>1. IInv => PendingIsAnswerable
  BY DEF IInv, Bookkeeping
<1> QED BY <1>1, Invariance, PTL

\* NoSpuriousFinish is an invariant: _on_torrent_finished never announces the
\* reconfirmation of a torrent restored complete.
THEOREM FinishesGenuine == Spec => []NoSpuriousFinish
<1>1. IInv => NoSpuriousFinish
  BY DEF IInv, Bookkeeping
<1> QED BY <1>1, Invariance, PTL

\* Only the torrent_removed handler deletes a .fastresume file, and only of a
\* torrent the user asked to remove, or whose add raced with that.
LEMMA DeletionMeant ==
  ASSUME IInv, [Next]_vars, NEW h \in Torrents, disk[h] # NoFile,
         disk'[h] = NoFile
  PROVE  h \in removedByUser \cup raced
<1>1. OnSaveResumeData \/ OnTorrentRemoved \/ ShutdownSaved
  BY DEF Next, vars, app, lib, hist, User, Returns, Net, GuiLoop, OnAlert,
         ShutdownLoop, Launch, AddBegin, Remove, ShutdownBegin, Crash, End,
         AddReturn, AddRaise, NetRestoreOk, NetRestoreRechecked,
         NetRestoreRefused, NetAddNew, NetAddDuplicate, NetRemove, NetSave,
         LibUnchanged, Tick, BindPoll, OnTorrentAdded, BindRestored,
         RefuseRestored, OnTorrentFinished, OnSaveFailed, DrainOne, EndPass,
         Autosave, ShutdownPoll, ShutdownSaveFailed, ShutdownIgnored,
         ShutdownDone, ShutdownTimeout, ShutdownRaise, Download
<1> DEFINE a == Head(alerts)
<1>2. a \in Alert /\ alerts # <<>>
  BY <1>1, PoppedAlert, QueuesPopped
  DEF OnSaveResumeData, OnTorrentRemoved, ShutdownSaved, NextPopped,
      ShutdownUnchanged, IInv, TypeOK
<1>3. ~(OnSaveResumeData \/ ShutdownSaved)
  <2>1. a.kind = "saved" => a.p \in 0..Full /\ a.p # NoFile
    BY <1>2, ConstantsAssumption DEF Alert, NoFile, ConstantsAssumption
  <2> QED
    BY <2>1 DEF OnSaveResumeData, ShutdownSaved, NextAlert, NextPopped, IInv,
                TypeOK, HistTypeOK
<1>4. a.kind = "removed" /\ a.h = h
  BY <1>1, <1>3 DEF OnTorrentRemoved, NextAlert, Forget, IInv, TypeOK,
                    HistTypeOK
<1>5. alerts[1] = a /\ 1 \in DOMAIN alerts
  BY <1>2, QueueTail, LenProperties DEF IInv, TypeOK, QueueTypeOK
<1> QED BY <1>4, <1>5 DEF IInv, Bookkeeping, RemovalsMeant

\* OnlyRemovalDeletes holds of every step: a refused restore, a late save
\* answer or a crash never costs the user a .fastresume file.
THEOREM DeletionsMeant == Spec => OnlyRemovalDeletes
<1> DEFINE Meant == \A h \in Torrents : disk[h] # NoFile /\ disk'[h] = NoFile
                        => h \in removedByUser \cup raced
<1>1. IInv /\ [Next]_vars => [Meant]_vars
  BY DeletionMeant
<1> QED BY <1>1, Invariance, PTL DEF Spec, OnlyRemovalDeletes
=============================================================================
