--------------------------- MODULE PoliciesProofs ---------------------------
(***************************************************************************)
(* What the pausers may never do to one another, for any set of torrents   *)
(* and of volumes.  That a pause sticks is not inductive: it needs that    *)
(* every pause given here also takes the torrent out of libtorrent's queue *)
(* (HeldOutOfQueue).  That what is watched has a row needs that no restore *)
(* still pending is watched for its disk (RestoreKept): a refusal takes *)
(* its row.                                                                *)
(***************************************************************************)
EXTENDS Policies, TLAPS

Holder == {"hand", "analysis", "theme", "battery", "limit", "error", "restart"}

HeldOutOfQueue ==
    \A h \in Torrents : heldBy[h] # "none" => status[h].paused /\ ~status[h].auto

RestoreKept ==
    \A h \in restoring : Known(h) /\ ~status[h].live /\ h \notin expected

IInv == TypeOK /\ HeldOutOfQueue /\ ForgottenWithRow /\ RestoreKept

-----------------------------------------------------------------------------
(* Records and flags                                                       *)

\* The value that stands for no row is not a row.
LEMMA NoRecordApart == NoRecord \notin Record
BY DEF NoRecord, Record, TorrentState

\* A status read into a record is a record, and a row.
LEMMA RecordOfTyped ==
  ASSUME NEW s \in Status, NEW awaiting \in BOOLEAN
  PROVE  RecordOf(s, awaiting) \in Record
<1>1. /\ StateOf(s, awaiting) \in TorrentState
      /\ StateOf(s, awaiting) = "seeding" => s.done
  BY SMT DEF StateOf, Status, TorrentState
<1> QED BY <1>1 DEF RecordOf, Record, Status

\* Pausing and releasing a torrent give a status, out of the queue or in it,
\* and do not change whether the torrent is in the session.
LEMMA FlagsTyped ==
  ASSUME NEW s \in Status
  PROVE  /\ Held(s) \in Status /\ Held(s).paused /\ ~Held(s).auto
         /\ Held(s).live = s.live
         /\ Released(s) \in Status /\ Released(s).live = s.live
BY DEF Held, Released, Status

\* A pause given to a set of torrents is typed, and takes the live ones out
\* of the queue.
LEMMA PauseAllKeeps ==
  ASSUME TypeOK, NEW H \in SUBSET Torrents, NEW who \in Holder, PauseAll(H, who)
  PROVE  /\ status' \in [Torrents -> Status]
         /\ heldBy' \in [Torrents -> Holder \cup {"none"}]
         /\ manual' \subseteq Torrents
         /\ \A h \in Torrents : status'[h].live = status[h].live
         /\ HeldOutOfQueue => HeldOutOfQueue'
<1> DEFINE hit == {h \in H : status[h].live}
<1>1. \A h \in Torrents :
        /\ h \in hit => status'[h] = Held(status[h]) /\ heldBy'[h] = who
        /\ h \notin hit => status'[h] = status[h] /\ heldBy'[h] = heldBy[h]
  BY DEF PauseAll
<1>2. /\ status \in [Torrents -> Status] /\ heldBy \in [Torrents -> Holder \cup {"none"}]
      /\ manual \subseteq Torrents
  BY DEF TypeOK, Holder
<1>3. status' = [h \in Torrents |-> status'[h]] /\ heldBy' = [h \in Torrents |-> heldBy'[h]]
  BY DEF PauseAll
<1>4. \A h \in Torrents : status'[h] \in Status /\ heldBy'[h] \in Holder \cup {"none"}
  BY <1>1, <1>2, FlagsTyped
<1>5. HeldOutOfQueue => HeldOutOfQueue'
  BY <1>1, <1>2, FlagsTyped DEF HeldOutOfQueue
<1>6. \A h \in Torrents : status'[h].live = status[h].live
  BY <1>1, <1>2, FlagsTyped
<1> QED BY <1>2, <1>3, <1>4, <1>5, <1>6 DEF PauseAll

\* A resume is typed, and what it gives back to the queue nobody holds.
LEMMA ResumeAllKeeps ==
  ASSUME TypeOK, NEW H \in SUBSET Torrents, ResumeAll(H)
  PROVE  /\ status' \in [Torrents -> Status]
         /\ heldBy' \in [Torrents -> Holder \cup {"none"}]
         /\ manual' \subseteq Torrents
         /\ \A h \in Torrents : status'[h].live = status[h].live
         /\ HeldOutOfQueue => HeldOutOfQueue'
<1> DEFINE hit == {h \in H : Resumable(h)}
<1>1. \A h \in Torrents :
        /\ h \in hit => status'[h] = Released(status[h]) /\ heldBy'[h] = "none"
        /\ h \notin hit => status'[h] = status[h] /\ heldBy'[h] = heldBy[h]
  BY DEF ResumeAll
<1>2. /\ status \in [Torrents -> Status] /\ heldBy \in [Torrents -> Holder \cup {"none"}]
      /\ manual \subseteq Torrents
  BY DEF TypeOK, Holder
<1>3. status' = [h \in Torrents |-> status'[h]] /\ heldBy' = [h \in Torrents |-> heldBy'[h]]
  BY DEF ResumeAll
<1>4. \A h \in Torrents : status'[h] \in Status /\ heldBy'[h] \in Holder \cup {"none"}
  BY <1>1, <1>2, FlagsTyped
<1>5. HeldOutOfQueue => HeldOutOfQueue'
  BY <1>1, <1>2, FlagsTyped DEF HeldOutOfQueue
<1>6. \A h \in Torrents : status'[h].live = status[h].live
  BY <1>1, <1>2, FlagsTyped
<1> QED BY <1>2, <1>3, <1>4, <1>5, <1>6 DEF ResumeAll

-----------------------------------------------------------------------------
(* The inductive invariant                                                 *)

\* The invariant holds when the application starts.
LEMMA InitHolds == Init => IInv
<1> SUFFICES ASSUME Init PROVE IInv
  OBVIOUS
<1>1. Absent \in Status
  BY DEF Absent, Status
<1>2. TypeOK
  BY <1>1 DEF Init, TypeOK
<1>3. HeldOutOfQueue
  BY DEF Init, HeldOutOfQueue
<1>4. ForgottenWithRow /\ RestoreKept
  BY DEF Init, ForgottenWithRow, RestoreKept
<1> QED BY <1>2, <1>3, <1>4 DEF IInv

\* An add: typed, and a row for what it tracks.
LEMMA AddFileKeeps ==
  ASSUME IInv, NEW h \in Torrents, NEW share \in BOOLEAN, AddFile(h, share)
  PROVE  IInv'
<1> DEFINE s == [live |-> TRUE, paused |-> FALSE, auto |-> TRUE, meta |-> TRUE, done |-> FALSE]
           row == [state |-> "queued", done |-> FALSE, awaiting |-> FALSE]
<1>1. s \in Status /\ row \in Record /\ row # NoRecord
  BY DEF Status, Record, TorrentState, NoRecord
<1>2. /\ status' = [status EXCEPT ![h] = IF theme THEN Held(s) ELSE s]
      /\ heldBy' = [heldBy EXCEPT ![h] = IF theme THEN "theme" ELSE "none"]
      /\ record' = [record EXCEPT ![h] = row]
      /\ manual' = manual \ {h}
      /\ limits' \in {limits, [limits EXCEPT ![h] = "tracked"]}
      /\ shelved' = shelved \ {h} /\ lost' = lost \ {h}
      /\ UNCHANGED <<theme, battery, disk, stored, restoring>>
  BY DEF AddFile, NewRow, FreshRow, Shared
<1>6. h \notin restoring /\ h \notin expected
  BY DEF AddFile, IInv, RestoreKept, ForgottenWithRow
<1>3. TypeOK'
  BY <1>1, <1>2, FlagsTyped DEF IInv, TypeOK, battery, disk
<1>4. HeldOutOfQueue'
  BY <1>1, <1>2, FlagsTyped DEF IInv, TypeOK, HeldOutOfQueue
<1>5. ForgottenWithRow'
  BY <1>1, <1>2 DEF IInv, TypeOK, ForgottenWithRow, Known, disk
<1>7. RestoreKept'
  BY <1>1, <1>2, <1>6 DEF IInv, TypeOK, RestoreKept, Known, disk
<1> QED BY <1>3, <1>4, <1>5, <1>7 DEF IInv

\* A torrent added from a magnet link has a row and is out of the queue.
LEMMA AddMagnetKeeps ==
  ASSUME IInv, NEW h \in Torrents, NEW start \in BOOLEAN, NEW share \in BOOLEAN,
         AddMagnet(h, start, share)
  PROVE  IInv'
<1> DEFINE s == [Absent EXCEPT !.live = TRUE]
           started == start /\ ~theme
           row == [state |-> "queued", done |-> FALSE, awaiting |-> ~started]
<1>1. /\ s \in Status /\ s.paused /\ ~s.auto
      /\ row \in Record /\ row # NoRecord
  BY DEF Absent, Status, Record, TorrentState, NoRecord
<1>2. /\ status' = [status EXCEPT ![h] = IF started THEN Released(s) ELSE s]
      /\ heldBy' = [heldBy EXCEPT ![h] = IF started THEN "none" ELSE "analysis"]
      /\ record' = [record EXCEPT ![h] = row]
      /\ manual' = manual \ {h}
      /\ limits' \in {limits, [limits EXCEPT ![h] = "tracked"]}
      /\ shelved' = shelved \ {h} /\ lost' = lost \ {h}
      /\ UNCHANGED <<theme, battery, disk, stored, restoring>>
  BY DEF AddMagnet, NewRow, FreshRow, Shared
<1>6. h \notin restoring /\ h \notin expected
  BY DEF AddMagnet, IInv, RestoreKept, ForgottenWithRow
<1>3. TypeOK'
  BY <1>1, <1>2, FlagsTyped DEF IInv, TypeOK, battery, disk
<1>4. HeldOutOfQueue'
  BY <1>1, <1>2, FlagsTyped DEF IInv, TypeOK, HeldOutOfQueue
<1>5. ForgottenWithRow'
  BY <1>1, <1>2 DEF IInv, TypeOK, ForgottenWithRow, Known, disk
<1>7. RestoreKept'
  BY <1>1, <1>2, <1>6 DEF IInv, TypeOK, RestoreKept, Known, disk
<1> QED BY <1>3, <1>4, <1>5, <1>7 DEF IInv

\* What libtorrent does alone to one torrent: it touches the flags of a
\* torrent only when it is auto-managed, which none that is held is.
LEMMA EngineKeeps ==
  ASSUME IInv, NEW h \in Torrents, Remove(h) \/ Metadata(h) \/ Complete(h) \/ Damage(h) \/ QueueTurn(h)
  PROVE  IInv'
<1>1. Absent \in Status /\ ~Absent.live /\ Absent.paused /\ ~Absent.auto
  BY DEF Absent, Status
<1>2. UNCHANGED <<record, heldBy, manual, theme, battery, disk, limits, files>>
  BY DEF Remove, Metadata, Complete, Damage, QueueTurn
<1> DEFINE Kept ==
             /\ status' \in [Torrents -> Status]
             /\ \A k \in Torrents : k # h => status'[k] = status[k]
             /\ status'[h].live => status[h].live
             /\ \/ status'[h].paused /\ ~status'[h].auto
                \/ /\ status'[h].live = status[h].live
                   /\ status[h].auto \/ (status'[h].paused = status[h].paused)
                   /\ status'[h].auto = status[h].auto
<1>3. Kept
  <2>1. CASE Remove(h)
    BY <1>1, <2>1 DEF Remove, IInv, TypeOK
  <2>2. CASE Metadata(h)
    BY <2>2 DEF Metadata, IInv, TypeOK, Status
  <2>3. CASE Complete(h)
    BY <2>3 DEF Complete, IInv, TypeOK, Status
  <2>4. CASE Damage(h)
    BY <2>4 DEF Damage, IInv, TypeOK, Status
  <2>5. CASE QueueTurn(h)
    <3>1. status[h] \in Status /\ status \in [Torrents -> Status]
      BY DEF IInv, TypeOK
    <3>2. status[h].auto /\ status' = [status EXCEPT ![h] = [status[h] EXCEPT !.paused = ~@]]
      BY <2>5 DEF QueueTurn
    <3>3. [status[h] EXCEPT !.paused = ~@] \in Status
      BY <3>1 DEF Status
    <3> QED BY <3>1, <3>2, <3>3 DEF Status
  <2> HIDE DEF Kept
  <2> QED BY <2>1, <2>2, <2>3, <2>4, <2>5
<1>4. TypeOK'
  BY <1>2, <1>3 DEF IInv, TypeOK, battery, disk, files
<1>5. HeldOutOfQueue'
  BY <1>2, <1>3 DEF IInv, HeldOutOfQueue
<1>6. ForgottenWithRow'
  BY <1>2 DEF IInv, ForgottenWithRow, Known, disk, files
<1>7. RestoreKept'
  BY <1>2, <1>3 DEF IInv, TypeOK, RestoreKept, Known, disk, files
<1> QED BY <1>4, <1>5, <1>6, <1>7 DEF IInv

\* The calls that only pause or resume some torrents.
LEMMA CallKeeps ==
  ASSUME IInv, NEW H \in SUBSET Torrents,
         (\E who \in Holder : PauseAll(H, who)) \/ ResumeAll(H),
         record' = record, limits' = limits, expected' = expected,
         serial' \in [Torrents -> Volumes \cup {NoVolume}],
         theme' \in BOOLEAN, onBattery' = onBattery, pausedByUs' \subseteq Torrents,
         volume' = volume, lastKnown' = lastKnown, UNCHANGED files
  PROVE  IInv'
<1>1. /\ status' \in [Torrents -> Status]
      /\ heldBy' \in [Torrents -> Holder \cup {"none"}]
      /\ manual' \subseteq Torrents
      /\ \A h \in Torrents : status'[h].live = status[h].live
      /\ HeldOutOfQueue'
  BY PauseAllKeeps, ResumeAllKeeps DEF IInv
<1>2. TypeOK'
  BY <1>1 DEF IInv, TypeOK, Holder, files
<1>3. ForgottenWithRow'
  BY DEF IInv, ForgottenWithRow, Known, files
<1>4. RestoreKept'
  BY <1>1 DEF IInv, TypeOK, RestoreKept, Known, files
<1> QED BY <1>1, <1>2, <1>3, <1>4 DEF IInv

\* Starting a torrent after its analysis gives it back to the queue.
LEMMA StartAfterAnalysisKeeps ==
  ASSUME IInv, NEW h \in Torrents, StartAfterAnalysis(h)
  PROVE  IInv'
<1>1. /\ status' \in [Torrents -> Status]
      /\ heldBy' \in [Torrents -> Holder \cup {"none"}]
      /\ manual' \subseteq Torrents
      /\ \A k \in Torrents : status'[k].live = status[k].live
      /\ HeldOutOfQueue'
  BY ResumeAllKeeps DEF IInv, StartAfterAnalysis
<1>2. record[h] \in Record
  <2>1. record[h] # NoRecord
    BY DEF StartAfterAnalysis, NoRecord
  <2> QED BY <2>1 DEF IInv, TypeOK
<1>3. [record[h] EXCEPT !.awaiting = FALSE] \in Record
  BY <1>2 DEF Record
<1>4. /\ record' = [record EXCEPT ![h] = [record[h] EXCEPT !.awaiting = FALSE]]
      /\ UNCHANGED <<theme, battery, disk, limits, files>>
  BY DEF StartAfterAnalysis
<1>5. TypeOK'
  BY <1>1, <1>3, <1>4 DEF IInv, TypeOK, Holder, battery, disk, files
<1>6. ForgottenWithRow'
  BY <1>3, <1>4, NoRecordApart DEF IInv, TypeOK, ForgottenWithRow, Known, disk, files
<1>7. RestoreKept'
  BY <1>1, <1>3, <1>4, NoRecordApart DEF IInv, TypeOK, RestoreKept, Known, disk, files
<1> QED BY <1>1, <1>5, <1>6, <1>7 DEF IInv

\* A reached limit is the record's: the torrent it pauses has a row.
LEMMA StatusUpdateKeeps ==
  ASSUME IInv, NEW h \in Torrents, NEW policy \in BOOLEAN, NEW due \in BOOLEAN,
         StatusUpdate(h, policy, due)
  PROVE  IInv'
<1> DEFINE H == IF due THEN {h} ELSE {}
           row == RecordOf(status[h], record[h].awaiting)
<1>1. PauseAll(H, "limit") /\ H \in SUBSET Torrents /\ "limit" \in Holder
  BY DEF StatusUpdate, Holder
<1>2. /\ status' \in [Torrents -> Status]
      /\ heldBy' \in [Torrents -> Holder \cup {"none"}]
      /\ manual' \subseteq Torrents
      /\ \A k \in Torrents : status'[k].live = status[k].live
      /\ HeldOutOfQueue'
  BY <1>1, PauseAllKeeps DEF IInv
<1>3. row \in Record
  <2>1. record[h] \in Record \cup {NoRecord}
    BY DEF IInv, TypeOK
  <2>2. \A r \in Record \cup {NoRecord} : r.awaiting \in BOOLEAN
    <3>1. \A r \in Record : r.awaiting \in BOOLEAN
      BY DEF Record
    <3>2. NoRecord.awaiting \in BOOLEAN
      BY DEF NoRecord
    <3> QED BY <3>1, <3>2
  <2> QED BY <2>1, <2>2, RecordOfTyped DEF IInv, TypeOK
<1>4. /\ record' = [record EXCEPT ![h] = row]
      /\ UNCHANGED <<theme, battery, disk, files>>
  BY DEF StatusUpdate
<1>5. \E l \in {"none", "tracked", "reached"} : limits' = [limits EXCEPT ![h] = l]
  BY DEF StatusUpdate, IInv, TypeOK
<1>6. TypeOK'
  BY <1>2, <1>3, <1>4, <1>5 DEF IInv, TypeOK, Holder, battery, disk, files
<1>7. ForgottenWithRow'
  BY <1>3, <1>4, <1>5, NoRecordApart DEF IInv, TypeOK, ForgottenWithRow, Known, disk, files
<1>8. RestoreKept'
  BY <1>2, <1>3, <1>4, NoRecordApart DEF IInv, TypeOK, RestoreKept, Known, disk, files
<1> QED BY <1>2, <1>6, <1>7, <1>8 DEF IInv

\* A disk error pauses the torrent on behalf of the disk check.
LEMMA FileErrorKeeps ==
  ASSUME IInv, NEW h \in Torrents, FileError(h)
  PROVE  IInv'
<1>1. PauseAll({h}, "error") /\ {h} \in SUBSET Torrents /\ "error" \in Holder
  BY DEF FileError, Holder
<1>2. /\ status' \in [Torrents -> Status]
      /\ heldBy' \in [Torrents -> Holder \cup {"none"}]
      /\ manual' \subseteq Torrents
      /\ \A k \in Torrents : status'[k].live = status[k].live
      /\ HeldOutOfQueue'
  BY <1>1, PauseAllKeeps DEF IInv
<1>3. TypeOK'
  BY <1>2 DEF FileError, IInv, TypeOK, Holder, battery, files
<1>4. ForgottenWithRow'
  BY DEF FileError, IInv, ForgottenWithRow, Known, files
<1>5. RestoreKept'
  BY <1>2 DEF FileError, IInv, TypeOK, RestoreKept, Known, files
<1> QED BY <1>2, <1>3, <1>4, <1>5 DEF IInv

\* A removed torrent takes its row and its pause reason with it.
LEMMA TorrentRemovedKeeps ==
  ASSUME IInv, NEW h \in Torrents, TorrentRemoved(h)
  PROVE  IInv'
<1>1. TypeOK'
  BY DEF TorrentRemoved, IInv, TypeOK, flags, battery, files
<1>2. HeldOutOfQueue'
  BY DEF TorrentRemoved, IInv, HeldOutOfQueue, flags
<1>3. ForgottenWithRow'
  BY DEF TorrentRemoved, IInv, TypeOK, ForgottenWithRow, Known, files
<1>4. RestoreKept'
  BY DEF TorrentRemoved, IInv, TypeOK, RestoreKept, Known, flags, files
<1> QED BY <1>1, <1>2, <1>3, <1>4 DEF IInv

\* The disk check gives back the torrents it waited for.
LEMMA DiskCheckKeeps ==
  ASSUME IInv, DiskCheck
  PROVE  IInv'
<1> DEFINE back == {h \in expected : Back(h)}
<1>1. ResumeAll(back) /\ back \in SUBSET Torrents
  BY DEF DiskCheck, IInv, TypeOK
<1>2. /\ status' \in [Torrents -> Status]
      /\ heldBy' \in [Torrents -> Holder \cup {"none"}]
      /\ manual' \subseteq Torrents
      /\ \A k \in Torrents : status'[k].live = status[k].live
      /\ HeldOutOfQueue'
  BY <1>1, ResumeAllKeeps DEF IInv
<1>3. serial' \in [Torrents -> Volumes \cup {NoVolume}]
  BY DEF DiskCheck, IInv, TypeOK
<1>4. TypeOK'
  BY <1>2, <1>3 DEF DiskCheck, IInv, TypeOK, Holder, battery, files
<1>5. ForgottenWithRow'
  BY DEF DiskCheck, IInv, ForgottenWithRow, Known, files
<1>6. RestoreKept'
  BY <1>2 DEF DiskCheck, IInv, TypeOK, RestoreKept, Known, files
<1> QED BY <1>2, <1>4, <1>5, <1>6 DEF IInv

\* The files a launch reads hold flags, of no live torrent, and every row it
\* makes is of a torrent still to be restored.
LEMMA LaunchKeeps ==
  ASSUME IInv, NEW crashed \in BOOLEAN,
         NEW kept \in SUBSET (shelved \cup {h \in Torrents : Known(h)}),
         NEW saved \in [kept -> Saved], Launch(crashed, saved)
  PROVE  IInv'
<1>1. /\ Absent \in Status /\ ~Absent.live
      /\ FreshRow(FALSE) \in Record /\ FreshRow(FALSE) # NoRecord
      /\ Saved \subseteq Status /\ \A s \in Saved : ~s.live
  BY DEF Absent, Status, FreshRow, Record, TorrentState, NoRecord, Saved
<1>2. DOMAIN saved = kept /\ kept \subseteq Torrents
  BY DEF IInv, TypeOK
<1>3. /\ status' = [h \in Torrents |-> IF h \in kept THEN saved[h] ELSE Absent]
      /\ record' = [h \in Torrents |-> IF h \in kept THEN FreshRow(FALSE) ELSE NoRecord]
      /\ heldBy' = [h \in Torrents |->
             IF h \in kept /\ saved[h].paused /\ ~saved[h].auto THEN "restart" ELSE "none"]
      /\ restoring' = kept /\ shelved' = {}
      /\ lost' = lost \cup ((IF crashed THEN Torrents ELSE {h \in Torrents : Known(h)}) \ kept)
      /\ limits' = (IF crashed THEN stored ELSE limits) /\ stored' = limits'
      /\ manual' = {} /\ pausedByUs' = {} /\ expected' = {}
      /\ lastKnown' = NoVolume /\ serial' = [h \in Torrents |-> NoVolume]
      /\ UNCHANGED <<theme, onBattery, volume>>
  BY <1>2 DEF Launch
<1>4. TypeOK'
  BY <1>1, <1>2, <1>3 DEF IInv, TypeOK
<1>5. HeldOutOfQueue'
  BY <1>3 DEF HeldOutOfQueue
<1>6. ASSUME NEW h \in Torrents, limits'[h] # "none" PROVE h \in kept \/ h \in lost'
  <2>1. CASE crashed
    BY <1>3, <2>1
  <2>2. CASE ~crashed
    <3>1. Known(h) \/ h \in shelved \/ h \in lost
      BY <1>3, <1>6, <2>2 DEF IInv, ForgottenWithRow
    <3>2. h \in shelved => h \in kept
      BY <1>2 DEF Launch, Certain
    <3> QED BY <1>3, <2>2, <3>1, <3>2
  <2> QED BY <2>1, <2>2
<1>7. ForgottenWithRow'
  BY <1>1, <1>3, <1>6 DEF ForgottenWithRow, Known
<1>8. RestoreKept'
  BY <1>1, <1>2, <1>3 DEF RestoreKept, Known
<1> QED BY <1>4, <1>5, <1>7, <1>8 DEF IInv

\* A restore ends with a handle, or without a row; neither was watched.
LEMMA RestoreEndKeeps ==
  ASSUME IInv, NEW h \in Torrents, Restored(h) \/ RestoreRefused(h)
  PROVE  IInv'
<1>1. CASE Restored(h)
  <2>1. [status[h] EXCEPT !.live = TRUE] \in Status
    <3>1. status[h] \in Status
      BY DEF IInv, TypeOK
    <3> QED BY <3>1 DEF Status
  <2>2. TypeOK'
    BY <1>1, <2>1 DEF Restored, IInv, TypeOK, battery, disk
  <2>3. HeldOutOfQueue'
    BY <1>1 DEF Restored, IInv, TypeOK, Status, HeldOutOfQueue
  <2>4. ForgottenWithRow' /\ RestoreKept'
    BY <1>1 DEF Restored, IInv, TypeOK, ForgottenWithRow, RestoreKept, Known, disk
  <2> QED BY <2>2, <2>3, <2>4 DEF IInv
<1>2. CASE RestoreRefused(h)
  <2>1. TypeOK'
    BY <1>2 DEF RestoreRefused, IInv, TypeOK, flags, battery, disk
  <2>2. HeldOutOfQueue'
    BY <1>2 DEF RestoreRefused, IInv, HeldOutOfQueue, flags
  <2>3. ForgottenWithRow' /\ RestoreKept'
    BY <1>2 DEF RestoreRefused, IInv, TypeOK, ForgottenWithRow, RestoreKept, Known, flags, disk
  <2> QED BY <2>1, <2>2, <2>3 DEF IInv
<1> QED BY <1>1, <1>2

\* One case per action.
LEMMA NextKeeps == IInv /\ [Next]_vars => IInv'
<1> SUFFICES ASSUME IInv, [Next]_vars PROVE IInv'
  OBVIOUS
<1> USE DEF Holder
<1>1. ASSUME NEW h \in Torrents, Torrent(h) PROVE IInv'
  <2>1. CASE Pause(h)
    BY <2>1, CallKeeps DEF Pause, IInv, TypeOK, battery, disk
  <2>2. CASE Resume(h)
    BY <2>2, CallKeeps DEF Resume, IInv, TypeOK, battery, disk
  <2> QED
    BY <1>1, <2>1, <2>2, AddFileKeeps, AddMagnetKeeps, StartAfterAnalysisKeeps,
       EngineKeeps, StatusUpdateKeeps, FileErrorKeeps, TorrentRemovedKeeps, RestoreEndKeeps
    DEF Torrent
<1>2. CASE BatteryPause
  <2> DEFINE active == {h \in Torrents : Known(h) /\ record[h].state \in ActiveDownloadStates}
  <2>1. PauseAll(active, "battery") /\ active \in SUBSET Torrents
    BY <1>2 DEF BatteryPause
  <2>2. /\ UNCHANGED <<record, theme, onBattery, disk, limits, files>>
        /\ pausedByUs' = pausedByUs \cup active
    BY <1>2 DEF BatteryPause
  <2> HIDE DEF active
  <2> QED BY <2>1, <2>2, CallKeeps DEF IInv, TypeOK, disk
<1>3. CASE BatteryResume
  BY <1>3, CallKeeps DEF BatteryResume, IInv, TypeOK, disk
<1>4. CASE DiskCheck
  BY <1>4, DiskCheckKeeps
<1>5. ASSUME NEW cccp \in BOOLEAN, SetTheme(cccp) PROVE IInv'
  <2>1. PICK H \in SUBSET Torrents : PauseAll(H, "theme")
    BY <1>5 DEF SetTheme
  <2>2. theme' = cccp /\ UNCHANGED <<record, battery, disk, limits, files>>
    BY <1>5 DEF SetTheme
  <2> QED BY <2>1, <2>2, CallKeeps DEF IInv, TypeOK, battery, disk
<1>6. CASE Power
  <2>1. TypeOK'
    BY <1>6 DEF Power, IInv, TypeOK, disk, files
  <2>2. HeldOutOfQueue'
    BY <1>6 DEF Power, IInv, HeldOutOfQueue
  <2>3. ForgottenWithRow' /\ RestoreKept'
    BY <1>6 DEF Power, IInv, ForgottenWithRow, RestoreKept, Known, disk, files
  <2> QED BY <2>1, <2>2, <2>3 DEF IInv
<1>7. ASSUME NEW v \in Volumes \cup {NoVolume}, Swap(v) PROVE IInv'
  <2>1. TypeOK'
    BY <1>7 DEF Swap, IInv, TypeOK, engine, flags, battery, files
  <2>2. HeldOutOfQueue' /\ ForgottenWithRow' /\ RestoreKept'
    BY <1>7 DEF Swap, IInv, HeldOutOfQueue, ForgottenWithRow, RestoreKept, Known, engine, flags, files
  <2> QED BY <2>1, <2>2 DEF IInv
<1>8. CASE UNCHANGED vars
  <2>1. TypeOK'
    BY <1>8 DEF IInv, TypeOK, vars, engine, flags, battery, disk, files
  <2>2. HeldOutOfQueue' /\ ForgottenWithRow' /\ RestoreKept'
    BY <1>8 DEF IInv, HeldOutOfQueue, ForgottenWithRow, RestoreKept, Known, vars, engine, flags,
                disk, files
  <2> QED BY <2>1, <2>2 DEF IInv
<1>9. CASE WriteLimits
  <2>1. TypeOK'
    BY <1>9 DEF WriteLimits, IInv, TypeOK, engine, flags, battery, disk
  <2>2. HeldOutOfQueue' /\ ForgottenWithRow' /\ RestoreKept'
    BY <1>9 DEF WriteLimits, IInv, HeldOutOfQueue, ForgottenWithRow, RestoreKept, Known, engine,
                flags, disk
  <2> QED BY <2>1, <2>2 DEF IInv
<1> QED BY <1>1, <1>2, <1>3, <1>4, <1>5, <1>6, <1>7, <1>8, <1>9, LaunchKeeps DEF Next

-----------------------------------------------------------------------------
(* The invariants                                                          *)

\* Types, held torrents out of the queue, memory only of present rows and
\* restores nobody watches yet, in every reachable state.
LEMMA Invariance == Spec => []IInv
BY InitHolds, NextKeeps, PTL DEF Spec

\* Every reachable state is typed.
THEOREM TypeCorrect == Spec => []TypeOK
<1>1. IInv => TypeOK
  BY DEF IInv
<1> QED BY <1>1, Invariance, PTL

\* libtorrent's queue never starts a torrent that anyone here holds.
THEOREM HeldTorrentsStayPaused == Spec => []PauseSticks
<1>1. IInv => PauseSticks
  BY DEF IInv, HeldOutOfQueue, PauseSticks
<1> QED BY <1>1, Invariance, PTL

\* The disk service watches only torrents with a row; a share limit outlives
\* its row only where a launch could not restore the torrent, or the end of
\* the process lost its resume file.
THEOREM NothingWatchesARemovedRow == Spec => []ForgottenWithRow
<1>1. IInv => ForgottenWithRow
  BY DEF IInv
<1> QED BY <1>1, Invariance, PTL

-----------------------------------------------------------------------------
(* The steps                                                               *)

\* What a step may do to one torrent's queue flag and to its holder.  Only
\* a resume gives a held torrent back, and only a share limit that was not
\* reached holds for the limit.
LEMMA PauseAllSteps ==
  ASSUME TypeOK, NEW H \in SUBSET Torrents, NEW who, PauseAll(H, who),
         NEW k \in Torrents
  PROVE  /\ ~status[k].auto => ~status'[k].auto
         /\ heldBy'[k] = heldBy[k] \/ (heldBy'[k] = who /\ k \in H)
<1>1. CASE k \in H /\ status[k].live
  <2>1. status'[k] = Held(status[k]) /\ heldBy'[k] = who
    BY <1>1 DEF PauseAll
  <2> QED BY <1>1, <2>1, FlagsTyped DEF TypeOK
<1>2. CASE ~(k \in H /\ status[k].live)
  BY <1>2 DEF PauseAll
<1> QED BY <1>1, <1>2

\* A resume of a set leaves alone the torrents whose row blocks it, and gives
\* no torrent to another owner.
LEMMA ResumeAllSteps ==
  ASSUME NEW H \in SUBSET Torrents, ResumeAll(H), NEW k \in Torrents
  PROVE  /\ Blocked(record[k]) => status'[k] = status[k]
         /\ heldBy'[k] \in {heldBy[k], "none"}
BY DEF ResumeAll, Resumable

\* Under the theme no step gives an incomplete torrent back to the queue.
LEMMA ThemeStep ==
  ASSUME TypeOK, Next, theme, theme', NEW k \in Torrents,
         ~record[k].done, ~status[k].auto
  PROVE  ~(status'[k].live /\ status'[k].auto)
<1>1. ASSUME NEW H \in SUBSET Torrents, NEW who, PauseAll(H, who)
      PROVE  ~status'[k].auto
  BY <1>1, PauseAllSteps
<1>2. ASSUME NEW H \in SUBSET Torrents, ResumeAll(H)
      PROVE  ~status'[k].auto
  BY <1>2, ResumeAllSteps DEF Blocked
<1>3. status \in [Torrents -> Status]
  BY DEF TypeOK
<1>4. ASSUME NEW h \in Torrents, Torrent(h) PROVE ~status'[k].auto
  <2>1. ASSUME NEW share \in BOOLEAN, AddFile(h, share) PROVE ~status'[k].auto
    <3> DEFINE s == [live |-> TRUE, paused |-> FALSE, auto |-> TRUE, meta |-> TRUE, done |-> FALSE]
    <3>1. status' = [status EXCEPT ![h] = Held(s)]
      BY <2>1 DEF AddFile
    <3> QED BY <1>3, <3>1 DEF Held
  <2>2. ASSUME NEW start \in BOOLEAN, NEW share \in BOOLEAN, AddMagnet(h, start, share)
        PROVE  ~status'[k].auto
    <3>1. status' = [status EXCEPT ![h] = [Absent EXCEPT !.live = TRUE]]
      BY <2>2 DEF AddMagnet
    <3> QED BY <1>3, <3>1 DEF Absent
  <2>3. CASE StartAfterAnalysis(h) \/ Resume(h)
    BY <1>2, <2>3 DEF StartAfterAnalysis, Resume
  <2>4. CASE Pause(h) \/ FileError(h)
    BY <1>1, <2>4 DEF Pause, FileError
  <2>5. CASE Remove(h) \/ Metadata(h) \/ Complete(h) \/ Damage(h) \/ QueueTurn(h)
    BY <1>3, <2>5 DEF Remove, Metadata, Complete, Damage, QueueTurn, Absent, Status
  <2>6. ASSUME NEW policy \in BOOLEAN, NEW due \in BOOLEAN, StatusUpdate(h, policy, due)
        PROVE  ~status'[k].auto
    <3>1. PICK H \in SUBSET Torrents : PauseAll(H, "limit")
      BY <2>6 DEF StatusUpdate
    <3> QED BY <1>1, <3>1
  <2>7. CASE TorrentRemoved(h)
    BY <2>7 DEF TorrentRemoved, flags
  <2>8. CASE Restored(h) \/ RestoreRefused(h)
    BY <1>3, <2>8 DEF Restored, RestoreRefused, flags, Status
  <2> QED BY <1>4, <2>1, <2>2, <2>3, <2>4, <2>5, <2>6, <2>7, <2>8 DEF Torrent
<1>5. CASE BatteryPause
  <2>1. PICK H \in SUBSET Torrents : PauseAll(H, "battery")
    BY <1>5 DEF BatteryPause
  <2> QED BY <1>1, <2>1
<1>6. CASE BatteryResume
  BY <1>2, <1>6 DEF BatteryResume, TypeOK
<1>7. CASE DiskCheck
  <2>1. PICK H \in SUBSET Torrents : ResumeAll(H)
    BY <1>7 DEF DiskCheck, TypeOK
  <2> QED BY <1>2, <2>1
<1>8. ASSUME NEW cccp \in BOOLEAN, SetTheme(cccp) PROVE ~status'[k].auto
  BY <1>8 DEF SetTheme
<1>9. CASE Power \/ WriteLimits \/ \E v \in Volumes \cup {NoVolume} : Swap(v)
  BY <1>9 DEF Power, Swap, WriteLimits, engine, flags
<1>10. ASSUME NEW crashed \in BOOLEAN, NEW kept \in SUBSET (shelved \cup {h \in Torrents : Known(h)}),
              NEW saved \in [kept -> Saved], Launch(crashed, saved)
       PROVE  ~status'[k].live
  BY <1>10 DEF Launch, Saved, Absent
<1> QED BY <1>4, <1>5, <1>6, <1>7, <1>8, <1>9, <1>10 DEF Next

\* Nothing holds for a limit that was reached before.
LEMMA LimitStep ==
  ASSUME TypeOK, Next, NEW k \in Torrents,
         limits[k] = "reached", heldBy[k] # "limit"
  PROVE  heldBy'[k] # "limit"
<1>1. ASSUME NEW H \in SUBSET Torrents, NEW who, PauseAll(H, who),
             who # "limit" \/ k \notin H
      PROVE  heldBy'[k] # "limit"
  BY <1>1, PauseAllSteps
<1>2. ASSUME NEW H \in SUBSET Torrents, ResumeAll(H)
      PROVE  heldBy'[k] # "limit"
  BY <1>2, ResumeAllSteps
<1>3. DOMAIN heldBy = Torrents
  BY DEF TypeOK
<1>4. ASSUME NEW h \in Torrents, Torrent(h) PROVE heldBy'[k] # "limit"
  <2>1. CASE \/ \E share \in BOOLEAN : AddFile(h, share)
             \/ \E start, share \in BOOLEAN : AddMagnet(h, start, share)
    BY <1>3, <2>1 DEF AddFile, AddMagnet
  <2>2. CASE StartAfterAnalysis(h) \/ Resume(h)
    BY <1>2, <2>2 DEF StartAfterAnalysis, Resume
  <2>3. CASE Pause(h) \/ FileError(h)
    BY <1>1, <2>3 DEF Pause, FileError
  <2>4. CASE Remove(h) \/ Metadata(h) \/ Complete(h) \/ Damage(h) \/ QueueTurn(h)
    BY <2>4 DEF Remove, Metadata, Complete, Damage, QueueTurn
  <2>5. ASSUME NEW policy \in BOOLEAN, NEW due \in BOOLEAN, StatusUpdate(h, policy, due)
        PROVE  heldBy'[k] # "limit"
    <3>1. due => limits[h] # "reached"
      BY <2>5 DEF StatusUpdate
    <3>2. PauseAll(IF due THEN {h} ELSE {}, "limit")
      BY <2>5 DEF StatusUpdate
    <3>3. k \notin (IF due THEN {h} ELSE {})
      BY <3>1
    <3> QED BY <1>1, <3>2, <3>3
  <2>6. CASE TorrentRemoved(h) \/ Restored(h) \/ RestoreRefused(h)
    BY <2>6 DEF TorrentRemoved, Restored, RestoreRefused, flags
  <2> QED BY <1>4, <2>1, <2>2, <2>3, <2>4, <2>5, <2>6 DEF Torrent
<1>5. CASE BatteryPause
  <2>1. PICK H \in SUBSET Torrents : PauseAll(H, "battery")
    BY <1>5 DEF BatteryPause
  <2> QED BY <1>1, <2>1
<1>6. CASE BatteryResume
  BY <1>2, <1>6 DEF BatteryResume, TypeOK
<1>7. CASE DiskCheck
  <2>1. PICK H \in SUBSET Torrents : ResumeAll(H)
    BY <1>7 DEF DiskCheck, TypeOK
  <2> QED BY <1>2, <2>1
<1>8. ASSUME NEW cccp \in BOOLEAN, SetTheme(cccp) PROVE heldBy'[k] # "limit"
  <2>1. PICK H \in SUBSET Torrents : PauseAll(H, "theme")
    BY <1>8 DEF SetTheme
  <2> QED BY <1>1, <2>1
<1>9. CASE Power \/ WriteLimits \/ \E v \in Volumes \cup {NoVolume} : Swap(v)
  BY <1>9 DEF Power, Swap, WriteLimits, engine, flags
<1>10. ASSUME NEW crashed \in BOOLEAN, NEW kept \in SUBSET (shelved \cup {h \in Torrents : Known(h)}),
              NEW saved \in [kept -> Saved], Launch(crashed, saved)
       PROVE  heldBy'[k] # "limit"
  BY <1>10 DEF Launch
<1> QED BY <1>4, <1>5, <1>6, <1>7, <1>8, <1>9, <1>10 DEF Next

\* While the CCCP theme stays on, whatever resumes, adds or ends an analysis
\* leaves an incomplete torrent out of libtorrent's queue.
THEOREM ThemeHoldsIncomplete == Spec => NothingStartsUnderCCCP
<1> DEFINE Stays == \A h \in Torrents :
              theme /\ theme' /\ ~record[h].done /\ ~status[h].auto
                  => ~(status'[h].live /\ status'[h].auto)
<1>1. IInv /\ [Next]_vars => [Stays]_vars
  BY ThemeStep DEF IInv
<1>2. NothingStartsUnderCCCP <=> [][Stays]_vars
  BY DEF NothingStartsUnderCCCP
<1> HIDE DEF Stays
<1> QED BY <1>1, <1>2, Invariance, PTL DEF Spec

\* A share limit that was reached never pauses its torrent again.
THEOREM LimitHoldsOnce == Spec => LimitPausesOnce
<1> DEFINE Once == \A h \in Torrents :
              limits[h] = "reached" /\ heldBy[h] # "limit" => heldBy'[h] # "limit"
<1>1. IInv /\ [Next]_vars => [Once]_vars
  BY LimitStep DEF IInv
<1>2. LimitPausesOnce <=> [][Once]_vars
  BY DEF LimitPausesOnce
<1> HIDE DEF Once
<1> QED BY <1>1, <1>2, Invariance, PTL DEF Spec
=============================================================================
