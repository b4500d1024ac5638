----------------------------- MODULE SettingsStore -----------------------------
(***************************************************************************)
(* config/settings.py (load, save), config/settings_history.py (the log of *)
(* what each save changed, and its restore) and the import of              *)
(* ui/web/bridge_profile_security.py, which writes the file itself.        *)
(***************************************************************************)
EXTENDS Integers, Sequences, SequencesExt

CONSTANTS
    Fields, Excluded,   \* fields of Settings; those never logged
    Values, Default,
    None, Corrupt,      \* no content; a file nothing can read
    Keep, TrimAt,       \* lines kept; lines over which the log is cut
    MaxLog              \* bound on the lines of a log that cannot be cut

Config == [Fields -> Values]
Logged == Fields \ Excluded

VARIABLES
    settings,   \* the Settings in memory
    file,       \* config.json
    lastSaved,  \* _last_saved_config
    log,        \* history.jsonl: for each line, the old value of what changed
    torn,       \* its last line was cut short, and has no end of line
    backup,     \* the last of config_backups/, its secrets gone
    before,     \* history: the file before its last write
    writer      \* history: who wrote last, and left what undoes it

vars == <<settings, file, lastSaved, log, torn, backup, before, writer>>

Defaults == [f \in Fields |-> Default]

Init ==
    /\ settings = Defaults /\ file = Defaults /\ lastSaved = None
    /\ log = <<>> /\ torn = FALSE /\ backup = None
    /\ before = None /\ writer = "none"

----------------------------------------------------------------------------
Trim(l) == IF Len(l) > TrimAt THEN SubSeq(l, Len(l) - Keep + 1, Len(l)) ELSE l

Changes(old, new) == {f \in Logged : old[f] # new[f]}

\* a line that cannot be read: it gives no field
Half == [f \in {} |-> Default]

(* The line is not written, or not whole (a full disk, the process dying). *)
AppendFails ==
    /\ log' \in {log, IF torn THEN log ELSE Append(log, Half)}
    /\ torn' = (torn \/ log' # log)
    /\ writer' = "unlogged"

(* It is, and ends the half line before it, if there is one: neither can   *)
(* be read.  The cut may fail.                                             *)
Appends(line) ==
    LET l == IF torn THEN log ELSE Append(log, line) IN
    /\ log' \in {l, Trim(l)}
    /\ torn' = FALSE
    /\ writer' = IF torn THEN "unlogged" ELSE "save"

(* record_settings_change: best-effort, it never raises.                   *)
RecordChange(old, new) ==
    IF old \in {None, Corrupt} \/ Changes(old, new) = {}
    THEN writer' = "save" /\ UNCHANGED <<log, torn>>
    ELSE AppendFails \/ Appends([f \in Changes(old, new) |-> old[f]])

LastConfig == IF lastSaved # None THEN lastSaved ELSE file

(* Settings.save of s: replaces the file, then logs against what was there. *)
Save(s) ==
    /\ Len(log) < MaxLog
    /\ settings' = s /\ file' = s /\ lastSaved' = s
    /\ RecordChange(LastConfig, s)
    /\ before' = file
    /\ UNCHANGED backup

(* A page changes one field and saves; a write that raises leaves it       *)
(* changed in memory alone.                                                *)
Change(f, v) == Save([settings EXCEPT ![f] = v])

SaveFails(f, v) ==
    /\ settings' = [settings EXCEPT ![f] = v]
    /\ UNCHANGED <<file, lastSaved, log, torn, backup, before, writer>>

(* The process dies between the file and the end of its log line.          *)
CrashAfterReplace(f, v) ==
    /\ Len(log) < MaxLog
    /\ settings' = [settings EXCEPT ![f] = v] /\ file' = settings' /\ lastSaved' = None
    /\ AppendFails
    /\ before' = file
    /\ UNCHANGED backup

(* restore_settings_snapshot of a line of the log that can be read.        *)
RestoreSnapshot(i) ==
    /\ log[i] # Half
    /\ Save([f \in Fields |-> IF f \in DOMAIN log[i] THEN log[i][f] ELSE settings[f]])

Redact(c) == [f \in Fields |-> IF f \in Excluded THEN Default ELSE c[f]]

(* _backup_current_config: best-effort.  `kept': the copy is written.      *)
BackupCurrentConfig(kept) ==
    /\ kept => file # Corrupt
    /\ backup' = IF kept THEN Redact(file) ELSE backup

\* mutant: the import does not drop what the process knows of the file
ImportConfig_Remembers(c, kept) ==
    /\ BackupCurrentConfig(kept)
    /\ file' = c
    /\ before' = file /\ writer' = IF kept THEN "import" ELSE "unsaved"
    /\ UNCHANGED <<settings, lastSaved, log, torn>>

(* importConfig: in place, so a write that fails leaves the file, or half  *)
(* of it, and the Settings in memory stay what they were.                  *)
ImportConfig(c, kept) ==
    /\ BackupCurrentConfig(kept)
    /\ lastSaved' = None
    /\ file' \in {c, Corrupt, file}
    /\ before' = file /\ writer' = IF kept THEN "import" ELSE "unsaved"
    /\ UNCHANGED <<settings, log, torn>>

(* An old copy cannot be deleted: the import raises before it writes.  The *)
(* copy before the last is there still, but not looked at here.            *)
ImportRaises ==
    /\ BackupCurrentConfig(TRUE)
    /\ writer' = IF writer = "import" THEN "unsaved" ELSE writer
    /\ UNCHANGED <<settings, file, lastSaved, log, torn, before>>

(* "The user can delete it mid-run."                                       *)
DeleteBackups ==
    /\ log' = <<>> /\ torn' = FALSE /\ backup' = None
    /\ writer' = "none"
    /\ UNCHANGED <<settings, file, lastSaved, before>>

(* load, at the next launch.                                               *)
Load ==
    /\ settings' = IF file = Corrupt THEN Defaults ELSE file
    /\ lastSaved' = None
    /\ UNCHANGED <<file, log, torn, backup, before, writer>>

Next ==
    \/ \E f \in Fields, v \in Values : Change(f, v) \/ SaveFails(f, v) \/ CrashAfterReplace(f, v)
    \/ \E i \in DOMAIN log : RestoreSnapshot(i)
    \/ \E c \in Config, kept \in BOOLEAN : ImportConfig(c, kept)
    \/ ImportRaises \/ DeleteBackups \/ Load

Spec == Init /\ [][Next]_vars

----------------------------------------------------------------------------
TypeOK ==
    /\ settings \in Config /\ file \in Config \cup {Corrupt}
    /\ lastSaved \in Config \cup {None}
    /\ backup \in Config \cup {None} /\ before \in Config \cup {None, Corrupt}
    /\ Len(log) <= MaxLog /\ \A l \in Range(log) : DOMAIN l \subseteq Logged
    /\ torn \in BOOLEAN
    /\ writer \in {"none", "save", "unlogged", "import", "unsaved"}

(* But for the fields that are kept out, the last write of the file can be *)
(* undone: a save whose line was written whole, on a line of its own, by   *)
(* the last line of the log, and an import whose copy was written, by that *)
(* copy.  What these best-effort writes or a crash lose is the undo of one *)
(* write, for the next is never logged against a stale copy of the file.   *)
Undoes(l) == [f \in Logged |-> IF f \in DOMAIN l THEN l[f] ELSE file[f]]

Undoable ==
    /\ lastSaved # None => lastSaved = file
    /\ before \in Config =>
        LET old == [f \in Logged |-> before[f]]
        IN  /\ writer = "save" =>
                old = [f \in Logged |-> file[f]] \/ (log # <<>> /\ Undoes(Last(log)) = old)
            /\ writer = "import" => [f \in Logged |-> backup[f]] = old
=============================================================================
