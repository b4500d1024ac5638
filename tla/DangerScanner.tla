----------------------------- MODULE DangerScanner -----------------------------
(***************************************************************************)
(* danger_scanner: how dangerous a file of a torrent looks, from its name, *)
(* size and flags alone.  A file is what the rules tell apart.             *)
(***************************************************************************)
EXTENDS Naturals, FiniteSets

Extensions == {"executable", "image", "macro", "media", "benign", "none", "unknown"}

NameKinds == {"plain", "crack", "reversed"}     \* no match, a pattern's, RTL override

(* FileEntry.  What follows a double extension's first dot ends in an       *)
(* executable one, but its own separator need not be a dot: `x.pdf_exe' is *)
(* double, and its extension, after the last dot, is one nobody knows.     *)
FileEntries ==
    {f \in [ext : Extensions, name : NameKinds, double : BOOLEAN, flag : BOOLEAN,
            tiny : BOOLEAN, hidden : BOOLEAN] : f.double => f.ext \in {"executable", "unknown"}}

\* mutant: the score of an executable before it was raised
Weight_Before == [
    double |-> 60, executable |-> 25, image |-> 25, macro |-> 20, flag |-> 30,
    mismatch |-> 20, reversed |-> 70, crack |-> 30, tiny |-> 15, hidden |-> 20, unknown |-> 15]

(* The points of each rule; SuspiciousNameRule gives one of two.           *)
Weight == [
    double |-> 60, executable |-> 35, image |-> 25, macro |-> 20, flag |-> 30,
    mismatch |-> 20, reversed |-> 70, crack |-> 30, tiny |-> 15, hidden |-> 20, unknown |-> 15]

Points(r, hit) == IF hit THEN Weight[r] ELSE 0

(* DEFAULT_RULES and scan_files, for one file of a torrent that is media   *)
(* by half.                                                                *)
Score(f, media) ==
    LET exe == f.ext = "executable"
        points == Points(f.ext, f.ext \in DOMAIN Weight) + Points(f.name, f.name \in DOMAIN Weight)
                  + Points("double", f.double) + Points("flag", f.flag /\ ~exe)
                  + Points("mismatch", exe /\ media) + Points("tiny", exe /\ f.tiny)
                  + Points("hidden", f.hidden)
    IN  IF points > 100 THEN 100 ELSE points

(* _score_to_level: SAFE, LOW, MEDIUM, HIGH, CRITICAL.                     *)
Level(score) == Cardinality({t \in {10, 30, 55, 80} : score >= t})

Flagged(f, media) == Level(Score(f, media)) >= 2

(* auto_exclude_indices.                                                   *)
AutoExcluded(f, media, threshold) == Score(f, media) >= threshold

----------------------------------------------------------------------------
(* Whatever else is true of it, an executable is flagged, and a file that  *)
(* hides its extension is left out at the default threshold; an unknown    *)
(* extension alone is not flagged; and no sign of danger ever lowers a     *)
(* score.                                                                  *)
ScansRight ==
    \A f \in FileEntries, media \in BOOLEAN :
        /\ f.ext = "executable" => Flagged(f, media)
        /\ f.double \/ (f.name = "reversed") => AutoExcluded(f, media, 60)
        /\ f.ext = "unknown" /\ f.name = "plain" /\ ~f.double /\ ~f.flag /\ ~f.hidden
              => ~Flagged(f, media)
        /\ \A sign \in {"double", "flag", "tiny", "hidden"} :
               LET g == [f EXCEPT ![sign] = TRUE]
               IN  g \in FileEntries => Score(g, media) >= Score(f, media)
        /\ Score(f, TRUE) >= Score(f, FALSE)
=============================================================================
