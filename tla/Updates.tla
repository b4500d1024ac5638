-------------------------------- MODULE Updates --------------------------------
(***************************************************************************)
(* engine/update_checker.py, engine/url_fetch.py under it and              *)
(* ui/web/bridge_update.py over it: a check for a newer release, and the   *)
(* download of its installer, which is offered only once its hash is that  *)
(* of the release.  Both run on the pool and answer by queued signals.     *)
(***************************************************************************)
CONSTANTS Downloads     \* the temporary files, one per click on the button

VARIABLES
    check,          \* "none", "fetching", "answered" or "failed"
    release,        \* what it found: "same", "dismissed" or "newer"
    asset,          \* installer in _latest_assets: "none", "bare" or "hashed"
    releaseUrl,     \* _pending_release_url is set
    task,           \* each download: "none", queued with what it will fetch
                    \* ("bare", "hashed"), "fetching", "verified" or "failed"
    file,           \* in the temp folder: "none", "partial", "bad", "good"
    stuck,          \* history: files whose removal failed, or that a crash left
    offered,        \* installers the page offers to launch
    launched,       \* history: what was run: "nothing" or the file as it was
    browser,        \* history: the release page was opened
    cancelled       \* cancel_all_fetches was called

checking == <<check, release, asset, releaseUrl>>
downloads == <<task, file, stuck, offered>>
vars == <<checking, downloads, launched, browser, cancelled>>

Init ==
    /\ check = "none" /\ release = "same" /\ asset = "none" /\ releaseUrl = FALSE
    /\ task = [d \in Downloads |-> "none"] /\ file = task
    /\ stuck = {} /\ offered = {} /\ launched = "nothing"
    /\ browser = FALSE /\ cancelled = FALSE

----------------------------------------------------------------------------
(* _build_proxy_opener: how a fetch goes out.                              *)
Route(enabled, type, force) ==
    IF ~enabled \/ type = "none" THEN "direct"
    ELSE IF type = "http" THEN "proxy"
    ELSE IF force THEN "refused" ELSE "direct"

CheckNow ==
    /\ check = "none" /\ ~cancelled
    /\ check' = "fetching"
    /\ UNCHANGED <<release, asset, releaseUrl, downloads, launched, browser, cancelled>>

(* fetch_url: any failure, a malformed answer and a quit all end the same. *)
FetchRelease ==
    /\ check = "fetching"
    /\ check' \in IF cancelled THEN {"failed"} ELSE {"failed", "answered"}
    /\ UNCHANGED <<release, asset, releaseUrl, downloads, launched, browser, cancelled>>

Checked ==
    /\ check \in {"answered", "failed"}
    /\ check' = "none"
    /\ IF check = "failed" THEN UNCHANGED <<release, asset, releaseUrl>>
       ELSE /\ release' \in {"same", "dismissed", "newer"}
            /\ asset' \in {"none", "bare", "hashed"}
            /\ releaseUrl' = (releaseUrl \/ release' = "newer")
    /\ UNCHANGED <<downloads, launched, browser, cancelled>>

----------------------------------------------------------------------------
(* _on_verify_failed: the release page is opened instead.                  *)
VerifyFailed == browser' = (browser \/ releaseUrl)

DownloadInstaller(d) ==
    /\ releaseUrl /\ ~cancelled
    /\ task[d] = "none" /\ file[d] = "none" /\ d \notin offered
    /\ IF asset = "none" THEN VerifyFailed /\ UNCHANGED task
       ELSE task' = [task EXCEPT ![d] = asset] /\ UNCHANGED browser
    /\ UNCHANGED <<checking, file, stuck, offered, launched, cancelled>>

(* The installer is the one of the click, whatever a check has found since. *)
(* The task starts by removing what earlier downloads left; a file that is *)
(* being written is locked.                                                *)
StartDownload(d) ==
    /\ task[d] \in {"bare", "hashed"}
    /\ IF task[d] = "bare" THEN task' = [task EXCEPT ![d] = "failed"] /\ UNCHANGED <<file, stuck>>
       ELSE \E removed \in SUBSET {e \in Downloads : task[e] # "fetching"} :
            /\ task' = [task EXCEPT ![d] = "fetching"]
            /\ file' = [e \in Downloads |-> IF e = d THEN "partial"
                                            ELSE IF e \in removed THEN "none" ELSE file[e]]
            /\ stuck' = stuck \ (removed \cup {d})
    /\ UNCHANGED <<checking, offered, launched, browser, cancelled>>

\* mutant: a download that is complete is taken for the right one
Verified_Length(outcome) == outcome \in {"match", "mismatch"}

Verified(outcome) == outcome = "match"

(* fetch_url_to_file: the file stays only if verified; its removal may     *)
(* fail.  A fetch cancelled by the quit reports nothing.                   *)
Fetched(d, outcome, removed) ==
    /\ task[d] = "fetching" /\ (outcome = "cancelled" => cancelled)
    /\ task' = [task EXCEPT ![d] = CASE Verified(outcome) -> "verified"
                                     [] outcome = "cancelled" -> "none"
                                     [] OTHER -> "failed"]
    /\ file' = [file EXCEPT ![d] = IF outcome = "match" THEN "good"
                                   ELSE IF Verified(outcome) \/ ~removed THEN "bad" ELSE "none"]
    /\ stuck' = IF Verified(outcome) \/ removed THEN stuck ELSE stuck \cup {d}
    /\ UNCHANGED <<checking, offered, launched, browser, cancelled>>

Reported(d) ==
    /\ task[d] \in {"verified", "failed"}
    /\ task' = [task EXCEPT ![d] = "none"]
    /\ IF task[d] = "verified" THEN offered' = offered \cup {d} /\ UNCHANGED browser
       ELSE VerifyFailed /\ UNCHANGED offered
    /\ UNCHANGED <<checking, file, stuck, launched, cancelled>>

(* launchInstaller, then the window closes; discardInstaller.              *)
LaunchInstaller(d) ==
    /\ d \in offered
    /\ launched' = IF file[d] = "none" THEN launched ELSE file[d]
    /\ offered' = offered \ {d}
    /\ UNCHANGED <<checking, task, file, stuck, browser, cancelled>>

DiscardInstaller(d) ==
    /\ d \in offered
    /\ offered' = offered \ {d} /\ file' = [file EXCEPT ![d] = "none"]
    /\ UNCHANGED <<checking, task, stuck, launched, browser, cancelled>>

(* The quit drops the tasks that are queued and stops the ones that run.   *)
Quit ==
    /\ ~cancelled /\ cancelled' = TRUE
    /\ task' = [d \in Downloads |-> IF task[d] \in {"bare", "hashed"} THEN "none" ELSE task[d]]
    /\ UNCHANGED <<checking, file, stuck, offered, launched, browser>>

(* The next launch, after a quit or a crash.                               *)
Relaunch ==
    /\ check' = "none" /\ release' = "same" /\ asset' = "none" /\ releaseUrl' = FALSE
    /\ task' = [d \in Downloads |-> "none"] /\ offered' = {}
    /\ file' = [d \in Downloads |-> IF file[d] = "partial" THEN "bad" ELSE file[d]]
    /\ stuck' = stuck \cup {d \in Downloads : file[d] = "partial"}
    /\ cancelled' = FALSE
    /\ UNCHANGED <<launched, browser>>

Next ==
    \/ CheckNow \/ FetchRelease \/ Checked \/ Quit \/ Relaunch
    \/ \E d \in Downloads :
        \/ DownloadInstaller(d) \/ StartDownload(d) \/ Reported(d)
        \/ LaunchInstaller(d) \/ DiscardInstaller(d)
        \/ \E o \in {"match", "mismatch", "error", "cancelled"}, r \in BOOLEAN : Fetched(d, o, r)

Spec == Init /\ [][Next]_vars

----------------------------------------------------------------------------
TypeOK ==
    /\ check \in {"none", "fetching", "answered", "failed"}
    /\ release \in {"same", "dismissed", "newer"} /\ asset \in {"none", "bare", "hashed"}
    /\ task \in [Downloads -> {"none", "bare", "hashed", "fetching", "verified", "failed"}]
    /\ file \in [Downloads -> {"none", "partial", "bad", "good"}]
    /\ stuck \subseteq Downloads /\ offered \subseteq Downloads
    /\ launched \in {"nothing", "partial", "bad", "good"}
    /\ {releaseUrl, browser, cancelled} \subseteq BOOLEAN

(* Nothing is run that was not verified, however downloads overlap and     *)
(* clean up after one another; no other file outlives its download unless  *)
(* it could not be removed; and the kill switch lets no fetch out directly *)
(* when there is a proxy to go through.                                    *)
OnlyVerified ==
    /\ launched \in {"nothing", "good"}
    /\ \A d \in offered : file[d] \in {"good", "none"}
    /\ \A d \in Downloads : /\ file[d] = "bad" => d \in stuck
                            /\ file[d] = "partial" <=> task[d] = "fetching"
    /\ \A e \in BOOLEAN, type \in {"none", "http", "socks5"} :
           e /\ type # "none" => Route(e, type, TRUE) # "direct"
=============================================================================
