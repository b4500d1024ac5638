--------------------------- MODULE NetworkProfiles ---------------------------
(***************************************************************************)
(* engine/network_profile_switcher.py, engine/settings_profiles.py and the *)
(* part of ui/web/bridge_profile_advanced.py that edits their stores: the  *)
(* settings profile linked to the Wi-Fi network is applied when the        *)
(* network changes.  netsh runs on a pool thread; its answer is a queued   *)
(* signal.  Both stores write their file on every change, atomically.      *)
(***************************************************************************)
CONSTANTS
    Ssids, NoSsid,      \* networks; "" when there is none, or netsh failed
    Names,              \* of settings profiles
    Contents, Nothing   \* the seven fields of a profile; no profile, no link

VARIABLES
    switchOn,   \* Settings.network_profile_auto_switch_enabled
    settings,   \* the fields of Settings a profile carries
    applied,    \* the same, as the libtorrent session has them
    profiles,   \* SettingsProfileStore, by name
    links,      \* NetworkProfileStore: the profile name linked to a network
    ssid,       \* the network the machine is on
    lastSsid,   \* _last_ssid
    query,      \* a netsh query: "none", "running" or "answered"
    answer,     \* what it read
    inFlight    \* _check_in_flight

stores == <<profiles, links>>
asked == <<query, answer, inFlight>>
vars == <<switchOn, settings, applied, stores, ssid, lastSsid, asked>>

Init ==
    /\ switchOn = FALSE
    /\ settings = (CHOOSE c \in Contents : TRUE) /\ applied = settings
    /\ profiles = [n \in Names |-> Nothing] /\ links = [s \in Ssids |-> Nothing]
    /\ ssid = NoSsid /\ lastSsid = NoSsid
    /\ query = "none" /\ answer = NoSsid /\ inFlight = FALSE

----------------------------------------------------------------------------
(* The live-apply chain, the same by hand and by the switcher.             *)
ApplyContent(c) == settings' = c /\ applied' = c

ApplyProfile(n) ==
    /\ profiles[n] # Nothing
    /\ ApplyContent(profiles[n])
    /\ UNCHANGED <<switchOn, stores, ssid, lastSsid, asked>>

(* The General page saves its fields, and the session keeps the old ones.  *)
SaveGeneral(c) ==
    /\ settings' = c
    /\ UNCHANGED <<switchOn, applied, stores, ssid, lastSsid, asked>>

SaveFromSettings(n) ==
    /\ profiles' = [profiles EXCEPT ![n] = settings]
    /\ UNCHANGED <<switchOn, settings, applied, links, ssid, lastSsid, asked>>

DeleteProfile(n) ==
    /\ profiles' = [profiles EXCEPT ![n] = Nothing]
    /\ UNCHANGED <<switchOn, settings, applied, links, ssid, lastSsid, asked>>

(* The link is stored whether or not the profile exists.                   *)
SaveAssociation(s, n) ==
    /\ links' = [links EXCEPT ![s] = n]
    /\ UNCHANGED <<switchOn, settings, applied, profiles, ssid, lastSsid, asked>>

DeleteAssociation(s) ==
    /\ links' = [links EXCEPT ![s] = Nothing]
    /\ UNCHANGED <<switchOn, settings, applied, profiles, ssid, lastSsid, asked>>

SetSwitchEnabled(on) ==
    /\ switchOn' = on
    /\ UNCHANGED <<settings, applied, stores, ssid, lastSsid, asked>>

----------------------------------------------------------------------------
CheckNow ==
    /\ switchOn /\ ~inFlight
    /\ query' = "running" /\ inFlight' = TRUE
    /\ UNCHANGED <<switchOn, settings, applied, stores, ssid, lastSsid, answer>>

(* run: netsh reads the network, or fails, and always answers.             *)
Netsh ==
    /\ query = "running"
    /\ query' = "answered"
    /\ answer' \in {ssid, NoSsid}
    /\ UNCHANGED <<switchOn, settings, applied, stores, ssid, lastSsid, inFlight>>

Heeded == switchOn /\ answer # NoSsid /\ answer # lastSsid

(* _on_ssid_ready: an unchanged network replays nothing; a link to a       *)
(* profile that is gone applies nothing.                                   *)
SsidReady ==
    /\ query = "answered"
    /\ query' = "none" /\ inFlight' = FALSE
    /\ LET content == IF Heeded /\ links[answer] # Nothing
                      THEN profiles[links[answer]] ELSE Nothing
       IN  /\ lastSsid' = IF Heeded THEN answer ELSE lastSsid
           /\ IF content = Nothing THEN UNCHANGED <<settings, applied>>
              ELSE ApplyContent(content)
    /\ UNCHANGED <<switchOn, stores, ssid, answer>>

Roam ==
    /\ ssid' \in (Ssids \cup {NoSsid}) \ {ssid}
    /\ UNCHANGED <<switchOn, settings, applied, stores, lastSsid, asked>>

Next ==
    \/ \E n \in Names : ApplyProfile(n) \/ SaveFromSettings(n) \/ DeleteProfile(n)
    \/ \E c \in Contents : SaveGeneral(c)
    \/ \E s \in Ssids : DeleteAssociation(s) \/ \E n \in Names : SaveAssociation(s, n)
    \/ \E on \in BOOLEAN : SetSwitchEnabled(on)
    \/ CheckNow \/ Netsh \/ SsidReady \/ Roam

(* The 20 s timer, the pool and the event loop go on.                      *)
Fairness == WF_vars(CheckNow) /\ WF_vars(Netsh) /\ WF_vars(SsidReady)

Spec == Init /\ [][Next]_vars /\ Fairness

----------------------------------------------------------------------------
TypeOK ==
    /\ switchOn \in BOOLEAN /\ settings \in Contents /\ applied \in Contents
    /\ profiles \in [Names -> Contents \cup {Nothing}]
    /\ links \in [Ssids -> Names \cup {Nothing}]
    /\ {ssid, lastSsid, answer} \subseteq Ssids \cup {NoSsid}
    /\ query \in {"none", "running", "answered"} /\ inFlight \in BOOLEAN

(* A netsh query that is out is the only one, and the switcher knows of it *)
(* until its answer has been handled.                                      *)
OneQuery == inFlight <=> query # "none"

(* With the switch off no answer, however late, changes the session.       *)
LateAnswerIgnored == [][~switchOn /\ query = "answered" /\ query' = "none" => applied' = applied]_vars

(* A query never stays out for ever: the switcher would go deaf.           *)
QueryAnswered == inFlight ~> ~inFlight
=============================================================================
