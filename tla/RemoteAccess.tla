----------------------------- MODULE RemoteAccess -----------------------------
(***************************************************************************)
(* engine/remote_server.py and the section of ui/web/                      *)
(* bridge_profile_network.py that turns it on and off: a listening thread, *)
(* a thread per request, and a token in the settings.  A request in flight *)
(* outlives stop(): its thread is a daemon nobody joins.                   *)
(***************************************************************************)
EXTENDS Naturals

CONSTANTS
    Clients,
    MaxTokens   \* tokens generated in a behaviour; 0 is the empty one

VARIABLES
    enabled,        \* Settings.remote_access_enabled, as memory and file have it
    token, saved,   \* Settings.remote_access_token; the same in config.json
    running,        \* _httpd is not None
    request,        \* each client's: "none", "accepted", "admitted"
    key,            \* the token in its query string
    alive           \* the process

option == <<enabled, token, saved>>
requests == <<request, key>>
vars == <<option, running, requests, alive>>

Init ==
    /\ enabled = FALSE /\ token = 0 /\ saved = 0 /\ running = FALSE /\ alive = TRUE
    /\ request = [c \in Clients |-> "none"] /\ key = [c \in Clients |-> 0]

----------------------------------------------------------------------------
NewToken == token < MaxTokens /\ token' = token + 1

(* start: a first token is saved before the port is tried.                 *)
Start(bound) ==
    /\ IF token = 0 THEN NewToken /\ saved' = token' ELSE UNCHANGED <<token, saved>>
    /\ running' = bound

Enable(bound) ==
    /\ alive
    /\ IF running THEN bound /\ enabled' = TRUE /\ UNCHANGED <<token, saved, running>>
       ELSE Start(bound) /\ enabled' = (bound \/ enabled)
    /\ UNCHANGED <<requests, alive>>

(* stop, by the page.                                                      *)
Disable ==
    /\ alive
    /\ running' = FALSE /\ enabled' = FALSE
    /\ UNCHANGED <<token, saved, requests, alive>>

(* The restore of a settings snapshot flips the option alone.              *)
RestoreSnapshot ==
    /\ alive
    /\ enabled' = ~enabled
    /\ UNCHANGED <<token, saved, running, requests, alive>>

RegenerateToken(written) ==
    /\ alive /\ NewToken
    /\ saved' = IF written THEN token' ELSE saved
    /\ UNCHANGED <<enabled, running, requests, alive>>

----------------------------------------------------------------------------
Connect(c) ==
    /\ running /\ request[c] = "none"
    /\ request' = [request EXCEPT ![c] = "accepted"]
    /\ \E k \in 0 .. token : key' = [key EXCEPT ![c] = k]
    /\ UNCHANGED <<option, running, alive>>

TokenIsValid(k) == token # 0 /\ k = token

RequireToken(c) ==
    /\ alive /\ request[c] = "accepted"
    /\ request' = [request EXCEPT ![c] = IF TokenIsValid(key[c]) THEN "admitted" ELSE "none"]
    /\ UNCHANGED <<option, running, key, alive>>

(* do_GET, do_POST past the token: lists, pauses, resumes or adds.         *)
Respond(c) ==
    /\ alive /\ request[c] = "admitted"
    /\ request' = [request EXCEPT ![c] = "none"] /\ key' = [key EXCEPT ![c] = 0]
    /\ UNCHANGED <<option, running, alive>>

(* stop, by the quit; the process ends once the session is saved.          *)
Quit == alive /\ running /\ running' = FALSE /\ UNCHANGED <<option, requests, alive>>

Exit ==
    /\ alive /\ ~running
    /\ alive' = FALSE
    /\ request' = [c \in Clients |-> "none"] /\ key' = [c \in Clients |-> 0]
    /\ UNCHANGED <<option, running>>

Launch(bound) ==
    /\ ~alive /\ alive' = TRUE
    /\ IF enabled
       THEN /\ token' = IF saved = 0 THEN 1 ELSE saved
            /\ saved' = token' /\ running' = bound
       ELSE token' = saved /\ UNCHANGED <<saved, running>>
    /\ UNCHANGED <<enabled, requests>>

Next ==
    \/ \E ok \in BOOLEAN : Enable(ok) \/ RegenerateToken(ok) \/ Launch(ok)
    \/ Disable \/ RestoreSnapshot \/ Quit \/ Exit
    \/ \E c \in Clients : Connect(c) \/ RequireToken(c) \/ Respond(c)

Spec == Init /\ [][Next]_vars

----------------------------------------------------------------------------
TypeOK ==
    /\ {enabled, running, alive} \subseteq BOOLEAN
    /\ token \in 0 .. MaxTokens /\ saved \in 0 .. token
    /\ request \in [Clients -> {"none", "accepted", "admitted"}]
    /\ key \in [Clients -> 0 .. MaxTokens]

(* A server that listens has a token to ask for, however it was started,   *)
(* relaunched or left without its option, and the empty key lets nobody in. *)
NeverOpen ==
    /\ running => token # 0
    /\ \A c \in Clients : request[c] = "admitted" => key[c] # 0

(* Once the token that replaces it is in the settings file, a token admits *)
(* nobody, not even a request that came before, now or after a relaunch.   *)
(* (A renewal whose save fails is gone at the next launch, and the token   *)
(* before it is back: the file is what counts.)                            *)
ReplacedIsRefused ==
    [][\A c \in Clients :
        request[c] = "accepted" /\ request'[c] = "admitted" => key[c] >= saved]_vars
=============================================================================
