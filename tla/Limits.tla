------------------------------- MODULE Limits -------------------------------
(***************************************************************************)
(* The one download rate of the session and its writers:                   *)
(* engine/bandwidth_scheduler.py, engine/idle_activity_service.py, the     *)
(* settings profiles and the pages that edit the settings.  The scheduler  *)
(* remembers what it decided (throttled, turtle), never what is applied.   *)
(***************************************************************************)
EXTENDS Integers

CONSTANTS
    Rates,      \* limits the user may choose
    Turtle,     \* the rate of turtle mode
    Day,        \* hours in a day
    Wrap,       \* GetTickCount counts modulo Wrap
    IdleAfter   \* idle_bandwidth_reduction_minutes

VARIABLES
    base, schedule,     \* Settings: the normal rate, and the daily window
    hour,               \* of the clock
    idleOn,             \* Settings.idle_bandwidth_reduction_enabled
    throttled,          \* BandwidthScheduler._currently_throttled
    turtle,             \* _turtle_mode_enabled, and IdleActivityService._turtle_active
    rate,               \* what the libtorrent session applies
    overruled           \* history: a writer that does not know the scheduler had its way

settings == <<base, schedule, idleOn>>
vars == <<settings, hour, throttled, turtle, rate, overruled>>

Hours == 0 .. Day - 1
Schedule == [on : BOOLEAN, from : Hours, to : Hours, limit : Rates]

IsWithinWindow(h, from, to) ==
    \/ from <= h /\ h < to
    \/ to < from /\ (h >= from \/ h < to)

\* mutant: what the timer last saw is not looked at
CurrentLimit_Base(dim) == base
CurrentLimit(dim) == IF dim = "yes" THEN schedule.limit ELSE base

Intended == IF turtle THEN Turtle ELSE CurrentLimit(throttled)

----------------------------------------------------------------------------
(* The defaults of Settings; the pages save any other.                     *)
Init ==
    /\ base = CHOOSE r \in Rates : TRUE
    /\ schedule = [on |-> FALSE, from |-> 0, to |-> 0, limit |-> base]
    /\ hour = 0 /\ idleOn = FALSE
    /\ throttled = "no" /\ turtle = FALSE
    /\ rate = base
    /\ overruled = FALSE

(* evaluate_now, with the schedule s and what the scheduler believed.      *)
Evaluate(s, believed) ==
    LET now == IF s.on /\ IsWithinWindow(hour, s.from, s.to) THEN "yes" ELSE "no"
        limit == IF now = "yes" THEN s.limit ELSE base
        applies == now # believed /\ ~turtle
    IN  /\ throttled' = now
        /\ rate' = IF applies THEN limit ELSE rate
        /\ overruled' = (overruled /\ ~applies)

Tick == Evaluate(schedule, throttled) /\ UNCHANGED <<settings, hour, turtle>>

(* The Automation page: it saves and calls settings_changed.               *)
SaveAutomation(s, on) ==
    /\ schedule' = s /\ idleOn' = on
    /\ Evaluate(s, "unknown")
    /\ UNCHANGED <<base, hour, turtle>>

(* The General page saves the normal rate, and applies nothing.            *)
SaveGeneral(r) ==
    /\ r # base
    /\ base' = r
    /\ overruled' = (overruled \/ (~turtle /\ throttled # "yes"))
    /\ UNCHANGED <<schedule, hour, idleOn, throttled, turtle, rate>>

(* A settings profile, from the Advanced page or the network switcher:     *)
(* its rate is applied whatever the window or turtle mode say.             *)
ApplyProfile(r) ==
    /\ base' = r /\ rate' = r
    /\ overruled' = (turtle \/ throttled = "yes")
    /\ UNCHANGED <<schedule, hour, idleOn, throttled, turtle>>

SetTurtleMode(on) ==
    /\ turtle' = on
    /\ rate' = IF on THEN Turtle ELSE CurrentLimit(throttled)
    /\ overruled' = FALSE

(* idle_ms: both are 32-bit counts of milliseconds, which wrap together.   *)
IdleMs(tick, input) == (tick - input) % Wrap

(* The idle service's check: tick is now, input the last one's time.       *)
CheckIdle(tick, input) ==
    LET idle == IdleMs(tick, input) >= IdleAfter IN
    /\ \/ ~idleOn /\ turtle /\ SetTurtleMode(FALSE)
       \/ idleOn /\ idle /\ ~turtle /\ SetTurtleMode(TRUE)
       \/ idleOn /\ ~idle /\ turtle /\ SetTurtleMode(FALSE)
    /\ UNCHANGED <<settings, hour, throttled>>

Clock ==
    /\ hour' = (hour + 1) % Day
    /\ UNCHANGED <<settings, throttled, turtle, rate, overruled>>

Next ==
    \/ Tick
    \/ \E s \in Schedule, on \in BOOLEAN : SaveAutomation(s, on)
    \/ \E r \in Rates : SaveGeneral(r) \/ ApplyProfile(r)
    \/ \E tick, input \in 0 .. Wrap - 1 : CheckIdle(tick, input)
    \/ Clock

Fairness ==
    /\ WF_vars(Tick)
    /\ WF_vars(\E tick, input \in 0 .. Wrap - 1 : CheckIdle(tick, input))

Spec == Init /\ [][Next]_vars /\ Fairness

----------------------------------------------------------------------------
TypeOK ==
    /\ base \in Rates /\ schedule \in Schedule /\ hour \in Hours
    /\ idleOn \in BOOLEAN /\ throttled \in {"yes", "no"}
    /\ turtle \in BOOLEAN /\ rate \in Rates \cup {Turtle} /\ overruled \in BOOLEAN

(* Whatever the order of ticks, idle checks and saves, the session runs at *)
(* the rate the schedule, turtle mode and the settings call for, unless    *)
(* the General page or a settings profile has written past the scheduler   *)
(* since its last decision.                                                *)
RateIsIntended == overruled \/ rate = Intended

(* Though the tick count wrapped since the last input, the time idle is    *)
(* what went by since then, if that is less than a whole turn of it.       *)
IdleMeasured ==
    \A input, gone \in 0 .. Wrap - 1 :
        LET tick == IF input + gone < Wrap THEN input + gone ELSE input + gone - Wrap
        IN  IdleMs(tick, input) = gone

(* Switching the idle option off takes turtle mode off.                    *)
TurtleEnds == <>[]~idleOn => <>[]~turtle
=============================================================================
