------------------------------- MODULE Billing -------------------------------
(***************************************************************************)
(* When lobbyboy destroys a server: the rule of need_destroy               *)
(* (server_killer.py) applied by the patrol of the killer and by the       *)
(* logout of the last session, against a clock and the bill of a provider. *)
(* One server is followed from its creation; time is counted in whole      *)
(* units, as live_sec counts whole seconds.                                *)
(***************************************************************************)
EXTENDS Integers

CONSTANTS
    MinLives,   \* the values of min_life_to_live
    Units,      \* the values of bill_time_unit
    SafeTimes,  \* the values of destroy_safe_time
    Intervals,  \* the values of min_destroy_interval
    MaxRound,   \* the longest a round of the killer takes
    MaxAge      \* bound: how long the server is followed

\* A duration that is not in the file, and one that is no duration.
Missing == -1
Garbled == -2

ASSUME SettingsAssumption ==
    MinLives \cup Units \cup SafeTimes \subseteq Nat \cup {Missing, Garbled}
ASSUME IntervalsAssumption == Intervals \subseteq Nat \ {0}
ASSUME RoundAssumption == MaxRound \in Nat
ASSUME AgeAssumption == MaxAge \in Nat

Config == [min_life_to_live : MinLives, bill_time_unit : Units,
           destroy_safe_time : SafeTimes, min_destroy_interval : Intervals]

VARIABLES
    conf,       \* the configuration of the provider and of the killer
    live_sec,   \* the age of the server
    wake,       \* the time until the killer next looks at the server
    in_use,     \* whether a session is listed for the server
    idle_since, \* history: the age at which the last session left
    status      \* "alive" or "destroyed"; "killer_dead" is alive with no killer

vars == <<conf, live_sec, wake, in_use, idle_since, status>>

-----------------------------------------------------------------------------
(* The rule.                                                               *)

\* to_seconds raises on a value that is missing or garbled.
Raises(setting) == setting < 0

\* A missing destroy_safe_time counts as none at all.
SafeTime(c) == IF c.destroy_safe_time = Missing THEN 0 ELSE c.destroy_safe_time

\* live_sec % bill_time_unit_in_sec raises ZeroDivisionError.
ConfigRaises(c) ==
    Raises(c.bill_time_unit) \/ c.bill_time_unit = 0 \/ Raises(SafeTime(c))

\* The units of the bill counted from the end of the minimum life.
BillTtlFromMinLife(c, age) ==
    c.bill_time_unit - ((age - c.min_life_to_live) % c.bill_time_unit) - SafeTime(c)

\* The time left in the current billing unit, less the safe time.
BillTtl(c, age) ==
    c.bill_time_unit - (age % c.bill_time_unit) - SafeTime(c)

\* The minimum life is not over.
Young(c, age) == c.min_life_to_live > age

NeedDestroy(c, age, used) ==
    IF used THEN "keep"
    ELSE IF Raises(c.min_life_to_live) THEN "error"
    ELSE IF c.min_life_to_live = 0 THEN "destroy"
    ELSE IF Young(c, age) THEN "keep"
    ELSE IF ConfigRaises(c) THEN "error"
    ELSE IF BillTtl(c, age) > 0 THEN "keep"
    ELSE "destroy"

-----------------------------------------------------------------------------

Init ==
    /\ conf \in Config
    /\ live_sec = 0
    /\ wake \in 0..(conf.min_destroy_interval + MaxRound)
    /\ in_use \in BOOLEAN
    /\ idle_since = 0
    /\ status = "alive"

Exists == status # "destroyed"

\* The clock.  A killer that has to look is not kept waiting any longer.
Tick ==
    /\ Exists
    /\ live_sec < MaxAge
    /\ wake > 0 \/ status = "killer_dead"
    /\ live_sec' = live_sec + 1
    /\ wake' = IF wake > 0 THEN wake - 1 ELSE 0
    /\ UNCHANGED <<conf, in_use, idle_since, status>>

\* A killer that sleeps twice.
NextLookLate ==
    wake' \in (2 * conf.min_destroy_interval)..(2 * conf.min_destroy_interval + MaxRound)

\* The next look is a sleep and the rest of a round away.
NextLook == wake' \in conf.min_destroy_interval..(conf.min_destroy_interval + MaxRound)

\* What check_all_live_servers does with the server.
Patrol ==
    /\ status = "alive"
    /\ wake = 0
    /\ NextLook
    /\ status' = CASE NeedDestroy(conf, live_sec, in_use) = "destroy" -> "destroyed"
                   [] NeedDestroy(conf, live_sec, in_use) = "error" -> "killer_dead"
                   [] OTHER -> "alive"
    /\ UNCHANGED <<conf, live_sec, in_use, idle_since>>

LogIn ==
    /\ Exists
    /\ ~in_use
    /\ in_use' = TRUE
    /\ UNCHANGED <<conf, live_sec, wake, idle_since, status>>

\* A logout that leaves the decision to the killer.
LogOutUnchecked ==
    /\ Exists
    /\ in_use
    /\ in_use' = FALSE
    /\ idle_since' = live_sec
    /\ UNCHANGED <<conf, live_sec, wake, status>>

\* The last session leaves: destroy_server_if_needed decides at once.  An
\* error ends the thread of the session and nothing else.
LogOut ==
    /\ Exists
    /\ in_use
    /\ in_use' = FALSE
    /\ idle_since' = live_sec
    /\ status' = IF NeedDestroy(conf, live_sec, FALSE) = "destroy"
                 THEN "destroyed" ELSE status
    /\ UNCHANGED <<conf, live_sec, wake>>

Next == Tick \/ Patrol \/ LogIn \/ LogOut

Spec == Init /\ [][Next]_vars

-----------------------------------------------------------------------------

TypeOK ==
    /\ conf \in Config
    /\ live_sec \in 0..MaxAge
    /\ wake \in 0..(conf.min_destroy_interval + MaxRound)
    /\ in_use \in BOOLEAN
    /\ idle_since \in 0..live_sec
    /\ status \in {"alive", "destroyed", "killer_dead"}

\* The configuration makes the killer look at least once in each safe time.
Sound(c) ==
    /\ c.min_life_to_live >= 0
    /\ c.bill_time_unit > 0
    /\ SafeTime(c) > c.min_destroy_interval + MaxRound

\* The end of a unit of the bill that finds the server idle, and before which
\* the killer has come round to a server past its minimum life.
Due(end) ==
    /\ conf.min_life_to_live >= 0
    /\ conf.bill_time_unit > 0
    /\ end % conf.bill_time_unit = 0
    /\ idle_since < end
    /\ conf.min_life_to_live + conf.min_destroy_interval + MaxRound < end

\* A server nobody uses does not enter another unit of the bill, if the safe
\* time is longer than the killer may take to come round and one round of the
\* killer was left after the minimum life.  It is about the three comparisons of
\* need_destroy and the two callers that apply them: a server left in the safe
\* time is caught by the logout, any other one by a patrol, also one whose
\* minimum life ends inside the safe time.
NoExtraUnit ==
    Sound(conf) /\ Exists /\ ~in_use =>
        \A end \in 1..live_sec : ~Due(end)

\* A server is not thrown away while its unit of the bill has more than the
\* safe time left, unless it has no minimum life: what is paid is used.
PaidTimeIsUsed ==
    status = "destroyed" /\ conf.min_life_to_live > 0 =>
        \E end \in 1..(live_sec + conf.bill_time_unit) :
            /\ end % conf.bill_time_unit = 0
            /\ live_sec < end
            /\ end <= live_sec + SafeTime(conf)

\* What lobbyboy_config.toml:28-34 states, "lobbyboy will destroy the server for
\* you. when: 1. there is no active session ... 2. server exist at least
\* ``min_life_to_live`` time 3. current time + ``destroy_interval`` + 5m(in case
\* of network latency) will enter next bill unit", whether or not a safe time is
\* set: an idle server, which the killer could look at past its minimum life,
\* does not enter a further unit of the bill.
DestroyedBeforeNextUnit == Exists /\ ~in_use => \A end \in 1..live_sec : ~Due(end)
=============================================================================
