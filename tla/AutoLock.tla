------------------------------ MODULE AutoLock ------------------------------
(***************************************************************************)
(* The auto-lock of Clavix: the watchdog, which every period sweeps an     *)
(* abandoned second-factor prompt and checks the configured window, and    *)
(* the screen poller, which samples the desktop's lock state while the     *)
(* screenLock trigger is armed.  Both take the same decision (due) and     *)
(* tear the vault down the same way (lock_now), concurrently with the      *)
(* commands of the user and with changes of the setting.                   *)
(*                                                                         *)
(* Time is discrete.  A task that is neither asleep nor waiting for the    *)
(* screen probe runs before the next Tick: its steps take no time next to  *)
(* its period.                                                             *)
(***************************************************************************)
EXTENDS Integers

CONSTANTS
    WatchdogPeriod,  \* WATCHDOG_PERIOD
    PollPeriod,      \* SCREEN_POLL_PERIOD
    ProbeMax,        \* the D-Bus timeouts of one probe, added up
    PendingTTL,      \* PENDING_2FA_TTL_SECS
    MaxWindow,       \* MAX_WINDOW_MINUTES
    Minutes,         \* delays the renderer asks for
    Horizon,         \* ages above it are not told apart
    None

ASSUME TimesAssumption ==
    /\ WatchdogPeriod \in Nat \ {0}
    /\ PollPeriod \in Nat \ {0}
    /\ ProbeMax \in Nat
    /\ PendingTTL \in Nat
    /\ MaxWindow \in Nat
    /\ Horizon \in Nat
ASSUME MinutesAssumption ==
    /\ Minutes \subseteq Nat
    /\ \A m \in Minutes : m <= MaxWindow => m <= Horizon
ASSUME NoneAssumption == None \notin Nat

VARIABLES
    open,     \* AppState.session holds a vault
    parked,   \* age of AppState.pending_2fa, or None
    setting,  \* AppState.auto_lock
    idle,     \* age of AppState.last_activity
    since,    \* age of AppState.screen_locked_since, or None
    marking,  \* an unlock has stored its session, not yet marked activity
    switching,  \* set_auto_lock has stored a new trigger, its countdown not yet dropped
    screen,   \* the desktop session
    task      \* where the watchdog and the poller stand

\* History of the environment, for the properties only.
VARIABLES
    exposed,     \* for how long the setting's condition has held on end
    steady,      \* for how long the screen has not changed, probes answering
    triggerFor   \* for how long the trigger has been the present one

state == <<open, parked, setting, idle, since, marking, switching, screen, task>>
history == <<exposed, steady, triggerFor>>
vars == <<open, parked, setting, idle, since, marking, switching, screen, task,
          exposed, steady, triggerFor>>

Triggers == {"off", "idle", "screenLock"}

\* The pairs set_auto_lock leaves: an idle window of zero has become Off.
AutoLockSetting ==
    {s \in [trigger : Triggers, minutes : Minutes \cup {0}] :
       s.trigger = "idle" => s.minutes # 0}

Tasks == {"watchdog", "poller"}
Period == [t \in Tasks |-> IF t = "watchdog" THEN WatchdogPeriod ELSE PollPeriod]
Asleep(t) == [at |-> "sleep", left |-> Period[t]]
Goto(t, step) == task' = [task EXCEPT ![t] = [at |-> step, left |-> 0]]
Sleep(t) == task' = [task EXCEPT ![t] = Asleep(t)]
Wakes(t) == task[t].at = "sleep" /\ task[t].left = 0

Older(age) == IF age < Horizon THEN age + 1 ELSE Horizon

-----------------------------------------------------------------------------
(* due: is the vault past its configured window?                           *)

\* A nonsensical window (past MAX_WINDOW_MINUTES) never expires.
Honoured == setting.minutes <= MaxWindow

\* A zero idle window means never.
IdleExpired ==
    /\ setting.trigger = "idle"
    /\ setting.minutes > 0
    /\ idle >= setting.minutes

\* A zero screen-lock window means at the first observation.
ScreenExpired ==
    /\ setting.trigger = "screenLock"
    /\ since # None
    /\ since >= setting.minutes

Due == Honoured /\ (IdleExpired \/ ScreenExpired)

-----------------------------------------------------------------------------
(* The watchdog.                                                           *)

Init ==
    /\ open = FALSE
    /\ parked = None
    /\ setting = [trigger |-> "off", minutes |-> 0]
    /\ idle = 0
    /\ since = None
    /\ marking = FALSE
    /\ switching = FALSE
    /\ screen \in {"locked", "unlocked"}
    /\ task = [t \in Tasks |-> Asleep(t)]
    /\ exposed = 0
    /\ steady = 0
    /\ triggerFor = 0

\* Slip: only a vault on a timer is swept.
SweepIfOn(age) ==
    IF age # None /\ age > PendingTTL /\ setting.trigger # "off" THEN None ELSE age

\* clear_pending_two_factor_if_stale
Sweep(age) == IF age # None /\ age > PendingTTL THEN None ELSE age

Check == [at |-> "due", left |-> 0]

\* Slip: a tick that swept a prompt goes back to sleep.
SweepOrCheck(age) == IF Sweep(age) = age THEN Check ELSE Asleep("watchdog")

\* The sweep never replaces the check.
AfterSweep(age) == Check

WatchdogWakes ==
    /\ Wakes("watchdog")
    /\ parked' = Sweep(parked)
    /\ task' = [task EXCEPT !["watchdog"] = AfterSweep(parked)]
    /\ UNCHANGED <<open, setting, idle, since, marking, switching, screen>>

-----------------------------------------------------------------------------
(* The screen poller.                                                      *)

Armed == setting.trigger = "screenLock" /\ open

\* Slip: a closed vault does not disarm the poller.
DisarmedByTrigger == IF setting.trigger = "screenLock" THEN since ELSE None

\* Disarmed, the poller drops any countdown.
Disarmed == None

PollerWakes ==
    /\ Wakes("poller")
    /\ IF Armed
         THEN /\ task' = [task EXCEPT !["poller"] =
                            [at |-> "probe", left |-> ProbeMax]]
              /\ UNCHANGED since
         ELSE since' = Disarmed /\ Sleep("poller")
    /\ UNCHANGED <<open, parked, setting, idle, marking, switching, screen>>

\* Slip: every locked answer restarts the clock.
ObservedAgain == 0

\* The first locked answer starts the clock, later ones leave it alone.
Observed == IF since = None THEN 0 ELSE since

ProbeAnswers ==
    /\ task["poller"].at = "probe"
    /\ since' = IF screen = "locked" THEN Observed ELSE None
    /\ Goto("poller", "due")
    /\ UNCHANGED <<open, parked, setting, idle, marking, switching, screen>>

\* No answer: a running countdown goes on.
ProbeFails ==
    /\ task["poller"].at = "probe"
    /\ Goto("poller", "due")
    /\ UNCHANGED <<open, parked, setting, idle, since, marking, switching, screen>>

-----------------------------------------------------------------------------
(* Both tasks: decide, and lock_now.                                       *)

Decide(t) ==
    /\ task[t].at = "due"
    /\ IF Due THEN Goto(t, "drop") ELSE Sleep(t)
    /\ UNCHANGED <<open, parked, setting, idle, since, marking, switching, screen>>

\* After the SSH agent is stopped: the parked login goes, whatever is open.
DropPending(t) ==
    /\ task[t].at = "drop"
    /\ parked' = None
    /\ Goto(t, "close")
    /\ UNCHANGED <<open, setting, idle, since, marking, switching, screen>>

CloseVault(t) ==
    /\ task[t].at = "close"
    /\ open' = FALSE
    /\ Sleep(t)
    /\ UNCHANGED <<parked, setting, idle, since, marking, switching, screen>>

-----------------------------------------------------------------------------
(* The commands the tasks race with.                                       *)

\* Slip: an idle window of zero is stored as it came.
AsAsked(trigger, minutes) == [trigger |-> trigger, minutes |-> minutes]

\* set_auto_lock: an idle window of zero is Off.
Normalised(trigger, minutes) ==
    [trigger |-> IF trigger = "idle" /\ minutes = 0 THEN "off" ELSE trigger,
     minutes |-> minutes]

\* The setting is stored under its own lock; the command runs on the main
\* thread, one at a time.
SetAutoLock(trigger, minutes) ==
    LET new == Normalised(trigger, minutes) IN
    /\ ~switching
    /\ new # setting
    /\ setting' = new
    /\ switching' = (new.trigger # setting.trigger)
    /\ UNCHANGED <<open, parked, idle, since, marking, screen, task>>

\* Slip: the countdown survives the switch.
CountdownKept == since

\* A change of trigger drops the other trigger's countdown.
CountdownAfterSwitch == None

\* Then, under the countdown's lock.
DropCountdown ==
    /\ switching
    /\ since' = CountdownAfterSwitch
    /\ switching' = FALSE
    /\ UNCHANGED <<open, parked, setting, idle, marking, screen, task>>

\* Any command that marks activity before anything else.
MarkActivity ==
    /\ idle' = 0
    /\ UNCHANGED <<open, parked, setting, since, marking, switching, screen, task>>

\* login asks for a second factor: the derived key is parked.  No login command
\* marks activity.
LoginParks ==
    /\ parked' = 0
    /\ UNCHANGED <<open, setting, idle, since, marking, switching, screen, task>>

\* login, or login_with_two_factor, succeeds.
LoginOpens ==
    /\ open' = TRUE
    /\ parked' = None
    /\ UNCHANGED <<setting, idle, since, marking, switching, screen, task>>

\* cancel_two_factor
CancelTwoFactor ==
    /\ parked' = None
    /\ UNCHANGED <<open, setting, idle, since, marking, switching, screen, task>>

\* unlock and unlock_with_yubikey store the session, then mark activity.
UnlockStores ==
    /\ ~marking
    /\ open' = TRUE
    /\ marking' = TRUE
    /\ UNCHANGED <<parked, setting, idle, since, switching, screen, task>>

UnlockMarks ==
    /\ marking
    /\ idle' = 0
    /\ marking' = FALSE
    /\ UNCHANGED <<open, parked, setting, since, switching, screen, task>>

\* lock and logout, from the renderer or the tray.
Lock ==
    /\ open' = FALSE
    /\ parked' = None
    /\ UNCHANGED <<setting, idle, since, marking, switching, screen, task>>

ScreenChanges ==
    /\ screen' = IF screen = "locked" THEN "unlocked" ELSE "locked"
    /\ UNCHANGED <<open, parked, setting, idle, since, marking, switching, task>>

-----------------------------------------------------------------------------
(* Time and history.                                                       *)

\* The setting asks for this vault to be closed.
Exposing ==
    /\ open
    /\ Honoured
    /\ \/ /\ setting.trigger = "idle"
          /\ setting.minutes > 0
          /\ idle >= setting.minutes
       \/ setting.trigger = "screenLock" /\ screen = "locked"

\* Each task sleeps, or waits for the probe, with time left.
TimeMayPass ==
    /\ ~marking
    /\ ~switching
    /\ \A t \in Tasks : task[t].at \in {"sleep", "probe"} /\ task[t].left > 0

Tick ==
    /\ TimeMayPass
    /\ task' = [t \in Tasks |-> [task[t] EXCEPT !.left = @ - 1]]
    /\ parked' = IF parked = None \/ parked > PendingTTL + WatchdogPeriod
                   THEN parked ELSE parked + 1
    /\ idle' = Older(idle)
    /\ since' = IF since = None THEN None ELSE Older(since)
    /\ exposed' = IF Exposing THEN exposed + 1 ELSE 0
    /\ steady' = Older(steady)
    /\ triggerFor' = Older(triggerFor)
    /\ UNCHANGED <<open, setting, marking, switching, screen>>

\* A step that takes no time.
Noted ==
    /\ exposed' = IF Exposing' /\ setting' = setting THEN exposed ELSE 0
    /\ steady' = IF screen' = screen THEN steady ELSE 0
    /\ triggerFor' = IF setting'.trigger = setting.trigger THEN triggerFor ELSE 0

TaskStep ==
    \/ WatchdogWakes
    \/ PollerWakes
    \/ ProbeAnswers
    \/ \E t \in Tasks : Decide(t) \/ DropPending(t) \/ CloseVault(t)

CommandStep ==
    \/ \E trigger \in Triggers, minutes \in Minutes : SetAutoLock(trigger, minutes)
    \/ MarkActivity
    \/ LoginParks
    \/ LoginOpens
    \/ CancelTwoFactor
    \/ UnlockStores
    \/ Lock
    \/ ScreenChanges

\* An unanswered probe restarts the clocks that measure the poller.
Unanswered ==
    /\ ProbeFails
    /\ exposed' = IF setting.trigger = "screenLock" THEN 0 ELSE exposed
    /\ steady' = 0
    /\ UNCHANGED triggerFor

Next ==
    \/ Tick
    \/ TaskStep /\ Noted
    \/ (UnlockMarks \/ DropCountdown) /\ Noted
    \/ Unanswered
    \/ CommandStep /\ Noted

Spec == Init /\ [][Next]_vars

-----------------------------------------------------------------------------
(* Properties.                                                             *)

\* The slots, the setting and the two tasks have their types.
TypeOK ==
    /\ open \in BOOLEAN
    /\ parked \in Nat \cup {None}
    /\ setting \in AutoLockSetting
    /\ idle \in 0..Horizon
    /\ since \in 0..Horizon \cup {None}
    /\ marking \in BOOLEAN
    /\ switching \in BOOLEAN
    /\ screen \in {"locked", "unlocked"}
    /\ task["watchdog"] \in [at : {"sleep", "due", "drop", "close"},
                             left : 0..WatchdogPeriod]
    /\ task["poller"] \in [at : {"sleep", "probe", "due", "drop", "close"},
                           left : 0..(PollPeriod + ProbeMax)]
    /\ DOMAIN task = Tasks

\* The master key of an abandoned second-factor prompt is wiped one watchdog
\* period after its TTL at the latest, whatever the auto-lock setting and
\* whatever the poller and the commands do meanwhile.
AbandonedPromptIsWiped == parked # None => parked <= PendingTTL + WatchdogPeriod

\* The worst-case overshoot past an idle window is one watchdog period, also
\* when the setting, the vault or the last activity changes during a sleep.
IdleLockIsTimely ==
    setting.trigger = "idle" => exposed <= WatchdogPeriod

\* On a locked screen, as long as the probe answers, the "immediately" delay
\* lands within one poll, and a longer one within the window and the two polls
\* that observe the lock and its expiry.
Poll == PollPeriod + ProbeMax
ScreenLockIsTimely ==
    setting.trigger = "screenLock" =>
        exposed <= IF setting.minutes = 0 THEN Poll
                   ELSE setting.minutes + 2 * Poll - 1

\* A switch of trigger starts afresh: once set_auto_lock is through, no countdown
\* is older than the choice of the trigger it counts for, even when a probe is in
\* flight at the switch.  Between its two locks the new trigger can meet what a
\* probe in flight left behind under the other one: an observation of one sleep
\* of the poller at most.
SwitchStartsAfresh ==
    (setting.trigger = "screenLock" /\ since # None) =>
        since <= IF switching THEN PollPeriod ELSE triggerFor

\* A stale locked observation survives one poll at most once the user is back.
StaleObservationIsDropped ==
    (screen = "unlocked" /\ steady > Poll) => since = None
=============================================================================
