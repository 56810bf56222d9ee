-------------------------- MODULE AutoLockProofs --------------------------
(***************************************************************************)
(* Proofs about AutoLock, for all periods and every set of delays: type    *)
(* correctness, the bounds on an abandoned second-factor prompt, on an     *)
(* idle vault and on a locked screen, the fresh start of a switched        *)
(* trigger and the end of a stale observation.                             *)
(*                                                                         *)
(* The bounds are not inductive: between two sweeps the prompt's age and   *)
(* the watchdog's remaining sleep add up to at most TTL plus period, and   *)
(* after a sweep the prompt is within its TTL until the watchdog sleeps    *)
(* again; likewise the exposure of an idle vault and its window.  A probe  *)
(* in flight when the trigger is left may still start a countdown, which   *)
(* the poller, disarmed, drops when it next wakes (Leftover).              *)
(***************************************************************************)
EXTENDS AutoLock, TLAPS

LEMMA ShorterIsWithin ==
    ASSUME NEW e \in Nat, NEW d \in Nat, d <= e, NEW u \in Nat, NEW b \in Nat,
           e + u <= b
    PROVE  d + u <= b
OBVIOUS

PromptClock ==
    parked # None =>
        /\ task["watchdog"].at = "sleep" =>
             parked + task["watchdog"].left <= PendingTTL + WatchdogPeriod
        /\ task["watchdog"].at # "sleep" => parked <= PendingTTL

Ages == triggerFor \in 0..Horizon

\* What a probe in flight leaves behind under another trigger.
Leftover ==
    (setting.trigger # "screenLock" /\ ~switching /\ since # None) =>
        /\ task["poller"].at # "probe"
        /\ task["poller"].at = "sleep" => since + task["poller"].left <= PollPeriod
        /\ task["poller"].at # "sleep" => since = 0

IInv == TypeOK /\ Ages /\ PromptClock /\ SwitchStartsAfresh /\ Leftover

USE TimesAssumption, MinutesAssumption, NoneAssumption
USE DEF Tasks, Period, Asleep, Check

\* Initially every invariant holds.
LEMMA InitIInv == Init => IInv
<1> SUFFICES ASSUME Init PROVE IInv
    OBVIOUS
<1> USE DEF Init
<1>1. setting \in AutoLockSetting
    BY DEF AutoLockSetting, Triggers
<1>2. /\ task["watchdog"] = [at |-> "sleep", left |-> WatchdogPeriod]
      /\ task["poller"] = [at |-> "sleep", left |-> PollPeriod]
      /\ DOMAIN task = Tasks
    OBVIOUS
<1>3. open \in BOOLEAN /\ marking \in BOOLEAN /\ switching \in BOOLEAN
    BY Zenon
<1>4. TypeOK
    BY <1>1, <1>2, <1>3 DEF TypeOK
<1> QED BY <1>2, <1>4 DEF IInv, Ages, PromptClock, SwitchStartsAfresh, Leftover

\* Time: the prompt ages by what the watchdog's sleep shrinks, and a countdown
\* by what its trigger's tenure grows.
LEMMA TickIInv == IInv /\ Tick => IInv'
<1> SUFFICES ASSUME IInv, Tick PROVE IInv'
    OBVIOUS
<1> USE DEF IInv, Tick
<1>1. /\ task'["watchdog"] = [task["watchdog"] EXCEPT !.left = @ - 1]
      /\ task'["poller"] = [task["poller"] EXCEPT !.left = @ - 1]
      /\ DOMAIN task' = Tasks
    BY DEF TypeOK
<1>2. /\ task["watchdog"].at = "sleep" /\ task["watchdog"].left > 0
      /\ task["poller"].left > 0
    BY DEF TimeMayPass, TypeOK
<1>3. TypeOK'
    BY <1>1, <1>2 DEF TypeOK, Older, AutoLockSetting
<1>4. Ages'
    BY DEF Ages, Older
<1>5. PromptClock'
    BY <1>1, <1>2 DEF PromptClock, TypeOK
<1>6. SwitchStartsAfresh'
    BY DEF SwitchStartsAfresh, Older, Ages, TypeOK, TimeMayPass
<1>7. Leftover'
  <2>1. /\ task'["poller"].at = task["poller"].at
        /\ task'["poller"].left = task["poller"].left - 1
        /\ task["poller"].left \in Nat /\ task["poller"].at \in {"sleep", "probe"}
      BY <1>1 DEF TypeOK, TimeMayPass
  <2>2. /\ setting' = setting /\ switching' = switching
        /\ since' # None => since # None /\ since' <= since + 1 /\ since' \in Nat
        /\ since # None => since \in Nat
      BY DEF Older, TypeOK
  <2> HIDE DEF Tick
  <2> QED BY <2>1, <2>2 DEF Leftover
<1> QED BY <1>3, <1>4, <1>5, <1>6, <1>7

\* The steps of the two tasks: one that finds the trigger left starts a countdown
\* at zero, sleeps once with it and drops it.
LEMMA TaskLeftover ==
    ASSUME TypeOK, Leftover, TaskStep \/ ProbeFails PROVE Leftover'
<1> USE DEF TypeOK, Leftover
<1>1. CASE WatchdogWakes
    BY <1>1 DEF WatchdogWakes, AfterSweep
<1>2. CASE PollerWakes
    BY <1>2 DEF PollerWakes, Wakes, Sleep, Disarmed, Armed
<1>3. CASE ProbeAnswers
    BY <1>3 DEF ProbeAnswers, Goto, Observed
<1>4. CASE ProbeFails
    BY <1>4 DEF ProbeFails, Goto
<1>5. ASSUME NEW t \in Tasks, Decide(t) \/ DropPending(t) \/ CloseVault(t)
      PROVE  Leftover'
  <2>1. /\ since' = since /\ setting' = setting /\ switching' = switching
        /\ task[t].at \in {"due", "drop", "close"}
      BY <1>5 DEF Decide, DropPending, CloseVault
  <2>2. CASE t = "watchdog"
    <3>1. task'["poller"] = task["poller"]
        BY <1>5, <2>2 DEF Decide, DropPending, CloseVault, Goto, Sleep
    <3> QED BY <2>1, <3>1
  <2>3. CASE t = "poller"
    <3>1. /\ task'["poller"].at \in {"sleep", "drop", "close"}
          /\ task'["poller"].at = "sleep" => task'["poller"].left = PollPeriod
        BY <1>5, <2>3 DEF Decide, DropPending, CloseVault, Goto, Sleep
    <3> QED BY <2>1, <2>3, <3>1
  <2> QED BY <2>2, <2>3
<1> QED BY <1>1, <1>2, <1>3, <1>4, <1>5 DEF TaskStep

LEMMA TaskIInv == IInv /\ (TaskStep \/ ProbeFails) /\ triggerFor' = triggerFor => IInv'
<1> SUFFICES ASSUME IInv, TaskStep \/ ProbeFails, triggerFor' = triggerFor
             PROVE  TypeOK' /\ Ages' /\ PromptClock' /\ SwitchStartsAfresh'
    BY TaskLeftover DEF IInv
<1> USE DEF IInv, TypeOK, Ages, PromptClock, SwitchStartsAfresh
<1>1. CASE WatchdogWakes
    BY <1>1 DEF WatchdogWakes, Wakes, Sweep, AfterSweep
<1>2. CASE PollerWakes
    BY <1>2 DEF PollerWakes, Wakes, Sleep, Disarmed, AutoLockSetting
<1>3. CASE ProbeAnswers
  <2>1. TypeOK' /\ Ages' /\ PromptClock'
      BY <1>3 DEF ProbeAnswers, Goto, Observed, AutoLockSetting
  <2>2. SwitchStartsAfresh'
    <3>1. /\ setting' = setting /\ switching' = switching
          /\ since' \in {0, since, None}
        BY <1>3 DEF ProbeAnswers, Observed
    <3>2. triggerFor >= 0 /\ PollPeriod >= 0
        OBVIOUS
    <3> QED BY <3>1, <3>2
  <2> QED BY <2>1, <2>2
<1>4. CASE ProbeFails
    BY <1>4 DEF ProbeFails, Goto, AutoLockSetting
<1>5. ASSUME NEW t \in Tasks, Decide(t)
      PROVE  TypeOK' /\ Ages' /\ PromptClock' /\ SwitchStartsAfresh'
    BY <1>5 DEF Decide, Goto, Sleep, AutoLockSetting
<1>6. ASSUME NEW t \in Tasks, DropPending(t)
      PROVE  TypeOK' /\ Ages' /\ PromptClock' /\ SwitchStartsAfresh'
    BY <1>6 DEF DropPending, Goto, AutoLockSetting
<1>7. ASSUME NEW t \in Tasks, CloseVault(t)
      PROVE  TypeOK' /\ Ages' /\ PromptClock' /\ SwitchStartsAfresh'
  <2>1. open' \in BOOLEAN
      BY <1>7, Zenon DEF CloseVault
  <2> QED BY <1>7, <2>1 DEF CloseVault, Sleep
<1> QED BY <1>1, <1>2, <1>3, <1>4, <1>5, <1>6, <1>7 DEF TaskStep

\* The commands: a new trigger comes without a countdown, a new prompt with
\* age zero, and none touches the tasks.
LEMMA CommandIInv ==
    IInv /\ (CommandStep \/ UnlockMarks \/ DropCountdown) /\ Noted => IInv'
<1> SUFFICES ASSUME IInv, CommandStep \/ UnlockMarks \/ DropCountdown, Noted
             PROVE  IInv'
    OBVIOUS
<1> USE DEF IInv, Noted, TypeOK, Ages, PromptClock, SwitchStartsAfresh, Leftover
<1>1. ASSUME NEW trigger \in Triggers, NEW minutes \in Minutes,
             SetAutoLock(trigger, minutes)
      PROVE  IInv'
  <2>1. Normalised(trigger, minutes) \in AutoLockSetting
      BY DEF Normalised, AutoLockSetting, Triggers
  <2>2. switching' \in BOOLEAN /\ ~switching
      BY <1>1, Zenon DEF SetAutoLock
  <2>3. switching' <=> setting'.trigger # setting.trigger
      BY <1>1, Zenon DEF SetAutoLock
  <2>4. Leftover'
      BY <1>1, <2>2, <2>3 DEF SetAutoLock
  <2>5. SwitchStartsAfresh'
      BY <1>1, <2>2, <2>3 DEF SetAutoLock
  <2>6. TypeOK' /\ Ages' /\ PromptClock'
      BY <1>1, <2>1, <2>2 DEF SetAutoLock
  <2> QED BY <2>4, <2>5, <2>6
<1>2. CASE MarkActivity
    BY <1>2 DEF MarkActivity
<1>3. CASE LoginParks
    BY <1>3 DEF LoginParks
<1>4. CASE LoginOpens \/ CancelTwoFactor \/ Lock
  <2>1. open' \in BOOLEAN
      BY <1>4, Zenon DEF LoginOpens, CancelTwoFactor, Lock
  <2>2. /\ UNCHANGED <<setting, idle, since, marking, switching, screen, task>>
        /\ parked' = None
      BY <1>4 DEF LoginOpens, CancelTwoFactor, Lock
  <2> QED BY <2>1, <2>2
<1>5. CASE UnlockStores \/ UnlockMarks
  <2>1. open' \in BOOLEAN /\ marking' \in BOOLEAN
      BY <1>5, Zenon DEF UnlockStores, UnlockMarks
  <2> QED BY <1>5, <2>1 DEF UnlockStores, UnlockMarks
<1>6. CASE ScreenChanges
    BY <1>6 DEF ScreenChanges
<1>7. CASE DropCountdown
    BY <1>7 DEF DropCountdown, CountdownAfterSwitch
<1> QED BY <1>1, <1>2, <1>3, <1>4, <1>5, <1>6, <1>7 DEF CommandStep

\* A change of the setting is a command's alone.
LEMMA TasksKeepSetting == TaskStep \/ ProbeFails => setting' = setting
BY DEF TaskStep, WatchdogWakes, PollerWakes, ProbeAnswers, ProbeFails, Decide,
       DropPending, CloseVault

LEMMA TasksKeepSwitching == TaskStep \/ ProbeFails => switching' = switching
BY DEF TaskStep, WatchdogWakes, PollerWakes, ProbeAnswers, ProbeFails, Decide,
       DropPending, CloseVault

\* The inductive invariant holds of every behaviour.
THEOREM Invariance == Spec => []IInv
<1>1. ASSUME IInv, [Next]_vars PROVE IInv'
  <2>1. CASE Tick
      BY <1>1, <2>1, TickIInv
  <2>2. CASE TaskStep /\ Noted
      BY <1>1, <2>2, TaskIInv, TasksKeepSetting DEF Noted
  <2>3. CASE Unanswered
      BY <1>1, <2>3, TaskIInv DEF Unanswered
  <2>4. CASE (CommandStep \/ UnlockMarks \/ DropCountdown) /\ Noted
      BY <1>1, <2>4, CommandIInv
  <2>5. CASE UNCHANGED vars
      BY <1>1, <2>5
      DEF vars, IInv, TypeOK, Ages, PromptClock, SwitchStartsAfresh, Leftover
  <2> QED BY <1>1, <2>1, <2>2, <2>3, <2>4, <2>5 DEF Next
<1> QED BY <1>1, InitIInv, PTL DEF Spec

\* The slots, the setting and the tasks keep their types: set_auto_lock never
\* leaves an idle trigger with a zero window.
THEOREM TypeCorrect == Spec => []TypeOK
BY Invariance, PTL DEF IInv

\* A second-factor prompt nobody answers is gone one watchdog period after its
\* TTL, for every choice of the two.
THEOREM PromptIsWiped == Spec => []AbandonedPromptIsWiped
<1>1. IInv => AbandonedPromptIsWiped
    BY DEF IInv, TypeOK, PromptClock, AbandonedPromptIsWiped
<1> QED BY <1>1, Invariance, PTL

\* Once set_auto_lock is through, no screen-lock countdown is older than the choice
\* of its trigger; between its two locks, none is older than the poller's sleep.
THEOREM SwitchIsFresh == Spec => []SwitchStartsAfresh
BY Invariance, PTL DEF IInv

-----------------------------------------------------------------------------
(* The idle window.  While its condition holds, the time it has held and   *)
(* the watchdog's remaining sleep add up to at most one period; when the   *)
(* watchdog decides, the vault is closed or the condition does not hold.   *)

ExposedWhile == exposed \in Nat /\ (exposed > 0 => Exposing /\ ~switching)

IdleClock ==
    setting.trigger = "idle" =>
        /\ task["watchdog"].at = "sleep" =>
             exposed + task["watchdog"].left <= WatchdogPeriod
        /\ exposed <= WatchdogPeriod

IdleInv == ExposedWhile /\ IdleClock

\* Time lengthens an exposure by what the watchdog's sleep shrinks.
LEMMA TickIdle == TypeOK /\ IdleInv /\ Tick => IdleInv'
<1> SUFFICES ASSUME TypeOK, IdleInv, Tick PROVE IdleInv'
    OBVIOUS
<1> USE DEF IdleInv, ExposedWhile, IdleClock, Tick
<1>1. /\ task'["watchdog"] = [task["watchdog"] EXCEPT !.left = @ - 1]
      /\ task["watchdog"].at = "sleep" /\ task["watchdog"].left > 0
    BY DEF TypeOK, TimeMayPass
<1>2. ExposedWhile'
    BY DEF Exposing, Honoured, Older, TypeOK, AutoLockSetting, TimeMayPass
<1>3. IdleClock'
    BY <1>1 DEF TypeOK
<1> QED BY <1>2, <1>3

\* A task's step: waking leaves the clock alone, deciding closes or finds the
\* condition false, closing ends the condition.
LEMMA TaskIdle == TypeOK /\ IdleInv /\ TaskStep /\ Noted => IdleInv'
<1> SUFFICES ASSUME TypeOK, IdleInv, TaskStep, Noted PROVE IdleInv'
    OBVIOUS
<1> USE DEF IdleInv, ExposedWhile, IdleClock, Noted
<1>1. ExposedWhile' /\ exposed' <= exposed /\ setting' = setting
    BY TasksKeepSetting, TasksKeepSwitching
<1>2. CASE WatchdogWakes
    BY <1>1, <1>2 DEF WatchdogWakes, AfterSweep, TypeOK
<1>3. CASE PollerWakes
    BY <1>1, <1>3 DEF PollerWakes, Sleep, TypeOK
<1>4. CASE ProbeAnswers
    BY <1>1, <1>4 DEF ProbeAnswers, Goto, TypeOK
<1>5. ASSUME NEW t \in Tasks, Decide(t) PROVE IdleInv'
  <2>1. CASE Due
      BY <1>1, <1>5, <2>1 DEF Decide, Goto, TypeOK
  <2>2. CASE ~Due
    <3>1. setting.trigger = "idle" => ~Exposing
        BY <2>2 DEF Due, IdleExpired, Exposing
    <3> QED BY <1>1, <1>5, <2>2, <3>1 DEF Decide, Sleep, TypeOK
  <2> QED BY <2>1, <2>2
<1>6. ASSUME NEW t \in Tasks, DropPending(t) PROVE IdleInv'
    BY <1>1, <1>6 DEF DropPending, Goto, TypeOK
<1>7. ASSUME NEW t \in Tasks, CloseVault(t) PROVE IdleInv'
  <2>1. exposed' = 0
      BY <1>7 DEF CloseVault, Exposing
  <2> QED BY <1>1, <1>7, <2>1 DEF CloseVault, Sleep, TypeOK
<1> QED BY <1>2, <1>3, <1>4, <1>5, <1>6, <1>7 DEF TaskStep

\* A command resets the clock or leaves it alone.
LEMMA CommandIdle ==
    TypeOK /\ IdleInv /\ (CommandStep \/ UnlockMarks \/ DropCountdown) /\ Noted =>
        IdleInv'
<1> SUFFICES ASSUME TypeOK, IdleInv, CommandStep \/ UnlockMarks \/ DropCountdown, Noted
             PROVE  IdleInv'
    OBVIOUS
<1>1. task' = task
    BY DEF CommandStep, SetAutoLock, MarkActivity, LoginParks, LoginOpens,
           CancelTwoFactor, UnlockStores, UnlockMarks, DropCountdown, Lock,
           ScreenChanges
<1>2. setting' = setting /\ ~switching => ~switching'
    BY DEF CommandStep, SetAutoLock, MarkActivity, LoginParks, LoginOpens,
           CancelTwoFactor, UnlockStores, UnlockMarks, DropCountdown, Lock,
           ScreenChanges
<1>3. ExposedWhile'
    BY <1>2 DEF IdleInv, ExposedWhile, Noted
<1>4. IdleClock'
    BY <1>1 DEF IdleInv, ExposedWhile, IdleClock, Noted, TypeOK
<1> QED BY <1>3, <1>4 DEF IdleInv

\* No exposure outlasts its condition, nor an idle vault its period.
LEMMA IdleInvariance == Spec => []IdleInv
<1>1. Init => IdleInv
    BY DEF Init, IdleInv, ExposedWhile, IdleClock
<1>2. ASSUME TypeOK, IdleInv, [Next]_vars PROVE IdleInv'
  <2>1. CASE Tick
      BY <1>2, <2>1, TickIdle
  <2>2. CASE TaskStep /\ Noted
      BY <1>2, <2>2, TaskIdle
  <2>3. CASE (CommandStep \/ UnlockMarks \/ DropCountdown) /\ Noted
      BY <1>2, <2>3, CommandIdle
  <2>4. CASE Unanswered
      BY <1>2, <2>4
      DEF Unanswered, ProbeFails, Goto, IdleInv, ExposedWhile, IdleClock,
          Exposing, Honoured, TypeOK
  <2>5. CASE UNCHANGED vars
      BY <1>2, <2>5 DEF vars, IdleInv, ExposedWhile, IdleClock, Exposing, Honoured
  <2> QED BY <1>2, <2>1, <2>2, <2>3, <2>4, <2>5 DEF Next
<1> QED BY <1>1, <1>2, TypeCorrect, PTL DEF Spec

\* The backend's idle lock overshoots its window by one watchdog period at
\* most, for every period and window the setting can hold.
THEOREM IdleIsTimely == Spec => []IdleLockIsTimely
<1>1. IdleInv => IdleLockIsTimely
    BY DEF IdleInv, IdleClock, IdleLockIsTimely
<1> QED BY <1>1, IdleInvariance, PTL

-----------------------------------------------------------------------------
(* The screen.  UntilAnswer is the most time that may pass before the next *)
(* answer of a probe; an exposure and that time add up to at most one poll *)
(* before the lock is observed, and to at most the bound after it.         *)

UntilAnswer == CASE task["poller"].at = "sleep" -> task["poller"].left + ProbeMax
                 [] task["poller"].at = "probe" -> task["poller"].left
                 [] OTHER -> 0

Deciding == task["poller"].at \in {"due", "drop", "close"}

BoundOf(m) == IF m = 0 THEN Poll ELSE m + 2 * Poll - 1
Bound == BoundOf(setting.minutes)

PollerLeft == UntilAnswer \in 0..Poll /\ steady \in 0..Horizon

\* Before the lock is observed.
Unobserved ==
    since = None => /\ exposed + UntilAnswer <= Poll
                    /\ Deciding => exposed = 0

\* While the countdown runs.
Counting == since # None /\ since < setting.minutes => exposed <= since + Poll

ScreenClock ==
    setting.trigger = "screenLock" =>
        exposed + UntilAnswer <= Bound /\ Unobserved /\ Counting

\* What is left of an observation once the screen is unlocked.
StaleClock ==
    screen = "unlocked" /\ since # None =>
        /\ steady + UntilAnswer <= Poll
        /\ Deciding => steady = 0

ScreenInv == PollerLeft /\ ScreenClock /\ StaleClock

LEMMA PollIsPositive == Poll \in Nat \ {0} /\ Poll = PollPeriod + ProbeMax
BY DEF Poll

LEMMA BoundIsAPoll ==
    ASSUME NEW m \in Nat PROVE BoundOf(m) \in Nat /\ Poll <= BoundOf(m)
BY PollIsPositive DEF BoundOf

LEMMA SettingIs ==
    ASSUME NEW s \in AutoLockSetting
    PROVE  /\ s.minutes \in Nat
           /\ s.minutes <= MaxWindow => s.minutes <= Horizon
<1>1. s.minutes \in Minutes \cup {0}
    BY DEF AutoLockSetting
<1>2. CASE s.minutes \in Minutes
    BY <1>2
<1>3. CASE s.minutes = 0
    BY <1>3
<1> QED BY <1>1, <1>2, <1>3

\* Of an exposure e with u to go until the answer: beginning anew, it fits every
\* bound.
LEMMA AnewIsWithin ==
    ASSUME NEW e, e = 0, NEW u \in 0..Poll, NEW s \in AutoLockSetting
    PROVE  e + u <= Poll /\ e + u <= BoundOf(s.minutes)
<1>1. u \in Nat /\ u <= Poll /\ Poll \in Nat
    BY PollIsPositive
<1>2. BoundOf(s.minutes) \in Nat /\ Poll <= BoundOf(s.minutes)
    BY SettingIs, BoundIsAPoll
<1> HIDE TimesAssumption, MinutesAssumption, NoneAssumption
<1> QED BY <1>1, <1>2

LEMMA StartsWithin ==
    ASSUME TypeOK', PollerLeft',
           setting'.trigger = "screenLock" => exposed' = 0
    PROVE  ScreenClock'
<1> SUFFICES ASSUME setting'.trigger = "screenLock"
             PROVE  /\ exposed' + UntilAnswer' <= Bound'
                    /\ Unobserved' /\ Counting'
    BY DEF ScreenClock
<1>1. exposed' = 0 /\ UntilAnswer' \in 0..Poll /\ setting' \in AutoLockSetting
    BY DEF PollerLeft, TypeOK
<1>2. exposed' + UntilAnswer' <= Poll /\ exposed' + UntilAnswer' <= Bound'
    BY <1>1, AnewIsWithin DEF Bound
<1>3. since' # None => since' \in Nat
    BY DEF TypeOK
<1>4. Counting'
    BY <1>1, <1>3, PollIsPositive DEF Counting
<1> QED BY <1>1, <1>2, <1>4 DEF Unobserved

\* Time brings the answer nearer by what it adds to an exposure.
LEMMA TickScreen ==
    ASSUME TypeOK, TypeOK', IdleInv, IdleInv', ScreenInv, Tick
    PROVE  ScreenInv'
<1>1. task'["poller"] = [task["poller"] EXCEPT !.left = @ - 1]
    BY DEF Tick, TypeOK
<1>2. task["poller"].at \in {"sleep", "probe"} /\ task["poller"].left > 0
    BY DEF Tick, TimeMayPass
<1>3. /\ task'["poller"].at = task["poller"].at
      /\ task'["poller"].left = task["poller"].left - 1
      /\ task["poller"].left \in Nat
    BY <1>1 DEF TypeOK
<1>4. UntilAnswer' = UntilAnswer - 1 /\ UntilAnswer \in Nat
    BY <1>2, <1>3 DEF UntilAnswer
<1>5. ~Deciding'
    BY <1>2, <1>3 DEF Deciding
<1>6. steady' \in 0..Horizon /\ steady' <= steady + 1
    BY DEF Tick, Older, ScreenInv, PollerLeft
<1>7. PollerLeft'
    BY <1>2, <1>3, <1>4, <1>6, PollIsPositive DEF ScreenInv, PollerLeft, UntilAnswer
<1>8. StaleClock'
    BY <1>4, <1>5, <1>6, PollIsPositive
       DEF Tick, ScreenInv, StaleClock, PollerLeft
<1>9. ScreenClock'
  <2>1. CASE exposed' = 0
      BY <1>7, <2>1, StartsWithin
  <2>2. CASE exposed' # 0
    <3>1. Exposing /\ exposed' = exposed + 1 /\ exposed \in Nat /\ setting' = setting
        BY <2>2 DEF Tick, IdleInv, ExposedWhile
    <3> SUFFICES ASSUME setting.trigger = "screenLock"
                 PROVE  /\ exposed' + UntilAnswer' <= Bound'
                        /\ Unobserved' /\ Counting'
        BY <3>1 DEF ScreenClock
    <3>2. Bound' = Bound
        BY <3>1 DEF Bound
    <3>3. exposed + UntilAnswer <= Bound /\ Unobserved /\ Counting
        BY DEF ScreenInv, ScreenClock
    <3>4. exposed' + UntilAnswer' = exposed + UntilAnswer
        BY <1>4, <3>1
    <3>5. Unobserved'
      <4>1. since' = None => since = None
          BY DEF Tick, Older, TypeOK
      <4>2. since = None => exposed + UntilAnswer <= Poll
          BY <3>3 DEF Unobserved
      <4>3. since' = None => exposed' + UntilAnswer' <= Poll
          BY <3>4, <4>1, <4>2
      <4> QED BY <1>5, <4>3 DEF Unobserved
    <3>6. Counting'
      <4>1. setting.minutes <= Horizon /\ setting.minutes \in Nat
          BY <3>1, SettingIs DEF Exposing, Honoured, TypeOK
      <4> SUFFICES ASSUME since' # None, since' < setting'.minutes
                   PROVE  exposed' <= since' + Poll
          BY DEF Counting
      <4>2. since \in 0..Horizon /\ since' = Older(since)
          BY DEF Tick, TypeOK
      <4>3. since' = since + 1
          BY <3>1, <4>1, <4>2 DEF Older
      <4>4. since # None /\ since < setting.minutes
          BY <3>1, <4>1, <4>2, <4>3
      <4>5. exposed <= since + Poll
          BY <3>3, <4>4 DEF Counting
      <4> QED BY <3>1, <4>2, <4>3, <4>5, PollIsPositive
    <3> QED BY <3>2, <3>3, <3>4, <3>5, <3>6
  <2> QED BY <2>1, <2>2
<1> QED BY <1>7, <1>8, <1>9 DEF ScreenInv

\* Steps that leave the poller, the countdown, the setting and the screen alone
\* and do not lengthen an exposure.
LEMMA AsideScreen ==
    ASSUME TypeOK, IdleInv, IdleInv', ScreenInv,
           task'["poller"] = task["poller"], since' = since,
           setting' = setting, screen' = screen,
           steady' = steady, exposed' \in {0, exposed}
    PROVE  ScreenInv'
<1>1. UntilAnswer' = UntilAnswer /\ Bound' = Bound
    BY DEF UntilAnswer, Bound
<1>2. PollerLeft' /\ StaleClock'
    BY <1>1 DEF ScreenInv, PollerLeft, StaleClock, Deciding
<1>3. exposed \in Nat /\ exposed' <= exposed /\ exposed' \in Nat
    BY DEF IdleInv, ExposedWhile
<1>4. UntilAnswer \in Nat /\ Poll \in Nat /\ Bound \in Nat
    BY PollIsPositive, SettingIs, BoundIsAPoll DEF ScreenInv, PollerLeft, Bound, TypeOK
<1>5. ScreenClock'
  <2> SUFFICES ASSUME setting.trigger = "screenLock"
               PROVE  /\ exposed' + UntilAnswer' <= Bound'
                      /\ Unobserved' /\ Counting'
      BY DEF ScreenClock
  <2>1. exposed + UntilAnswer <= Bound /\ Unobserved /\ Counting
      BY DEF ScreenInv, ScreenClock
  <2>2. exposed' + UntilAnswer' <= Bound'
    <3>1. exposed' + UntilAnswer <= Bound
        BY <1>3, <1>4, <2>1, ShorterIsWithin
    <3> QED BY <1>1, <3>1
  <2>3. Unobserved'
    <3>1. since = None => exposed' + UntilAnswer <= Poll
        BY <1>3, <1>4, <2>1, ShorterIsWithin DEF Unobserved
    <3>2. Deciding' = Deciding
        BY DEF Deciding
    <3>3. since = None /\ Deciding => exposed' = 0
        BY <2>1 DEF Unobserved
    <3> QED BY <1>1, <3>1, <3>2, <3>3 DEF Unobserved
  <2>4. Counting'
    <3>1. since # None => since \in Nat
        BY DEF TypeOK
    <3> QED BY <1>3, <1>4, <2>1, <3>1 DEF Counting
  <2> QED BY <2>2, <2>3, <2>4
<1> QED BY <1>2, <1>5 DEF ScreenInv

\* Falling asleep is a poll away from the next answer.
LEMMA AsleepIs ==
    ASSUME task'["poller"] = Asleep("poller")
    PROVE  UntilAnswer' = Poll /\ ~Deciding'
BY DEF UntilAnswer, Deciding, Poll

\* The poller's own steps.
LEMMA PollerScreen ==
    ASSUME TypeOK, TypeOK', IdleInv, IdleInv', ScreenInv, setting' = setting,
           screen' = screen, steady' = steady,
           exposed' = IF Exposing' THEN exposed ELSE 0,
           \/ PollerWakes \/ ProbeAnswers \/ Decide("poller")
           \/ DropPending("poller") \/ CloseVault("poller")
    PROVE  ScreenInv'
<1>1. /\ exposed \in Nat /\ exposed' \in Nat /\ exposed' <= exposed
      /\ Poll \in Nat \ {0} /\ Bound \in Nat /\ Poll <= Bound /\ Bound' = Bound
      /\ UntilAnswer \in 0..Poll /\ steady \in 0..Horizon
  <2>1. exposed \in Nat /\ exposed' \in Nat /\ exposed' <= exposed
      BY DEF IdleInv, ExposedWhile
  <2>2. Bound \in Nat /\ Poll <= Bound /\ Bound' = Bound
      BY SettingIs, BoundIsAPoll DEF Bound, TypeOK
  <2> QED BY <2>1, <2>2, PollIsPositive DEF ScreenInv, PollerLeft
<1>2. setting.trigger = "screenLock" =>
        exposed + UntilAnswer <= Bound /\ Unobserved /\ Counting
    BY DEF ScreenInv, ScreenClock
<1>3. setting.minutes \in Nat /\ (since # None => since \in Nat)
    BY SettingIs DEF TypeOK
<1>4. CASE PollerWakes /\ Armed
  <2>1. /\ UntilAnswer = ProbeMax /\ UntilAnswer' = ProbeMax
        /\ ~Deciding' /\ since' = since
      BY <1>4 DEF PollerWakes, Wakes, UntilAnswer, Deciding, TypeOK
  <2>2. PollerLeft' /\ StaleClock'
      BY <1>1, <2>1 DEF ScreenInv, PollerLeft, StaleClock
  <2>3. ScreenClock'
      BY <1>1, <1>2, <1>3, <2>1 DEF ScreenClock, Unobserved, Counting
  <2> QED BY <2>2, <2>3 DEF ScreenInv
<1>5. CASE PollerWakes /\ ~Armed
  <2>1. since' = None /\ open' = open /\ UntilAnswer' = Poll /\ ~Deciding'
    <3>1. task'["poller"] = Asleep("poller")
        BY <1>5 DEF PollerWakes, Sleep, TypeOK
    <3> QED BY <1>5, <3>1, AsleepIs DEF PollerWakes, Disarmed
  <2>2. PollerLeft' /\ StaleClock'
      BY <1>1, <2>1 DEF ScreenInv, PollerLeft, StaleClock
  <2>3. setting.trigger = "screenLock" => exposed' = 0
      BY <1>5, <2>1 DEF Armed, Exposing
  <2>4. ScreenClock'
      BY <2>2, <2>3, StartsWithin
  <2> QED BY <2>2, <2>4 DEF ScreenInv
<1>6. CASE ProbeAnswers
  <2>1. UntilAnswer' = 0 /\ Deciding'
      BY <1>6 DEF ProbeAnswers, Goto, UntilAnswer, Deciding, TypeOK
  <2>2. PollerLeft'
      BY <1>1, <2>1 DEF PollerLeft
  <2>3. CASE screen = "locked"
    <3>1. StaleClock'
        BY <2>3 DEF StaleClock
    <3>2. since' = Observed /\ since' # None
        BY <1>6, <2>3 DEF ProbeAnswers, Observed
    <3>3. ScreenClock'
        BY <1>1, <1>2, <1>3, <2>1, <3>2 DEF ScreenClock, Unobserved, Counting, Observed
    <3> QED BY <2>2, <3>1, <3>3 DEF ScreenInv
  <2>4. CASE screen # "locked"
    <3>1. since' = None
        BY <1>6, <2>4 DEF ProbeAnswers
    <3>2. setting.trigger = "screenLock" => exposed' = 0
        BY <2>4 DEF Exposing
    <3>3. ScreenClock'
        BY <2>2, <3>2, StartsWithin
    <3> QED BY <2>2, <3>1, <3>3 DEF ScreenInv, StaleClock
  <2> QED BY <2>3, <2>4
<1>7. CASE Decide("poller") /\ Due
  <2>1. /\ UntilAnswer = 0 /\ UntilAnswer' = 0 /\ Deciding /\ Deciding'
        /\ since' = since
      BY <1>7 DEF Decide, Goto, UntilAnswer, Deciding, TypeOK
  <2>2. PollerLeft' /\ StaleClock'
      BY <1>1, <2>1 DEF ScreenInv, PollerLeft, StaleClock
  <2>3. ScreenClock'
      BY <1>1, <1>2, <1>3, <2>1 DEF ScreenClock, Unobserved, Counting
  <2> QED BY <2>2, <2>3 DEF ScreenInv
<1>8. CASE Decide("poller") /\ ~Due
  <2>1. task'["poller"] = Asleep("poller") /\ since' = since /\ open' = open
      BY <1>8 DEF Decide, Sleep, TypeOK
  <2>2. UntilAnswer' = Poll /\ ~Deciding' /\ Deciding
      BY <1>8, <2>1, AsleepIs DEF Decide, Deciding
  <2>3. PollerLeft' /\ StaleClock'
      BY <1>1, <2>1, <2>2 DEF ScreenInv, PollerLeft, StaleClock
  <2>4. CASE exposed' = 0
      BY <2>3, <2>4, StartsWithin DEF ScreenInv
  <2>5. CASE exposed' # 0 /\ setting.trigger = "screenLock"
    <3>1. Exposing' /\ exposed' = exposed
        BY <2>5
    <3>2. Honoured
        BY <3>1 DEF Exposing, Honoured
    <3>3. since # None /\ since < setting.minutes
        BY <1>2, <1>3, <1>8, <2>2, <2>5, <3>1, <3>2 DEF Due, ScreenExpired, Unobserved
    <3>4. exposed <= since + Poll
        BY <1>2, <2>5, <3>3 DEF Counting
    <3>5. Bound = setting.minutes + 2 * Poll - 1
        BY <1>3, <3>3 DEF Bound, BoundOf
    <3>6. exposed + Poll <= Bound
        BY <1>1, <1>3, <3>3, <3>4, <3>5
    <3>7. ScreenClock'
        BY <1>1, <1>2, <2>1, <2>2, <2>5, <3>1, <3>3, <3>6
           DEF ScreenClock, Unobserved, Counting
    <3> QED BY <2>3, <3>7 DEF ScreenInv
  <2>6. CASE setting.trigger # "screenLock"
      BY <2>3, <2>6 DEF ScreenInv, ScreenClock
  <2> QED BY <2>4, <2>5, <2>6
<1>9. CASE DropPending("poller")
  <2>1. /\ UntilAnswer = 0 /\ UntilAnswer' = 0 /\ Deciding /\ Deciding'
        /\ since' = since
      BY <1>9 DEF DropPending, Goto, UntilAnswer, Deciding, TypeOK
  <2>2. PollerLeft' /\ StaleClock'
      BY <1>1, <2>1 DEF ScreenInv, PollerLeft, StaleClock
  <2>3. ScreenClock'
      BY <1>1, <1>2, <1>3, <2>1 DEF ScreenClock, Unobserved, Counting
  <2> QED BY <2>2, <2>3 DEF ScreenInv
<1>10. CASE CloseVault("poller")
  <2>1. task'["poller"] = Asleep("poller") /\ since' = since /\ ~open'
      BY <1>10 DEF CloseVault, Sleep, TypeOK
  <2>2. UntilAnswer' = Poll /\ ~Deciding' /\ Deciding
      BY <1>10, <2>1, AsleepIs DEF CloseVault, Deciding
  <2>3. PollerLeft' /\ StaleClock'
      BY <1>1, <2>1, <2>2 DEF ScreenInv, PollerLeft, StaleClock
  <2>4. exposed' = 0
      BY <2>1 DEF Exposing
  <2> QED BY <2>3, <2>4, StartsWithin DEF ScreenInv
<1> QED BY <1>4, <1>5, <1>6, <1>7, <1>8, <1>9, <1>10

\* The other steps begin an exposure anew, drop the countdown or touch neither.
LEMMA OtherScreen ==
    ASSUME TypeOK, TypeOK', IdleInv, IdleInv', ScreenInv,
           (CommandStep \/ UnlockMarks \/ DropCountdown) /\ Noted
    PROVE  ScreenInv'
<1>1. task' = task
    BY DEF CommandStep, SetAutoLock, MarkActivity, LoginParks, LoginOpens,
           CancelTwoFactor, UnlockStores, UnlockMarks, DropCountdown, Lock,
           ScreenChanges
<1>2. UntilAnswer' = UntilAnswer /\ Deciding' = Deciding
    BY <1>1 DEF UntilAnswer, Deciding
<1>3. /\ exposed' \in {0, exposed} /\ steady' = IF screen' = screen THEN steady ELSE 0
      /\ setting' # setting => exposed' = 0
    BY DEF Noted
<1>4. CASE setting' = setting /\ screen' = screen /\ since' = since
    BY <1>1, <1>3, <1>4, AsideScreen
<1>5. CASE setting' # setting
  <2>1. screen' = screen /\ since' = since
      BY <1>5 DEF CommandStep, SetAutoLock, MarkActivity, LoginParks, LoginOpens,
                  CancelTwoFactor, UnlockStores, UnlockMarks, DropCountdown, Lock,
                  ScreenChanges
  <2>2. PollerLeft' /\ StaleClock'
      BY <1>2, <1>3, <2>1 DEF ScreenInv, PollerLeft, StaleClock
  <2> QED BY <1>3, <1>5, <2>2, StartsWithin DEF ScreenInv
<1>6. CASE ScreenChanges
  <2>1. /\ steady' = 0 /\ since' = since /\ setting' = setting /\ screen' # screen
      BY <1>3, <1>6 DEF ScreenChanges, TypeOK
  <2>2. PollerLeft' /\ StaleClock'
    <3>1. UntilAnswer \in 0..Poll
        BY DEF ScreenInv, PollerLeft
    <3> QED BY <1>2, <2>1, <3>1, PollIsPositive DEF PollerLeft, StaleClock
  <2>3. setting.trigger = "screenLock" => exposed' = 0
      BY <1>6, <2>1
         DEF Noted, Exposing, IdleInv, ExposedWhile, ScreenChanges
  <2>4. ScreenClock'
      BY <2>1, <2>2, <2>3, StartsWithin
  <2> QED BY <2>2, <2>4 DEF ScreenInv
<1>7. CASE DropCountdown
  <2>1. screen' = screen /\ setting' = setting /\ since' = None /\ steady' = steady
      BY <1>3, <1>7 DEF DropCountdown, CountdownAfterSwitch
  <2>2. PollerLeft' /\ StaleClock'
      BY <1>2, <2>1 DEF ScreenInv, PollerLeft, StaleClock
  <2>3. exposed' = 0
      BY <1>3, <1>7 DEF DropCountdown, IdleInv, ExposedWhile
  <2> QED BY <2>2, <2>3, StartsWithin DEF ScreenInv
<1> QED BY <1>4, <1>5, <1>6, <1>7
        DEF CommandStep, SetAutoLock, MarkActivity, LoginParks, LoginOpens,
            CancelTwoFactor, UnlockStores, UnlockMarks, Lock

LEMMA UnansweredScreen ==
    ASSUME TypeOK, TypeOK', IdleInv, IdleInv', ScreenInv, Unanswered
    PROVE  ScreenInv'
<1>1. /\ task'["poller"] = [at |-> "due", left |-> 0] /\ since' = since
      /\ setting' = setting /\ steady' = 0
    BY DEF Unanswered, ProbeFails, Goto, TypeOK
<1>2. UntilAnswer' = 0 /\ Deciding'
    BY <1>1 DEF UntilAnswer, Deciding
<1>3. PollerLeft' /\ StaleClock'
    BY <1>1, <1>2, PollIsPositive DEF PollerLeft, StaleClock
<1>4. setting.trigger = "screenLock" => exposed' = 0
    BY DEF Unanswered
<1>5. ScreenClock'
    BY <1>1, <1>3, <1>4, StartsWithin
<1> QED BY <1>3, <1>5 DEF ScreenInv

LEMMA TaskScreen ==
    ASSUME TypeOK, TypeOK', IdleInv, IdleInv', ScreenInv, TaskStep, Noted
    PROVE  ScreenInv'
<1>1. setting' = setting /\ screen' = screen
    BY DEF TaskStep, WatchdogWakes, PollerWakes, ProbeAnswers, Decide,
           DropPending, CloseVault
<1>2. steady' = steady /\ exposed' = IF Exposing' THEN exposed ELSE 0
    BY <1>1 DEF Noted
<1>3. CASE WatchdogWakes \/ Decide("watchdog") \/ DropPending("watchdog")
             \/ CloseVault("watchdog")
  <2>1. task'["poller"] = task["poller"] /\ since' = since
      BY <1>3 DEF WatchdogWakes, AfterSweep, Decide, DropPending, CloseVault,
                  Goto, Sleep, TypeOK
  <2> QED BY <1>1, <1>2, <2>1, AsideScreen
<1> QED BY <1>1, <1>2, <1>3, PollerScreen DEF TaskStep

LEMMA ScreenInvariance == Spec => []ScreenInv
<1>1. Init => ScreenInv
  <2> SUFFICES ASSUME Init PROVE ScreenInv
      OBVIOUS
  <2>1. task["poller"] = [at |-> "sleep", left |-> PollPeriod]
      BY DEF Init
  <2>2. PollerLeft
      BY <2>1 DEF PollerLeft, UntilAnswer, Poll, Init
  <2> QED BY <2>2 DEF ScreenInv, StaleClock, ScreenClock, Init
<1>2. ASSUME TypeOK, TypeOK', IdleInv, IdleInv', ScreenInv, [Next]_vars
      PROVE  ScreenInv'
  <2>1. CASE UNCHANGED vars
      BY <1>2, <2>1, AsideScreen DEF vars
  <2> QED BY <1>2, <2>1, TickScreen, TaskScreen, OtherScreen, UnansweredScreen
          DEF Next
<1> QED BY <1>1, <1>2, TypeCorrect, IdleInvariance, PTL DEF Spec

\* On a locked screen whose probes answer, the vault closes within its window and
\* the two polls that observe the lock and its expiry, for every choice of them.
THEOREM ScreenIsTimely == Spec => []ScreenLockIsTimely
<1>1. TypeOK /\ IdleInv /\ ScreenInv => ScreenLockIsTimely
  <2> SUFFICES ASSUME TypeOK, IdleInv, ScreenInv, setting.trigger = "screenLock"
               PROVE  exposed <= Bound
      BY DEF ScreenLockIsTimely, Bound, BoundOf
  <2>1. Bound \in Nat
      BY SettingIs, BoundIsAPoll DEF Bound, TypeOK
  <2>2. /\ exposed \in Nat /\ UntilAnswer \in 0..Poll
        /\ exposed + UntilAnswer <= Bound
      BY DEF IdleInv, ExposedWhile, ScreenInv, PollerLeft, ScreenClock
  <2> QED BY <2>1, <2>2, PollIsPositive
<1> QED BY <1>1, TypeCorrect, IdleInvariance, ScreenInvariance, PTL

\* Once the user has been back for a poll, no earlier observation is left.
THEOREM StaleIsDropped == Spec => []StaleObservationIsDropped
<1>1. ScreenInv => StaleObservationIsDropped
    BY PollIsPositive
       DEF ScreenInv, PollerLeft, StaleClock, StaleObservationIsDropped
<1> QED BY <1>1, ScreenInvariance, PTL
=============================================================================
