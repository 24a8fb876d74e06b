------------------------------- MODULE Alarms -------------------------------
(***************************************************************************)
(* The alarms of the hardware abstraction layer: alt_tick, called by the   *)
(* interrupt handler of the timer, and alt_alarm_start and _stop, called   *)
(* by the program.  All of them run with interrupts disabled, so each is   *)
(* one step.  The tick count is an unsigned word that wraps, and so is the *)
(* time an alarm is due; the rollover flag tells a time beyond the wrap    *)
(* from one that has come.  The list of alarms is the set running here;    *)
(* module LList has the list itself.                                       *)
(***************************************************************************)
EXTENDS Integers

CONSTANTS
  Alarm,   \* the alarms of the program
  W,       \* a word wraps to 0 here
  Waits    \* what AlarmStart is asked to wait, in ticks

ASSUME WordAssumption  == W \in Nat /\ W >= 2
ASSUME WaitsAssumption == Waits \subseteq 0 .. W - 1

VARIABLES
  clock,          \* _alt_tick_rate is set: there is a system clock
  nticks,         \* _alt_nticks
  running,        \* the alarms in alt_alarm_list
  time, rollover, \* of each alarm
  fired           \* the alarms whose callback the last tick made

alarmVars == <<clock, nticks, running, time, rollover, fired>>

-----------------------------------------------------------------------------
\* A sum of two words.
Word(x) == IF x < W THEN x ELSE x - W

AlarmsInit ==
  /\ clock = FALSE
  /\ nticks = 0
  /\ running = {}
  /\ time = [a \in Alarm |-> 0]
  /\ rollover = [a \in Alarm |-> FALSE]
  /\ fired = {}

\* alt_sysclk_init, called by alt_avalon_timer_sc_init; only the first call counts.
SysclkInit ==
  /\ ~clock
  /\ clock' = TRUE
  /\ UNCHANGED <<nticks, running, time, rollover, fired>>

\* Mutant of AlarmStart: due one tick early.
AlarmStart_Early(a, n) ==
  /\ clock
  /\ a \notin running
  /\ time' = [time EXCEPT ![a] = Word(n + nticks)]
  /\ rollover' = [rollover EXCEPT ![a] = Word(n + nticks) < nticks]
  /\ running' = running \cup {a}
  /\ UNCHANGED <<clock, nticks, fired>>

\* Without a clock alt_alarm_start fails and changes nothing.  The one caller of
\* the build starts its alarm once; an alarm in the list is never started again.
AlarmStart(a, n) ==
  /\ clock
  /\ a \notin running
  /\ time' = [time EXCEPT ![a] = Word(n + nticks + 1)]
  /\ rollover' = [rollover EXCEPT ![a] = Word(n + nticks + 1) < nticks]
  /\ running' = running \cup {a}
  /\ UNCHANGED <<clock, nticks, fired>>

AlarmStop(a) ==
  /\ running' = running \ {a}
  /\ UNCHANGED <<clock, nticks, time, rollover, fired>>

\* Mutant of Due: the rollover flag is not looked at.
Due_NoRollover(now) == {a \in running : time[a] <= now}

\* alt_tick.  The flag is cleared by the tick that wraps; again[a] is what
\* the callback of a returns.
Held(a, now) == rollover[a] /\ now # 0
Due(now)     == {a \in running : time[a] <= now /\ ~Held(a, now)}

AlarmTick ==
  LET now == Word(nticks + 1)
      due == Due(now)
  IN  /\ clock
      /\ nticks' = now
      /\ fired' = due
      /\ \E again \in [due -> 0 .. W - 1] :
           LET late(a) == Word(time[a] + again[a])
           IN  /\ running' = {a \in running : a \in due => again[a] > 0}
               /\ time' = [a \in Alarm |-> IF a \in due THEN late(a) ELSE time[a]]
               /\ rollover' = [a \in Alarm |->
                    IF a \in due THEN again[a] > 0 /\ late(a) < now
                    ELSE IF a \in running THEN Held(a, now) ELSE rollover[a]]
      /\ UNCHANGED clock

AlarmsNext ==
  \/ SysclkInit
  \/ \E a \in Alarm : AlarmStop(a) \/ \E n \in Waits : AlarmStart(a, n)
  \/ AlarmTick

AlarmsSpec == AlarmsInit /\ [][AlarmsNext]_alarmVars

-----------------------------------------------------------------------------
AlarmsTypeOK ==
  /\ clock \in BOOLEAN
  /\ nticks \in 0 .. W - 1
  /\ running \subseteq Alarm
  /\ time \in [Alarm -> 0 .. W - 1]
  /\ rollover \in [Alarm -> BOOLEAN]
  /\ fired \subseteq Alarm

(***************************************************************************)
(* An alarm is called back exactly when its time has passed, wherever the  *)
(* tick count wraps: the alarms are countdowns, and what is left is the    *)
(* distance from the count to the time, around the wrap when the flag says *)
(* so.  The longest wait, of W - 1 ticks, is the exception: the time is    *)
(* then the count itself and the flag is clear, so that the alarm is due   *)
(* at the next tick.                                                       *)
(***************************************************************************)
Left == [a \in Alarm |-> IF a \notin running THEN 0
                         ELSE IF rollover[a] THEN W - nticks + time[a]
                         ELSE time[a] - nticks]

Countdowns == INSTANCE Countdown WITH ticks <- nticks, left <- Left

AlarmsOnTime == Countdowns!Spec
=============================================================================
