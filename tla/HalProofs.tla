----------------------------- MODULE HalProofs -----------------------------
(***************************************************************************)
(* The services of the HAL with a state of their own, for every value of   *)
(* the constants.  The alarms are countdowns, for every set of alarms and  *)
(* every width of the tick count, as long as none is to wait W - 1 ticks:  *)
(* the inductive invariant AlarmsIInv, and under it the step of Countdown  *)
(* that each step of Alarms is.  The standard streams stay and a lock on a *)
(* device keeps out: the inductive invariant FilesIInv.  The list is a     *)
(* ring however its entries come and go: the inductive invariant           *)
(* LListIInv.                                                              *)
(***************************************************************************)
EXTENDS Alarms, Files, LList, FiniteSetTheorems, WellFoundedInduction, TLAPS

-----------------------------------------------------------------------------
\* Alarms.
USE WordAssumption DEF WordAssumption

\* No alarm is asked to wait as long as a word can say: the next tick would call it back.
NoneWaitsLongest == W - 1 \notin Waits

\* The inductive invariant: a time that is not beyond the wrap is ahead of the
\* count, one beyond it behind.
AlarmsIInv ==
  /\ AlarmsTypeOK
  /\ \A a \in running : IF rollover[a] THEN time[a] < nticks ELSE time[a] > nticks

-----------------------------------------------------------------------------
\* A sum of two words, and of one more.
LEMMA WordIsWord ==
  ASSUME NEW x \in Nat, x < 2 * W
  PROVE  Word(x) \in 0 .. W - 1
BY DEF Word

LEMMA InitInv == AlarmsInit => AlarmsIInv
<1> SUFFICES ASSUME AlarmsInit PROVE AlarmsIInv
  OBVIOUS
<1>1. nticks \in 0 .. W - 1 /\ time \in [Alarm -> 0 .. W - 1]
  BY DEF AlarmsInit
<1>2. clock \in BOOLEAN /\ rollover \in [Alarm -> BOOLEAN]
  BY Zenon DEF AlarmsInit
<1>3. running = {} /\ fired = {}
  BY DEF AlarmsInit
<1> QED BY <1>1, <1>2, <1>3 DEF AlarmsIInv, AlarmsTypeOK

-----------------------------------------------------------------------------
\* What a tick finds: an alarm is due when one tick is left; the others stay on
\* their side of the count.
LEMMA DueIsLast ==
  ASSUME AlarmsIInv, NEW now, now = Word(nticks + 1), NEW a \in running
  PROVE  /\ now \in 0 .. W - 1
         /\ Left[a] \in 1 .. W
         /\ a \in Due(now) <=> Left[a] = 1
         /\ a \in Due(now) => time[a] = now
         /\ a \notin Due(now) => /\ IF Held(a, now) THEN time[a] < now ELSE time[a] > now
                                 /\ Left[a] - 1 = IF Held(a, now) THEN W - now + time[a]
                                                                  ELSE time[a] - now
<1>1. /\ nticks \in 0 .. W - 1 /\ a \in Alarm /\ time[a] \in 0 .. W - 1
      /\ rollover[a] \in BOOLEAN
      /\ IF rollover[a] THEN time[a] < nticks ELSE time[a] > nticks
  BY DEF AlarmsIInv, AlarmsTypeOK
<1>2. Left[a] = IF rollover[a] THEN W - nticks + time[a] ELSE time[a] - nticks
  BY <1>1 DEF Left
<1>3. a \in Due(now) <=> time[a] <= now /\ ~Held(a, now)
  BY DEF Due
<1>4. now = IF nticks = W - 1 THEN 0 ELSE nticks + 1
  BY <1>1 DEF Word
<1>5. CASE rollover[a]
  BY <1>1, <1>2, <1>3, <1>4, <1>5 DEF Held
<1>6. CASE ~rollover[a]
  BY <1>1, <1>2, <1>3, <1>4, <1>6 DEF Held
<1> QED BY <1>1, <1>5, <1>6

\* What is left of an alarm that runs after a step.
LEMMA LeftAfter ==
  ASSUME NEW a \in Alarm
  PROVE  /\ a \notin running' => Left'[a] = 0
         /\ a \in running' => Left'[a] = IF rollover'[a] THEN W - nticks' + time'[a]
                                                         ELSE time'[a] - nticks'
BY DEF Left

\* Being set k ticks ahead of now: the time, and the flag, of alt_alarm_start and
\* of alt_tick.
LEMMA SetAhead ==
  ASSUME NEW now \in 0 .. W - 1, NEW k \in 1 .. W - 1, NEW t, t = Word(now + k)
  PROVE  /\ t \in 0 .. W - 1
         /\ t # now
         /\ t < now => W - now + t = k
         /\ t > now => t - now = k
BY DEF Word

-----------------------------------------------------------------------------
\* What alt_tick does to one alarm.
LEMMA TickOne ==
  ASSUME AlarmsIInv, NEW now, now = Word(nticks + 1), NEW a \in Alarm,
         nticks' = now,
         NEW again \in [Due(now) -> 0 .. W - 1],
         running' = {b \in running : b \in Due(now) => again[b] > 0},
         time' = [b \in Alarm |-> IF b \in Due(now) THEN Word(time[b] + again[b]) ELSE time[b]],
         rollover' = [b \in Alarm |->
            IF b \in Due(now) THEN again[b] > 0 /\ Word(time[b] + again[b]) < now
            ELSE IF b \in running THEN Held(b, now) ELSE rollover[b]]
  PROVE  /\ time'[a] \in 0 .. W - 1
         /\ rollover'[a] \in BOOLEAN
         /\ a \in running' => IF rollover'[a] THEN time'[a] < nticks' ELSE time'[a] > nticks'
         /\ Left'[a] = IF Left[a] = 0 THEN 0
                       ELSE IF Left[a] = 1 THEN again[a] ELSE Left[a] - 1
<1>1. /\ time[a] \in 0 .. W - 1 /\ rollover[a] \in BOOLEAN /\ nticks \in 0 .. W - 1
      /\ Due(now) \subseteq running
  BY DEF AlarmsIInv, AlarmsTypeOK, Due
<1>2. CASE a \notin running
  <2>1. a \notin Due(now) /\ a \notin running' /\ Left[a] = 0
    BY <1>1, <1>2 DEF Left
  <2> QED BY <2>1, <1>1, <1>2, LeftAfter
<1>3. CASE a \in Due(now)
  <2>1. /\ now \in 0 .. W - 1 /\ Left[a] = 1 /\ time[a] = now
    BY <1>1, <1>3, DueIsLast
  <2>2. /\ again[a] \in 0 .. W - 1
        /\ time'[a] = Word(now + again[a])
        /\ rollover'[a] = (again[a] > 0 /\ Word(now + again[a]) < now)
        /\ a \in running' <=> again[a] > 0
    BY <1>1, <1>3, <2>1
  <2>3. CASE again[a] = 0
    <3>1. a \notin running' /\ Left'[a] = 0
      BY <2>2, <2>3, LeftAfter
    <3>2. Word(now + again[a]) \in 0 .. W - 1
      BY <2>1, <2>2, WordIsWord
    <3> QED BY <2>1, <2>2, <2>3, <3>1, <3>2
  <2>4. CASE again[a] > 0
    <3>1. again[a] \in 1 .. W - 1
      BY <2>2, <2>4
    <3>2. LET t == Word(now + again[a])
          IN  /\ t \in 0 .. W - 1
              /\ t # now
              /\ t < now => W - now + t = again[a]
              /\ t > now => t - now = again[a]
      BY <3>1, <2>1, SetAhead
    <3>3. Left'[a] = IF rollover'[a] THEN W - now + time'[a] ELSE time'[a] - now
      BY <2>2, <2>4, LeftAfter
    <3>4. rollover'[a] \in BOOLEAN
      BY <2>2, Zenon
    <3>5. rollover'[a] <=> time'[a] < now
      BY <2>2, <2>4
    <3>6. time'[a] \in 0 .. W - 1 /\ time'[a] # now
      BY <2>2, <3>2
    <3>7. CASE time'[a] < now
      BY <2>1, <2>2, <3>2, <3>3, <3>4, <3>5, <3>6, <3>7
    <3>8. CASE time'[a] > now
      BY <2>1, <2>2, <3>2, <3>3, <3>4, <3>5, <3>6, <3>8
    <3> QED BY <2>1, <3>6, <3>7, <3>8
  <2> QED BY <2>2, <2>3, <2>4
<1>4. CASE a \in running /\ a \notin Due(now)
  <2>1. /\ now \in 0 .. W - 1 /\ Left[a] \in 2 .. W
        /\ IF Held(a, now) THEN time[a] < now ELSE time[a] > now
        /\ Left[a] - 1 = IF Held(a, now) THEN W - now + time[a] ELSE time[a] - now
    BY <1>4, DueIsLast
  <2>2. time'[a] = time[a] /\ rollover'[a] = Held(a, now) /\ a \in running'
    BY <1>4
  <2>3. Held(a, now) \in BOOLEAN
    BY <1>1 DEF Held
  <2>4. Left'[a] = IF Held(a, now) THEN W - now + time[a] ELSE time[a] - now
    BY <2>2, LeftAfter
  <2> QED BY <1>1, <2>1, <2>2, <2>3, <2>4
<1> QED BY <1>1, <1>2, <1>3, <1>4

-----------------------------------------------------------------------------
\* One step for each operation: the invariant is kept, and Countdown steps.
LEMMA SysclkInitStep ==
  ASSUME AlarmsIInv, SysclkInit
  PROVE  AlarmsIInv' /\ UNCHANGED <<nticks, Left, fired>>
<1>1. clock' \in BOOLEAN
  BY Zenon DEF SysclkInit
<1>2. UNCHANGED <<nticks, running, time, rollover, fired>>
  BY DEF SysclkInit
<1>3. AlarmsIInv'
  BY <1>1, <1>2 DEF AlarmsIInv, AlarmsTypeOK
<1> QED BY <1>2, <1>3 DEF Left

LEMMA AlarmStopStep ==
  ASSUME AlarmsIInv, NEW a \in Alarm, AlarmStop(a)
  PROVE  AlarmsIInv' /\ (Countdowns!Stop \/ UNCHANGED <<nticks, Left, fired>>)
<1>1. /\ running' = running \ {a}
      /\ UNCHANGED <<clock, nticks, time, rollover, fired>>
  BY DEF AlarmStop
<1>2. AlarmsIInv'
  BY <1>1 DEF AlarmsIInv, AlarmsTypeOK
<1>3. CASE a \in running
  <2>1. Left[a] > 0
    BY <1>3, DueIsLast
  <2>2. Left' = [Left EXCEPT ![a] = 0]
    BY <1>1 DEF Left
  <2> QED BY <1>1, <1>2, <2>1, <2>2 DEF Countdowns!Stop
<1>4. CASE a \notin running
  BY <1>1, <1>2, <1>4 DEF Left
<1> QED BY <1>3, <1>4

LEMMA AlarmStartStep ==
  ASSUME AlarmsIInv, NoneWaitsLongest, NEW a \in Alarm, NEW n \in Waits, AlarmStart(a, n)
  PROVE  AlarmsIInv' /\ Countdowns!Set
<1> DEFINE t == Word(n + nticks + 1)
<1>1. /\ a \notin running
      /\ time' = [time EXCEPT ![a] = t]
      /\ rollover' = [rollover EXCEPT ![a] = t < nticks]
      /\ running' = running \cup {a}
      /\ UNCHANGED <<clock, nticks, fired>>
  BY DEF AlarmStart
<1>2. /\ nticks \in 0 .. W - 1 /\ time \in [Alarm -> 0 .. W - 1]
      /\ rollover \in [Alarm -> BOOLEAN] /\ n \in Nat /\ n + 1 \in 1 .. W - 1
      /\ running \subseteq Alarm
  BY WaitsAssumption DEF WaitsAssumption, AlarmsIInv, AlarmsTypeOK, NoneWaitsLongest
<1>3. n + nticks + 1 = nticks + (n + 1)
  BY <1>2
<1>4. /\ t \in 0 .. W - 1 /\ t # nticks
      /\ t < nticks => W - nticks + t = n + 1
      /\ t > nticks => t - nticks = n + 1
  BY <1>2, <1>3, SetAhead
<1> HIDE DEF t
<1>5. /\ time' \in [Alarm -> 0 .. W - 1] /\ time'[a] = t
      /\ \A b \in Alarm \ {a} : time'[b] = time[b]
  BY <1>1, <1>2, <1>4
<1>6. /\ rollover' \in [Alarm -> BOOLEAN]
      /\ rollover'[a] <=> t < nticks
      /\ \A b \in Alarm \ {a} : rollover'[b] = rollover[b]
  <2>1. (t < nticks) \in BOOLEAN
    BY <1>2, <1>4
  <2>2. rollover'[a] <=> t < nticks
    BY <1>1, <1>2, Zenon
  <2>3. \A b \in Alarm \ {a} : rollover'[b] = rollover[b]
    BY <1>1, <1>2, Zenon
  <2>4. rollover' \in [Alarm -> BOOLEAN]
    BY <1>1, <1>2, <2>1
  <2> QED BY <2>2, <2>3, <2>4
<1>7. AlarmsIInv'
  <2>1. AlarmsTypeOK'
    BY <1>1, <1>2, <1>5, <1>6 DEF AlarmsIInv, AlarmsTypeOK
  <2>2. IF rollover'[a] THEN time'[a] < nticks' ELSE time'[a] > nticks'
    BY <1>1, <1>2, <1>4, <1>5, <1>6
  <2>3. \A b \in running : IF rollover'[b] THEN time'[b] < nticks' ELSE time'[b] > nticks'
    BY <1>1, <1>2, <1>5, <1>6 DEF AlarmsIInv
  <2> QED BY <1>1, <2>1, <2>2, <2>3 DEF AlarmsIInv
<1>8. Left[a] = 0 /\ Left' = [Left EXCEPT ![a] = n + 1]
  <2>1. Left[a] = 0
    BY <1>1 DEF Left
  <2>2. Left'[a] = n + 1
    BY <1>1, <1>2, <1>4, <1>5, <1>6, LeftAfter
  <2>3. \A b \in Alarm \ {a} : Left'[b] = Left[b]
    BY <1>1, <1>5, <1>6 DEF Left
  <2>4. DOMAIN Left = Alarm /\ DOMAIN Left' = Alarm
        /\ Left' = [b \in Alarm |-> Left'[b]] /\ Left = [b \in Alarm |-> Left[b]]
    BY DEF Left
  <2> QED BY <2>1, <2>2, <2>3, <2>4
<1>9. n + 1 \in 1 .. W
  BY <1>2
<1> QED BY <1>1, <1>7, <1>8, <1>9 DEF Countdowns!Set

LEMMA AlarmTickStep ==
  ASSUME AlarmsIInv, AlarmTick
  PROVE  AlarmsIInv' /\ Countdowns!Tick
<1> DEFINE now == Word(nticks + 1)
<1>1. /\ nticks' = now /\ fired' = Due(now) /\ UNCHANGED clock
  BY DEF AlarmTick
<1>2. PICK again \in [Due(now) -> 0 .. W - 1] :
        /\ running' = {b \in running : b \in Due(now) => again[b] > 0}
        /\ time' = [b \in Alarm |-> IF b \in Due(now) THEN Word(time[b] + again[b]) ELSE time[b]]
        /\ rollover' = [b \in Alarm |->
             IF b \in Due(now) THEN again[b] > 0 /\ Word(time[b] + again[b]) < now
             ELSE IF b \in running THEN Held(b, now) ELSE rollover[b]]
  BY DEF AlarmTick
<1>3. /\ nticks \in 0 .. W - 1 /\ running \subseteq Alarm /\ clock \in BOOLEAN
      /\ Due(now) \subseteq running
  BY DEF AlarmsIInv, AlarmsTypeOK, Due
<1>4. now = IF nticks = W - 1 THEN 0 ELSE nticks + 1
  BY <1>3 DEF Word
<1> HIDE DEF now
<1>5. now = Word(nticks + 1)
  BY DEF now
<1>6. \A a \in Alarm :
        /\ time'[a] \in 0 .. W - 1
        /\ rollover'[a] \in BOOLEAN
        /\ a \in running' => IF rollover'[a] THEN time'[a] < nticks' ELSE time'[a] > nticks'
        /\ Left'[a] = IF Left[a] = 0 THEN 0
                      ELSE IF Left[a] = 1 THEN again[a] ELSE Left[a] - 1
  BY <1>1, <1>2, <1>5, TickOne
<1>7. AlarmsIInv'
  <2>1. time' = [b \in Alarm |-> time'[b]] /\ rollover' = [b \in Alarm |-> rollover'[b]]
    BY <1>2
  <2>2. time' \in [Alarm -> 0 .. W - 1] /\ rollover' \in [Alarm -> BOOLEAN]
    BY <1>6, <2>1
  <2>3. nticks' \in 0 .. W - 1 /\ running' \subseteq Alarm /\ fired' \subseteq Alarm
        /\ clock' \in BOOLEAN
    BY <1>1, <1>2, <1>3, <1>4
  <2> QED BY <1>6, <2>2, <2>3 DEF AlarmsIInv, AlarmsTypeOK
<1>8. Due(now) = {a \in Alarm : Left[a] = 1}
  <2>1. \A a \in running : a \in Due(now) <=> Left[a] = 1
    BY <1>5, DueIsLast
  <2>2. \A a \in Alarm \ running : Left[a] = 0
    BY DEF Left
  <2> QED BY <1>3, <2>1, <2>2
<1>9. \E f \in [Alarm -> 0 .. W - 1] :
        Left' = [a \in Alarm |-> IF Left[a] = 0 THEN 0
                                 ELSE IF Left[a] = 1 THEN f[a] ELSE Left[a] - 1]
  <2> DEFINE f == [a \in Alarm |-> IF a \in Due(now) THEN again[a] ELSE 0]
  <2>1. f \in [Alarm -> 0 .. W - 1]
    BY <1>2
  <2>2. \A a \in Alarm : Left[a] = 1 => f[a] = again[a]
    BY <1>8
  <2>3. Left' = [a \in Alarm |-> Left'[a]]
    BY DEF Left
  <2> HIDE DEF f
  <2>4. Left' = [a \in Alarm |-> IF Left[a] = 0 THEN 0
                                 ELSE IF Left[a] = 1 THEN f[a] ELSE Left[a] - 1]
    BY <1>6, <2>2, <2>3
  <2> QED BY <2>1, <2>4
<1> QED BY <1>1, <1>4, <1>7, <1>8, <1>9 DEF Countdowns!Tick

-----------------------------------------------------------------------------
LEMMA AlarmsStep ==
  ASSUME AlarmsIInv, NoneWaitsLongest, [AlarmsNext]_alarmVars
  PROVE  AlarmsIInv' /\ [Countdowns!Next]_<<nticks, Left, fired>>
<1>1. CASE SysclkInit
  BY <1>1, SysclkInitStep
<1>2. ASSUME NEW a \in Alarm, AlarmStop(a)
      PROVE  AlarmsIInv' /\ [Countdowns!Next]_<<nticks, Left, fired>>
  BY <1>2, AlarmStopStep DEF Countdowns!Next
<1>3. ASSUME NEW a \in Alarm, NEW n \in Waits, AlarmStart(a, n)
      PROVE  AlarmsIInv' /\ [Countdowns!Next]_<<nticks, Left, fired>>
  BY <1>3, AlarmStartStep DEF Countdowns!Next
<1>4. CASE AlarmTick
  BY <1>4, AlarmTickStep DEF Countdowns!Next
<1>5. CASE UNCHANGED alarmVars
  BY <1>5 DEF alarmVars, AlarmsIInv, AlarmsTypeOK, Left
<1> QED BY <1>1, <1>2, <1>3, <1>4, <1>5 DEF AlarmsNext

(***************************************************************************)
(* The times of the running alarms are on their side of the tick count,    *)
(* and everything keeps its type, when none waits for W - 1 ticks.         *)
(***************************************************************************)
THEOREM AlarmsInvariant ==
  ASSUME NoneWaitsLongest
  PROVE  AlarmsSpec => []AlarmsIInv
<1>1. AlarmsIInv /\ [AlarmsNext]_alarmVars => AlarmsIInv'
  BY AlarmsStep
<1> QED BY <1>1, InitInv, PTL DEF AlarmsSpec

(***************************************************************************)
(* Alarms are called back on time, when none waits for W - 1 ticks: the    *)
(* wrapping tick count of the code implements the countdowns of module     *)
(* Countdown.                                                              *)
(***************************************************************************)
THEOREM AlarmsAreOnTime ==
  ASSUME NoneWaitsLongest
  PROVE  AlarmsSpec => AlarmsOnTime
<1>1. AlarmsInit => Countdowns!Init
  BY DEF AlarmsInit, Countdowns!Init, Left
<1>2. AlarmsIInv /\ [AlarmsNext]_alarmVars => [Countdowns!Next]_<<nticks, Left, fired>>
  BY AlarmsStep
<1>3. AlarmsSpec => []AlarmsIInv
  BY AlarmsInvariant
<1> QED BY <1>1, <1>2, <1>3, PTL DEF AlarmsSpec, AlarmsOnTime, Countdowns!Spec

\* The types are kept however long the waits are.
LEMMA AlarmsTypes ==
  ASSUME AlarmsTypeOK, [AlarmsNext]_alarmVars
  PROVE  AlarmsTypeOK'
<1>1. /\ nticks \in 0 .. W - 1 /\ running \subseteq Alarm /\ fired \subseteq Alarm
      /\ time \in [Alarm -> 0 .. W - 1] /\ rollover \in [Alarm -> BOOLEAN]
      /\ clock \in BOOLEAN
  BY DEF AlarmsTypeOK
<1>2. CASE SysclkInit
  <2>1. clock' \in BOOLEAN
    BY <1>2, Zenon DEF SysclkInit
  <2>2. UNCHANGED <<nticks, running, time, rollover, fired>>
    BY <1>2 DEF SysclkInit
  <2> QED BY <1>1, <2>1, <2>2 DEF AlarmsTypeOK
<1>3. ASSUME NEW a \in Alarm, AlarmStop(a)
      PROVE  AlarmsTypeOK'
  BY <1>1, <1>3 DEF AlarmStop, AlarmsTypeOK
<1>4. ASSUME NEW a \in Alarm, NEW n \in Waits, AlarmStart(a, n)
      PROVE  AlarmsTypeOK'
  <2> DEFINE t == Word(n + nticks + 1)
  <2>1. t \in 0 .. W - 1 /\ (t < nticks) \in BOOLEAN
    <3>1. n + nticks + 1 \in Nat /\ n + nticks + 1 < 2 * W
      BY <1>1, WaitsAssumption DEF WaitsAssumption
    <3> QED BY <1>1, <3>1, WordIsWord
  <2>2. /\ time' = [time EXCEPT ![a] = t] /\ rollover' = [rollover EXCEPT ![a] = t < nticks]
        /\ running' = running \cup {a} /\ UNCHANGED <<clock, nticks, fired>>
    BY <1>4 DEF AlarmStart
  <2> HIDE DEF t
  <2>3. time' \in [Alarm -> 0 .. W - 1]
    BY <1>1, <2>1, <2>2
  <2>4. rollover' \in [Alarm -> BOOLEAN]
    BY <1>1, <2>1, <2>2
  <2> QED BY <1>1, <2>2, <2>3, <2>4 DEF AlarmsTypeOK
<1>5. CASE AlarmTick
  <2> DEFINE now == Word(nticks + 1)
  <2>1. now \in 0 .. W - 1
    BY <1>1 DEF Word
  <2>2. nticks' = now /\ fired' = Due(now) /\ UNCHANGED clock
    BY <1>5 DEF AlarmTick
  <2>3. PICK again \in [Due(now) -> 0 .. W - 1] :
          /\ running' = {b \in running : b \in Due(now) => again[b] > 0}
          /\ time' = [b \in Alarm |-> IF b \in Due(now) THEN Word(time[b] + again[b]) ELSE time[b]]
          /\ rollover' = [b \in Alarm |->
               IF b \in Due(now) THEN again[b] > 0 /\ Word(time[b] + again[b]) < now
               ELSE IF b \in running THEN Held(b, now) ELSE rollover[b]]
    BY <1>5 DEF AlarmTick
  <2> HIDE DEF now
  <2>4. Due(now) \subseteq running
    BY DEF Due
  <2>5. time' \in [Alarm -> 0 .. W - 1]
    <3>1. ASSUME NEW b \in Due(now) PROVE Word(time[b] + again[b]) \in 0 .. W - 1
      <4>1. b \in Alarm /\ time[b] \in 0 .. W - 1 /\ again[b] \in 0 .. W - 1
        BY <1>1, <2>3, <2>4
      <4>2. time[b] + again[b] \in Nat /\ time[b] + again[b] < 2 * W
        BY <4>1
      <4> QED BY <4>2, WordIsWord
    <3> QED BY <1>1, <2>3, <3>1
  <2>6. rollover' \in [Alarm -> BOOLEAN]
    <3>1. ASSUME NEW b \in Alarm
          PROVE  rollover[b] \in BOOLEAN /\ Held(b, now) \in BOOLEAN
      BY <1>1, Zenon DEF Held
    <3>2. ASSUME NEW b \in Due(now)
          PROVE  (again[b] > 0 /\ Word(time[b] + again[b]) < now) \in BOOLEAN
      BY Zenon
    <3> QED BY <2>3, <3>1, <3>2, Zenon
  <2> QED BY <1>1, <2>1, <2>2, <2>3, <2>4, <2>5, <2>6 DEF AlarmsTypeOK
<1>6. CASE UNCHANGED alarmVars
  BY <1>1, <1>6 DEF alarmVars, AlarmsTypeOK
<1> QED BY <1>2, <1>3, <1>4, <1>5, <1>6 DEF AlarmsNext

-----------------------------------------------------------------------------
\* Files.
USE FdAssumption, DevAssumption DEF FdAssumption, DevAssumption

\* The inductive invariant, part by part.  Until main nothing is open but the
\* standard streams, and nothing is locked.
BootInPart ==
  /\ ~Running => \A i \in Fd : /\ Open(i) => i \in Standard
                              /\ ~fds[i].excl
  /\ boot # "sys_init" => Jtag \in devices
  /\ boot \in {"stdin", "stderr", "main"} =>
       maxfd >= 3 /\ fds[Stdout].dev = Jtag /\ MayWrite(Stdout)
  /\ boot \in {"stderr", "main"} => fds[Stdin].dev = Jtag /\ MayRead(Stdin)
  /\ boot = "main" => fds[Stderr].dev = Jtag /\ MayWrite(Stderr)

\* What the two searches for a lock, each with a bound of its own, rest on.
LocksInPart ==
  /\ \A i \in Standard : Open(i)
  /\ \A i \in Fd \ Standard : Open(i) => i <= maxfd
  /\ \A i \in Fd : fds[i].excl => Open(i)
  /\ \A i, j \in Fd :
       i # j /\ Open(i) /\ fds[j].excl /\ fds[i].dev = fds[j].dev => j < maxfd

FilesIInv == FilesTypeOK /\ BootInPart /\ LocksInPart /\ OneLock

\* The larger of two integers.
LEMMA MaxOfTwo ==
  ASSUME NEW a \in Int, NEW b \in Int
  PROVE  Max({a, b}) = IF a >= b THEN a ELSE b
<1>1. PICK m \in {a, b} : \A y \in {a, b} : m >= y
  OBVIOUS
<1>2. Max({a, b}) \in {a, b} /\ \A y \in {a, b} : Max({a, b}) >= y
  BY <1>1 DEF Max
<1> QED BY <1>2

\* The first free descriptor, if there is one.
LEMMA FirstFree ==
  ASSUME Free # {}
  PROVE  Min(Free) \in Fd /\ ~Open(Min(Free))
<1>1. Free \subseteq Nat
  BY DEF Free, Fd
<1>2. IsWellFoundedOn(OpToRel(<, Nat), Nat)
  BY NatLessThanWellFounded
<1>3. \E x \in Free : \A y \in Free : ~ (<<y, x>> \in OpToRel(<, Nat))
  <2> HIDE DEF Free
  <2> QED BY <1>1, <1>2, WFMin, Zenon
<1>4. PICK x \in Free : \A y \in Free : ~ (<<y, x>> \in OpToRel(<, Nat))
  BY <1>3
<1>5. \A y \in Free : x <= y
  <2> TAKE y \in Free
  <2>1. x \in Nat /\ y \in Nat /\ ~(y < x)
    BY <1>1, <1>4 DEF OpToRel
  <2> QED BY <2>1
<1>6. Min(Free) \in Free
  BY <1>5 DEF Min
<1> QED BY <1>6 DEF Free

\* One descriptor is set, the others stay.
LEMMA DescriptorSet ==
  ASSUME FilesTypeOK, NEW i \in Fd, NEW d \in Descriptors, fds' = [fds EXCEPT ![i] = d]
  PROVE  /\ fds' \in [Fd -> Descriptors]
         /\ fds'[i] = d
         /\ \A j \in Fd : j # i => fds'[j] = fds[j]
BY DEF FilesTypeOK

\* What a descriptor holds, and what one that open fills in holds.
LEMMA DescriptorFields ==
  ASSUME FilesTypeOK, NEW i \in Fd
  PROVE  /\ fds[i] \in Descriptors
         /\ fds[i].dev \in {NoDev, Jtag, Null}
         /\ fds[i].excl \in BOOLEAN
BY DEF FilesTypeOK, Descriptors

LEMMA NewDescriptor ==
  ASSUME NEW d \in {Jtag, Null}, NEW acc \in Access \cup {"O_RDONLY", "O_WRONLY"}
  PROVE  LET new == Descriptor(d, acc, TRUE)
         IN  new \in Descriptors /\ new.dev = d /\ new.access = acc /\ ~new.excl /\ d # NoDev
BY DEF Descriptor, Descriptors, NoDev

LEMMA FilesInitInv == FilesInit => FilesIInv
<1> SUFFICES ASSUME FilesInit PROVE FilesIInv
  OBVIOUS
<1>1. Standard \subseteq Fd /\ Standard = {0, 1, 2}
  BY DEF Standard, Stdin, Stdout, Stderr, Fd
<1>2. /\ Descriptor(Null, "O_RDONLY", FALSE) \in Descriptors /\ Closed \in Descriptors
      /\ Descriptor(Null, "O_RDONLY", FALSE).dev = Null /\ Closed.dev = NoDev
      /\ ~Descriptor(Null, "O_RDONLY", FALSE).excl /\ ~Closed.excl
  BY DEF Closed, Descriptor, Descriptors
<1>3. fds = [i \in Fd |-> IF i \in Standard THEN Descriptor(Null, "O_RDONLY", FALSE) ELSE Closed]
  BY DEF FilesInit
<1> HIDE DEF Closed, Descriptor
<1>4. FilesTypeOK
  <2>1. fds \in [Fd -> Descriptors]
    BY <1>2, <1>3
  <2>2. maxfd \in -1 .. MaxFd - 1 /\ devices \subseteq {Jtag, Null} /\ boot = "sys_init"
    BY DEF FilesInit
  <2>3. errno = Success
    BY DEF FilesInit
  <2> QED BY <2>1, <2>2, <2>3 DEF FilesTypeOK
<1>5. \A i \in Fd : /\ ~fds[i].excl
                    /\ Open(i) <=> i \in Standard
  BY <1>2, <1>3 DEF Open, NoDev
<1>6. ~Running /\ boot = "sys_init"
  BY DEF FilesInit, Running
<1> QED BY <1>1, <1>4, <1>5, <1>6 DEF FilesIInv, BootInPart, LocksInPart, OneLock

-----------------------------------------------------------------------------
\* What open does: nothing, or it takes a descriptor while no other of the
\* device holds the lock.
LEMMA OpenAtDoes ==
  ASSUME FilesIInv, NEW name \in {Jtag, Null, Strange}, NEW acc, NEW to \in Fd,
         OpenAt(name, acc, to)
  PROVE  /\ maxfd' \in -1 .. MaxFd - 1 /\ maxfd' >= maxfd
         /\ errno' \in {Success, "ENODEV", "EMFILE", "EACCES"}
         /\ errno' # Success => fds' = fds
         /\ errno' = Success =>
              /\ name \in {Jtag, Null} /\ Free # {}
              /\ fds' = [fds EXCEPT ![to] = Descriptor(name, acc, TRUE)]
              /\ maxfd' >= Min(Free)
              /\ \A j \in 0..maxfd' :
                   j # Min(Free) /\ fds[j].dev = name => ~fds[j].excl
<1>1. maxfd \in -1 .. MaxFd - 1 /\ devices \subseteq {Jtag, Null}
  BY DEF FilesIInv, FilesTypeOK
<1>2. /\ errno' = OpenError(name)
      /\ fds' = IF errno' = Success
                  THEN [fds EXCEPT ![to] = Descriptor(name, acc, TRUE)] ELSE fds
      /\ maxfd' = IF errno' \in {Success, "EACCES"} THEN Max({maxfd, Min(Free)}) ELSE maxfd
  BY DEF OpenAt
<1>3. errno' \in {Success, "ENODEV", "EMFILE", "EACCES"}
  BY <1>2 DEF OpenError
<1>4. errno' \in {Success, "EACCES"} => Free # {}
  BY <1>2 DEF OpenError, Success
<1>5. Free # {} => Min(Free) \in 0 .. MaxFd - 1
  BY FirstFree DEF Fd
<1>6. Free # {} => Max({maxfd, Min(Free)}) = IF maxfd >= Min(Free) THEN maxfd ELSE Min(Free)
  BY <1>1, <1>5, MaxOfTwo
<1>7. maxfd' \in -1 .. MaxFd - 1 /\ maxfd' >= maxfd
  BY <1>1, <1>2, <1>4, <1>5, <1>6
<1>8. ASSUME errno' = Success
      PROVE  name \in {Jtag, Null} /\ ~LockedFor(name, Min(Free))
  BY <1>1, <1>2, <1>8 DEF OpenError, Success
<1>9. errno' = Success => maxfd' >= Min(Free) /\ maxfd' = Max({maxfd, Min(Free)})
  BY <1>1, <1>2, <1>4, <1>5, <1>6
<1> QED BY <1>2, <1>3, <1>4, <1>7, <1>8, <1>9 DEF LockedFor

\* The standard streams are descriptors 0, 1 and 2.
LEMMA StandardFds == Standard = {0, 1, 2} /\ Standard \subseteq Fd
BY DEF Standard, Stdin, Stdout, Stderr, Fd

LEMMA FileOpenStep ==
  ASSUME FilesIInv, NEW name \in {Jtag, Null, Strange}, NEW acc \in Access, FileOpen(name, acc)
  PROVE  FilesIInv' /\ \A i, j \in Fd :
           ~Open(i) /\ Open(i)' /\ fds[j].excl => fds[j].dev # fds'[i].dev
<1> DEFINE to == IF Free = {} THEN Stdin ELSE Min(Free)
<1>1. boot = "main" /\ OpenAt(name, acc, to) /\ UNCHANGED <<devices, boot>>
  BY DEF FileOpen, Running
<1>2. FilesTypeOK /\ BootInPart /\ LocksInPart /\ OneLock /\ maxfd \in -1 .. MaxFd - 1
  BY DEF FilesIInv, FilesTypeOK
<1>3. to \in Fd
  BY FirstFree, StandardFds DEF Stdin
<1>4. /\ maxfd' \in -1 .. MaxFd - 1 /\ maxfd' >= maxfd
      /\ errno' \in {Success, "ENODEV", "EMFILE", "EACCES"}
  BY <1>1, <1>3, OpenAtDoes
<1>5. CASE errno' # Success
  <2>1. fds' = fds
    BY <1>1, <1>3, <1>5, OpenAtDoes
  <2>2. FilesTypeOK' /\ BootInPart' /\ LocksInPart' /\ OneLock'
    BY <1>1, <1>2, <1>4, <2>1
       DEF FilesTypeOK, BootInPart, LocksInPart, OneLock, Open, Running, MayRead, MayWrite, Fd
  <2> QED BY <2>1, <2>2 DEF FilesIInv, Open
<1>6. CASE errno' = Success
  <2> DEFINE new == Descriptor(name, acc, TRUE)
  <2>1. /\ name \in {Jtag, Null} /\ Free # {} /\ to = Min(Free)
        /\ fds' = [fds EXCEPT ![to] = new]
        /\ maxfd' >= to
        /\ \A j \in 0..maxfd' : j # to /\ fds[j].dev = name => ~fds[j].excl
    BY <1>1, <1>3, <1>6, OpenAtDoes
  <2>2. new \in Descriptors /\ new.dev = name /\ ~new.excl /\ name # NoDev
    BY <2>1, NewDescriptor
  <2> HIDE DEF new
  <2>3. ~Open(to) /\ to \notin Standard
    BY <1>2, <2>1, FirstFree DEF LocksInPart
  <2> HIDE DEF to
  <2>4. /\ fds' \in [Fd -> Descriptors]
        /\ fds'[to] = new
        /\ \A j \in Fd : j # to => fds'[j] = fds[j]
    BY <1>2, <1>3, <2>1, <2>2, DescriptorSet
  <2>5. FilesTypeOK'
    BY <1>1, <1>2, <1>4, <2>4 DEF FilesTypeOK
  <2>6. BootInPart'
    <3>1. \A j \in Standard : fds'[j] = fds[j]
      BY <2>3, <2>4, StandardFds
    <3> QED BY <1>1, <1>2, <1>4, <3>1, StandardFds
            DEF BootInPart, Running, MayRead, MayWrite, Standard
  <2>7. \A j \in Fd : fds[j].excl => j \in 0..maxfd'
    BY <1>1, <1>2, <1>4, StandardFds DEF LocksInPart, BootInPart, Fd
  <2>8. \A j \in Fd : fds'[j].excl => j # to /\ fds'[j] = fds[j] /\ fds'[j].dev # name
    BY <2>1, <2>2, <2>4, <2>7
  <2>9. LocksInPart' /\ OneLock'
    <3>1. \A i \in Standard : Open(i)'
      BY <1>2, <2>3, <2>4, StandardFds DEF LocksInPart, Open
    <3>2. \A i \in Fd \ Standard : Open(i)' => i <= maxfd'
      BY <1>2, <1>4, <2>1, <2>4 DEF LocksInPart, Open, Fd
    <3>3. \A i \in Fd : fds'[i].excl => Open(i)'
      BY <1>2, <2>8 DEF LocksInPart, Open
    <3>4. ASSUME NEW i \in Fd, NEW j \in Fd,
                 i # j, Open(i)', fds'[j].excl, fds'[i].dev = fds'[j].dev
          PROVE  j < maxfd'
      <4>1. i # to /\ fds'[i] = fds[i] /\ fds'[j] = fds[j]
        BY <2>2, <2>4, <2>8, <3>4
      <4>2. j < maxfd
        BY <1>2, <3>4, <4>1 DEF LocksInPart, Open
      <4> QED BY <1>2, <1>4, <4>2 DEF Fd
    <3>5. OneLock'
      BY <1>2, <2>8 DEF OneLock
    <3> QED BY <3>1, <3>2, <3>3, <3>4, <3>5 DEF LocksInPart
  <2>10. \A i, j \in Fd : ~Open(i) /\ Open(i)' /\ fds[j].excl => fds[j].dev # fds'[i].dev
    <3> SUFFICES ASSUME NEW i \in Fd, NEW j \in Fd, ~Open(i), Open(i)', fds[j].excl
                 PROVE  fds[j].dev # fds'[i].dev
      OBVIOUS
    <3>1. i = to
      BY <2>4 DEF Open
    <3>2. Open(j) /\ j # to
      BY <1>2, <2>3 DEF LocksInPart
    <3> QED BY <2>1, <2>2, <2>4, <2>7, <3>1, <3>2
  <2> QED BY <2>5, <2>6, <2>9, <2>10 DEF FilesIInv
<1> QED BY <1>5, <1>6

-----------------------------------------------------------------------------
\* A lock is had when no descriptor below maxfd is on the device; the one at
\* maxfd cannot lock it later, for then this one is below.
LEMMA FileLockStep ==
  ASSUME FilesIInv, NEW i \in Fd, FileLock(i)
  PROVE  FilesIInv' /\ \A j \in Fd : Open(j)' => Open(j)
<1>1. /\ boot = "main" /\ Open(i) /\ UNCHANGED <<maxfd, devices, boot>>
      /\ errno' \in {"EACCES", Success}
      /\ fds' = IF LockRefused(i) THEN fds ELSE [fds EXCEPT ![i].excl = TRUE]
  BY DEF FileLock, Running
<1>2. FilesTypeOK /\ BootInPart /\ LocksInPart /\ OneLock /\ maxfd \in -1 .. MaxFd - 1
  BY DEF FilesIInv, FilesTypeOK
<1>3. CASE LockRefused(i)
  BY <1>1, <1>2, <1>3
     DEF FilesIInv, FilesTypeOK, BootInPart, LocksInPart, OneLock, Open, Running, MayRead,
         MayWrite
<1>4. CASE ~LockRefused(i)
  <2> DEFINE d == [fds[i] EXCEPT !.excl = TRUE]
  <2>1. /\ d \in Descriptors /\ d.dev = fds[i].dev /\ d.access = fds[i].access /\ d.excl
        /\ fds' = [fds EXCEPT ![i] = d]
    BY <1>1, <1>2, <1>4, DescriptorFields DEF Descriptors
  <2> HIDE DEF d
  <2>2. /\ fds' \in [Fd -> Descriptors] /\ fds'[i] = d
        /\ \A j \in Fd : j # i => fds'[j] = fds[j]
    BY <1>2, <2>1, DescriptorSet
  <2>3. \A j \in Fd : /\ fds'[j].dev = fds[j].dev /\ fds'[j].access = fds[j].access
                      /\ j # i => fds'[j].excl = fds[j].excl
    BY <2>1, <2>2
  <2>4. FilesTypeOK'
    BY <1>1, <1>2, <2>2 DEF FilesTypeOK
  <2>5. BootInPart'
    BY <1>1, <1>2, <2>3, StandardFds
       DEF BootInPart, Running, MayRead, MayWrite, Standard
  <2>6. \A j \in Fd : j # i /\ fds[j].dev = fds[i].dev => j >= maxfd
    BY <1>2, <1>4 DEF LockRefused, Fd
  <2>7. i <= maxfd
    BY <1>1, <1>2, StandardFds DEF LocksInPart, BootInPart
  <2>8. \A j \in Fd : j # i /\ fds[j].excl => fds[j].dev # fds[i].dev
    BY <1>1, <1>2, <2>6 DEF LocksInPart, Fd
  <2>9. LocksInPart'
    <3>1. \A j, k \in Fd :
            k # j /\ Open(k)' /\ fds'[j].excl /\ fds'[k].dev = fds'[j].dev => j < maxfd'
      <4> SUFFICES ASSUME NEW j \in Fd, NEW k \in Fd, k # j, Open(k)', fds'[j].excl,
                          fds'[k].dev = fds'[j].dev
                   PROVE  j < maxfd
        BY <1>1
      <4>1. Open(k) /\ fds[k].dev = fds[j].dev
        BY <2>3 DEF Open
      <4>2. CASE j = i
        <5>1. k >= maxfd
          BY <2>6, <4>1, <4>2
        <5>2. k <= maxfd
          BY <1>1, <1>2, <4>1, StandardFds DEF LocksInPart, BootInPart
        <5> QED BY <1>2, <2>7, <4>2, <5>1, <5>2 DEF Fd
      <4>3. CASE j # i
        BY <1>2, <2>3, <4>1, <4>3 DEF LocksInPart
      <4> QED BY <4>2, <4>3
    <3>2. \A j \in Fd : Open(j)' <=> Open(j)
      BY <2>3 DEF Open
    <3>3. \A j \in Fd : fds'[j].excl => Open(j)
      BY <1>1, <1>2, <2>3 DEF LocksInPart
    <3> QED BY <1>1, <1>2, <3>1, <3>2, <3>3, StandardFds DEF LocksInPart
  <2>10. OneLock'
    BY <1>2, <2>3, <2>8 DEF OneLock
  <2> QED BY <2>3, <2>4, <2>5, <2>9, <2>10 DEF FilesIInv, Open
<1> QED BY <1>3, <1>4

\* A descriptor is closed, or loses its lock, or is changed in its flags.
LEMMA DescriptorLoosened ==
  ASSUME FilesIInv, NEW i \in Fd, NEW d \in Descriptors, boot = "main",
         fds' = [fds EXCEPT ![i] = d], UNCHANGED <<maxfd, devices, boot>>,
         errno' \in {Success, "ENODEV", "EMFILE", "EACCES", "EWOULDBLOCK", "ENOTSUP"},
         d.excl => fds[i].excl,
         \/ d.dev = fds[i].dev /\ d.access = fds[i].access
         \/ d.dev = NoDev /\ ~d.excl /\ i \notin Standard
  PROVE  FilesIInv' /\ \A j \in Fd : Open(j)' => Open(j)
<1>1. FilesTypeOK /\ BootInPart /\ LocksInPart /\ OneLock
  BY DEF FilesIInv
<1>2. /\ fds' \in [Fd -> Descriptors] /\ fds'[i] = d
      /\ \A j \in Fd : j # i => fds'[j] = fds[j]
  BY <1>1, DescriptorSet
<1>3. FilesTypeOK'
  BY <1>1, <1>2 DEF FilesTypeOK
<1>4. \A j \in Standard : fds'[j].dev = fds[j].dev /\ fds'[j].access = fds[j].access
  BY <1>2, StandardFds
<1>5. BootInPart'
  BY <1>1, <1>4, StandardFds DEF BootInPart, Running, MayRead, MayWrite, Standard
<1>6. \A j \in Fd : /\ fds'[j].excl => fds[j].excl /\ Open(j)' /\ fds'[j].dev = fds[j].dev
                    /\ Open(j)' => Open(j) /\ fds'[j].dev = fds[j].dev
  BY <1>1, <1>2 DEF Open, LocksInPart
<1>7. LocksInPart'
  <2>1. \A j \in Standard : Open(j)'
    BY <1>1, <1>4 DEF LocksInPart, Open
  <2>2. \A j \in Fd \ Standard : Open(j)' => j <= maxfd'
    BY <1>1, <1>6 DEF LocksInPart
  <2>3. \A j, k \in Fd :
          j # k /\ Open(j)' /\ fds'[k].excl /\ fds'[j].dev = fds'[k].dev => k < maxfd'
    BY <1>1, <1>6 DEF LocksInPart
  <2> QED BY <1>6, <2>1, <2>2, <2>3 DEF LocksInPart
<1>8. OneLock'
  BY <1>1, <1>6 DEF OneLock
<1> QED BY <1>3, <1>5, <1>6, <1>7, <1>8 DEF FilesIInv

LEMMA FileCloseStep ==
  ASSUME FilesIInv, NEW i \in Fd, FileClose(i)
  PROVE  FilesIInv' /\ \A j \in Fd : Open(j)' => Open(j)
<1>1. /\ boot = "main" /\ fds' = Release(i) /\ UNCHANGED <<maxfd, devices, boot>>
      /\ errno' \in {Success, "EWOULDBLOCK"}
  BY DEF FileClose, Running
<1>2. CASE i \in Standard
  <2>1. fds' = [fds EXCEPT ![i] = fds[i]]
    BY <1>1, <1>2 DEF Release, FilesIInv, FilesTypeOK
  <2>2. fds[i] \in Descriptors
    BY DescriptorFields DEF FilesIInv
  <2> QED BY <1>1, <2>1, <2>2, DescriptorLoosened
<1>3. CASE i \notin Standard
  <2>1. fds' = [fds EXCEPT ![i] = Closed]
    BY <1>1, <1>3 DEF Release
  <2>2. Closed \in Descriptors /\ Closed.dev = NoDev /\ ~Closed.excl
    BY DEF Closed, Descriptor, Descriptors
  <2> QED BY <1>1, <1>3, <2>1, <2>2, DescriptorLoosened
<1> QED BY <1>2, <1>3

LEMMA FileFlagsStep ==
  ASSUME FilesIInv, NEW i \in Fd, FileUnlock(i) \/ FileSetFlags(i)
  PROVE  FilesIInv' /\ \A j \in Fd : Open(j)' => Open(j)
<1>1. boot = "main" /\ UNCHANGED <<maxfd, devices, boot>>
  BY DEF FileUnlock, FileSetFlags, Running
<1>2. fds[i] \in Descriptors /\ fds \in [Fd -> Descriptors]
  BY DescriptorFields DEF FilesIInv, FilesTypeOK
<1>3. errno' \in {Success, "ENODEV", "EMFILE", "EACCES", "EWOULDBLOCK", "ENOTSUP"}
  BY DEF FilesIInv, FilesTypeOK, FileUnlock, FileSetFlags, Success
<1>4. CASE FileUnlock(i)
  <2> DEFINE d == [fds[i] EXCEPT !.excl = FALSE]
  <2>1. fds' = [fds EXCEPT ![i] = d]
    BY <1>2, <1>4 DEF FileUnlock
  <2>2. /\ d \in Descriptors /\ ~d.excl
        /\ d.dev = fds[i].dev /\ d.access = fds[i].access
    BY <1>2 DEF Descriptors
  <2> HIDE DEF d
  <2> QED BY <1>1, <1>3, <2>1, <2>2, DescriptorLoosened
<1>5. CASE FileSetFlags(i)
  <2>1. PICK nb \in BOOLEAN : fds' = [fds EXCEPT ![i].nonblock = nb]
    BY <1>5 DEF FileSetFlags
  <2> DEFINE d == [fds[i] EXCEPT !.nonblock = nb]
  <2>2. fds' = [fds EXCEPT ![i] = d]
    BY <1>2, <2>1
  <2>3. /\ d \in Descriptors /\ d.excl = fds[i].excl
        /\ d.dev = fds[i].dev /\ d.access = fds[i].access
    BY <1>2 DEF Descriptors
  <2> HIDE DEF d
  <2> QED BY <1>1, <1>3, <2>2, <2>3, DescriptorLoosened
<1> QED BY <1>4, <1>5

LEMMA FileUseStep ==
  ASSUME FilesIInv, NEW i \in Fd, FileTransfer(i) \/ FileSeek(i)
  PROVE  FilesIInv' /\ \A j \in Fd : Open(j)' => Open(j)
<1>1. UNCHANGED <<fds, maxfd, devices, boot>> /\ errno' \in {Success, "EACCES", "ENOTSUP"}
  BY DEF FileTransfer, FileSeek
<1> QED BY <1>1 DEF FilesIInv, FilesTypeOK, BootInPart, LocksInPart, OneLock, Open, Running,
                    MayRead, MayWrite

-----------------------------------------------------------------------------
LEMMA SysInitStep ==
  ASSUME FilesIInv, SysInit
  PROVE  FilesIInv' /\ \A j \in Fd : Open(j)' => Open(j)
<1>1. /\ boot = "sys_init" /\ boot' = "stdout" /\ devices' = devices \cup {Jtag}
      /\ UNCHANGED <<fds, maxfd, errno>>
  BY DEF SysInit
<1> QED BY <1>1 DEF FilesIInv, FilesTypeOK, BootInPart, LocksInPart, OneLock, Open, Running

\* Before main open finds a descriptor and no lock, and succeeds.
LEMMA RedirectDoes ==
  ASSUME FilesIInv, NEW from \in {"stdout", "stdin", "stderr"}, NEW to \in Standard,
         NEW acc \in {"O_RDONLY", "O_WRONLY"}, NEW onward, Redirect(from, to, acc, onward)
  PROVE  /\ boot = from /\ boot' = onward /\ devices' = devices /\ errno' = Success
         /\ maxfd' \in -1 .. MaxFd - 1 /\ maxfd' >= 3 /\ maxfd' >= maxfd
         /\ fds' \in [Fd -> Descriptors]
         /\ fds'[to].dev = Jtag /\ fds'[to].access = acc /\ ~fds'[to].excl
         /\ \A j \in Fd : j # to => fds'[j] = fds[j]
<1>1. /\ boot = from /\ OpenAt(Jtag, acc, to) /\ boot' = onward /\ devices' = devices
  BY DEF Redirect
<1>2. FilesTypeOK /\ BootInPart /\ LocksInPart /\ maxfd \in -1 .. MaxFd - 1
  BY DEF FilesIInv, FilesTypeOK
<1>3. \A i \in Fd : (Open(i) => i \in Standard) /\ ~fds[i].excl
  BY <1>1, <1>2 DEF BootInPart, Running
<1>4. Free # {}
  <2>1. 3 \in Fd /\ 3 \notin Standard
    BY StandardFds DEF Fd
  <2> QED BY <1>3, <2>1 DEF Free
<1>5. Min(Free) \in Fd /\ Min(Free) >= 3
  <2>1. Min(Free) \in Fd /\ ~Open(Min(Free))
    BY <1>4, FirstFree
  <2>2. Min(Free) \notin Standard
    BY <1>2, <2>1 DEF LocksInPart
  <2> QED BY <2>1, <2>2, StandardFds DEF Fd
<1>6. Max({maxfd, Min(Free)}) \in Fd
  BY <1>2, <1>5, MaxOfTwo DEF Fd
<1>7. ~LockedFor(Jtag, Min(Free))
  BY <1>3, <1>6 DEF LockedFor, Fd
<1>8. Jtag \in devices
  BY <1>1, <1>2 DEF BootInPart
<1>9. errno' = Success
  BY <1>1, <1>4, <1>7, <1>8 DEF OpenAt, OpenError
<1>10. /\ fds' = [fds EXCEPT ![to] = Descriptor(Jtag, acc, TRUE)]
       /\ maxfd' \in -1 .. MaxFd - 1 /\ maxfd' >= maxfd /\ maxfd' >= Min(Free)
  BY <1>1, <1>9, StandardFds, OpenAtDoes
<1> DEFINE new == Descriptor(Jtag, acc, TRUE)
<1>11. new \in Descriptors /\ new.dev = Jtag /\ new.access = acc /\ ~new.excl
  BY NewDescriptor
<1> HIDE DEF new
<1>12. /\ fds' \in [Fd -> Descriptors] /\ fds'[to] = new
       /\ \A j \in Fd : j # to => fds'[j] = fds[j]
  <2>1. fds' = [fds EXCEPT ![to] = new] /\ to \in Fd
    BY <1>10, StandardFds DEF new
  <2> QED BY <1>2, <1>11, <2>1, DescriptorSet
<1>13. maxfd' >= 3
  BY <1>5, <1>10 DEF Fd
<1> QED BY <1>1, <1>9, <1>10, <1>11, <1>12, <1>13

LEMMA IoRedirectStep ==
  ASSUME FilesIInv, IoRedirect
  PROVE  FilesIInv' /\ \A j \in Fd : Open(j)' => Open(j)
<1>1. PICK from \in {"stdout", "stdin", "stderr"}, to \in Standard,
           acc \in {"O_RDONLY", "O_WRONLY"}, onward \in {"stdin", "stderr", "main"} :
        /\ Redirect(from, to, acc, onward)
        /\ \/ from = "stdout" /\ to = Stdout /\ acc = "O_WRONLY" /\ onward = "stdin"
           \/ from = "stdin" /\ to = Stdin /\ acc = "O_RDONLY" /\ onward = "stderr"
           \/ from = "stderr" /\ to = Stderr /\ acc = "O_WRONLY" /\ onward = "main"
  BY DEF IoRedirect, Standard
<1>2. FilesTypeOK /\ BootInPart /\ LocksInPart /\ OneLock
  BY DEF FilesIInv
<1>3. /\ boot = from /\ boot' = onward /\ devices' = devices /\ errno' = Success
      /\ maxfd' \in -1 .. MaxFd - 1 /\ maxfd' >= 3 /\ maxfd' >= maxfd
      /\ fds' \in [Fd -> Descriptors]
      /\ fds'[to].dev = Jtag /\ fds'[to].access = acc /\ ~fds'[to].excl
      /\ \A j \in Fd : j # to => fds'[j] = fds[j]
  BY <1>1, RedirectDoes
<1>4. \A j \in Fd : /\ Open(j) => j \in Standard
                    /\ ~fds[j].excl
  BY <1>2, <1>3 DEF BootInPart, Running
<1>5. \A j \in Fd : /\ ~fds'[j].excl
                    /\ Open(j)' => j \in Standard
  BY <1>3, <1>4 DEF Open
<1>6. \A j \in Standard : Open(j) /\ Open(j)'
  BY <1>2, <1>3, StandardFds DEF LocksInPart, Open, NoDev
<1>7. FilesTypeOK'
  BY <1>2, <1>3 DEF FilesTypeOK
<1>8. BootInPart'
  <2>1. Stdin # Stdout /\ Stdout # Stderr /\ Stdin # Stderr /\ {Stdin, Stdout, Stderr} \subseteq Fd
    BY StandardFds DEF Stdin, Stdout, Stderr
  <2>2. \A j \in Fd : j # to => fds'[j] = fds[j]
    BY <1>3
  <2>3. CASE from = "stdout"
    BY <1>1, <1>2, <1>3, <1>5, <2>1, <2>3 DEF BootInPart, MayWrite, MayRead, Running
  <2>4. CASE from = "stdin"
    BY <1>1, <1>2, <1>3, <1>5, <2>1, <2>4 DEF BootInPart, MayWrite, MayRead, Running
  <2>5. CASE from = "stderr"
    BY <1>1, <1>2, <1>3, <1>5, <2>1, <2>5 DEF BootInPart, MayWrite, MayRead, Running
  <2> QED BY <2>3, <2>4, <2>5
<1>9. LocksInPart' /\ OneLock'
  BY <1>5, <1>6 DEF LocksInPart, OneLock
<1> QED BY <1>5, <1>6, <1>7, <1>8, <1>9 DEF FilesIInv

-----------------------------------------------------------------------------
LEMMA FilesStep ==
  ASSUME FilesIInv, [FilesNext]_fileVars
  PROVE  FilesIInv' /\ \A i, j \in Fd :
           ~Open(i) /\ Open(i)' /\ fds[j].excl => fds[j].dev # fds'[i].dev
<1>1. CASE UNCHANGED fileVars
  BY <1>1 DEF fileVars, FilesIInv, FilesTypeOK, BootInPart, LocksInPart, OneLock, Open,
              Running, MayRead, MayWrite
<1>2. CASE FilesNext
  BY <1>2, SysInitStep, IoRedirectStep, FileOpenStep, FileCloseStep, FileLockStep,
     FileFlagsStep, FileUseStep DEF FilesNext
<1> QED BY <1>1, <1>2

LEMMA FilesInvariant == FilesSpec => []FilesIInv
<1>1. FilesIInv /\ [FilesNext]_fileVars => FilesIInv'
  BY FilesStep
<1> QED BY <1>1, FilesInitInv, PTL DEF FilesSpec

(***************************************************************************)
(* printf always has somewhere to go, for every number of descriptors and  *)
(* whichever access modes open is called with.                             *)
(***************************************************************************)
THEOREM StandardStreamsStay == FilesSpec => []StdStreams
<1>1. FilesIInv => StdStreams
  BY StandardFds DEF FilesIInv, BootInPart, LocksInPart, StdStreams, Running, Standard, Stdin,
                     Stdout, Stderr
<1> QED BY <1>1, FilesInvariant, PTL

(***************************************************************************)
(* A lock keeps out whoever opens the device later, and whoever wants the  *)
(* lock, though the search for one misses the highest descriptor.          *)
(***************************************************************************)
THEOREM LocksKeepOut == FilesSpec => LockKeepsOut
<1>1. FilesIInv => OneLock
  BY DEF FilesIInv
<1>2. FilesIInv /\ [FilesNext]_fileVars =>
        [ \A i, j \in Fd :
            ~Open(i) /\ Open(i)' /\ fds[j].excl => fds[j].dev # fds'[i].dev ]_fileVars
  BY FilesStep
<1>3. FilesSpec => []OneLock
  BY <1>1, FilesInvariant, PTL
<1>4. FilesSpec => NoneOpened
  BY <1>2, FilesInvariant, PTL DEF FilesSpec, NoneOpened
<1> QED BY <1>3, <1>4, PTL DEF LockKeepsOut

-----------------------------------------------------------------------------
\* LList.
HIDE WordAssumption DEF WordAssumption
HIDE FdAssumption DEF FdAssumption
HIDE DevAssumption DEF DevAssumption

\* A list: the n entries of s are linked in that order by the pointers nx and pv;
\* any other points to itself both ways, or nowhere.
RingOf(n, s, nx, pv) ==
  /\ n \in Nat /\ s \in [1..n -> Entry]
  /\ \A i, j \in 1..n : s[i] = s[j] => i = j
  /\ nx \in [Node -> Node \cup {Nil}] /\ pv \in [Node -> Node \cup {Nil}]
  /\ \A i \in 0..n : nx[At(s, i)] = At(s, i + 1) /\ pv[At(s, i + 1)] = At(s, i)
  /\ \A e \in Entry : (\A i \in 1..n : s[i] # e) => nx[e] \in {e, Nil} /\ pv[e] = nx[e]

\* The walk has still to come to the entries from the one it is at on.
WalkAt(n, s) == \E j \in 1 .. n + 1 : walk = At(s, j) /\ todo = {s[i] : i \in j..n}

LListIInv ==
  \E s \in SetToSeqs(Linked) : RingOf(Len(s), s, next, previous) /\ WalkAt(Len(s), s)

\* The nodes of a ring by place: the list is at both ends.
LEMMA Places ==
  ASSUME NEW n \in Nat, NEW s \in [1..n -> Entry]
  PROVE  /\ \A i \in 1..n : At(s, i) = s[i]
         /\ At(s, 0) = ListHead /\ At(s, n + 1) = ListHead
         /\ \A i \in 0 .. n + 1 : At(s, i) \in Node
         /\ \A i \in 1 .. n + 1 : At(s, i) = ListHead => i = n + 1
<1>1. DOMAIN s = 1..n
  OBVIOUS
<1>2. \A i \in 1..n : At(s, i) = s[i]
  BY <1>1 DEF At
<1>3. 0 \notin 1..n /\ n + 1 \notin 1..n
  OBVIOUS
<1>4. At(s, 0) = ListHead /\ At(s, n + 1) = ListHead
  BY <1>1, <1>3 DEF At
<1>5. \A i \in 0 .. n + 1 : At(s, i) \in Node
  BY <1>1 DEF At, Node
<1>6. \A i \in 1 .. n + 1 : At(s, i) = ListHead => i = n + 1
  <2> SUFFICES ASSUME NEW i \in 1 .. n + 1, At(s, i) = ListHead, i # n + 1 PROVE FALSE
    OBVIOUS
  <2>1. i \in 1..n
    OBVIOUS
  <2>2. s[i] = ListHead /\ s[i] \in Entry
    BY <1>2, <2>1
  <2> QED BY <2>2, EntryAssumption
<1> QED BY <1>2, <1>4, <1>5, <1>6

\* The linked entries are those of the ring.
LEMMA RingLinks ==
  ASSUME NEW n, NEW s, NEW nx, NEW pv, RingOf(n, s, nx, pv)
  PROVE  {e \in Entry : nx[e] \notin {e, Nil}} = {s[i] : i \in 1..n}
<1>1. n \in Nat /\ s \in [1..n -> Entry]
  BY DEF RingOf
<1>2. ASSUME NEW i \in 1..n PROVE s[i] \in Entry /\ nx[s[i]] \notin {s[i], Nil}
  <2>1. nx[s[i]] = At(s, i + 1) /\ i + 1 \in 0 .. n + 1 /\ i \in 0..n
    BY <1>1, Places DEF RingOf
  <2>2. At(s, i + 1) \in Node
    BY <1>1, <2>1, Places
  <2>3. At(s, i + 1) # Nil
    BY <2>2, EntryAssumption DEF Node
  <2>4. At(s, i + 1) # s[i]
    <3>1. CASE i = n
      <4>1. At(s, i + 1) = ListHead
        BY <1>1, <3>1, Places
      <4> QED BY <1>1, <4>1, EntryAssumption
    <3>2. CASE i # n
      <4>1. i + 1 \in 1..n
        BY <1>1, <3>2
      <4>2. At(s, i + 1) = s[i + 1]
        BY <1>1, <4>1, Places
      <4>3. s[i + 1] # s[i]
        BY <1>1, <4>1 DEF RingOf
      <4> QED BY <4>2, <4>3
    <3> QED BY <3>1, <3>2
  <2>5. s[i] \in Entry
    BY <1>1
  <2> QED BY <2>1, <2>3, <2>4, <2>5
<1>3. ASSUME NEW e \in Entry, nx[e] \notin {e, Nil} PROVE \E i \in 1..n : e = s[i]
  BY <1>3 DEF RingOf
<1> QED BY <1>2, <1>3

\* The n entries of s with e before them, and without that at place k.
EntryBefore(n, s, e) == [i \in 1 .. n + 1 |-> IF i = 1 THEN e ELSE s[i - 1]]
Without(n, s, k)     == [i \in 1 .. n - 1 |-> IF i < k THEN s[i] ELSE s[i + 1]]

\* alt_llist_insert: e goes to the front of the ring.
LEMMA RingInsert ==
  ASSUME NEW n, NEW s, NEW nx, NEW pv, RingOf(n, s, nx, pv),
         NEW e \in Entry, \A i \in 1..n : s[i] # e,
         NEW nx2, nx2 = [nx EXCEPT ![e] = nx[ListHead], ![ListHead] = e],
         NEW pv2, pv2 = [pv EXCEPT ![e] = ListHead, ![nx[ListHead]] = e]
  PROVE  RingOf(n + 1, EntryBefore(n, s, e), nx2, pv2)
<1> DEFINE s2 == EntryBefore(n, s, e)
<1>0. s2 = [i \in 1 .. n + 1 |-> IF i = 1 THEN e ELSE s[i - 1]]
  BY DEF EntryBefore
<1> HIDE DEF s2
<1> USE <1>0
<1>1. n \in Nat /\ s \in [1..n -> Entry] /\ e # ListHead /\ ListHead \in Node /\ e \in Node
  BY EntryAssumption DEF RingOf, Node
<1>2. n + 1 \in Nat /\ s2 \in [1 .. n + 1 -> Entry]
  <2>1. \A i \in 1 .. n + 1 : i # 1 => i - 1 \in 1..n
    BY <1>1
  <2>2. \A i \in 1 .. n + 1 : (IF i = 1 THEN e ELSE s[i - 1]) \in Entry
    BY <1>1, <2>1
  <2> QED BY <1>1, <2>2
<1>3. s2[1] = e /\ \A i \in 1..n : s2[i + 1] = s[i]
  <2>1. 1 \in 1 .. n + 1 /\ \A i \in 1..n : i + 1 \in 1 .. n + 1 /\ i + 1 # 1 /\ (i + 1) - 1 = i
    BY <1>1
  <2> QED BY <2>1
<1>4. \A i, j \in 1 .. n + 1 : s2[i] = s2[j] => i = j
  <2> TAKE i, j \in 1 .. n + 1
  <2>1. /\ i = 1 \/ (i - 1 \in 1..n /\ s2[i] = s[i - 1])
        /\ j = 1 \/ (j - 1 \in 1..n /\ s2[j] = s[j - 1])
    BY <1>1
  <2>2. \A a, b \in 1..n : s[a] = s[b] => a = b
    BY DEF RingOf
  <2> QED BY <1>1, <1>3, <2>1, <2>2
<1>5. nx \in [Node -> Node \cup {Nil}] /\ pv \in [Node -> Node \cup {Nil}]
  BY DEF RingOf
<1>6. nx[ListHead] = At(s, 1) /\ At(s, 1) \in Node /\ At(s, 1) # e
  <2>1. 0 \in 0..n /\ 1 \in 0 .. n + 1
    BY <1>1
  <2>2. nx[At(s, 0)] = At(s, 0 + 1)
    BY <2>1 DEF RingOf
  <2>3. At(s, 0) = ListHead /\ At(s, 1) \in Node
    BY <1>1, <2>1, Places
  <2>4. At(s, 1) # e
    BY <1>1 DEF At
  <2> QED BY <2>2, <2>3, <2>4
<1>7. /\ nx2 \in [Node -> Node \cup {Nil}] /\ pv2 \in [Node -> Node \cup {Nil}]
      /\ nx2[e] = At(s, 1) /\ nx2[ListHead] = e
      /\ \A x \in Node : x # e /\ x # ListHead => nx2[x] = nx[x]
      /\ pv2[e] = ListHead /\ pv2[At(s, 1)] = e
      /\ \A x \in Node : x # e /\ x # At(s, 1) => pv2[x] = pv[x]
  BY <1>1, <1>5, <1>6
<1>8. At(s2, 0) = ListHead /\ At(s2, 1) = e /\ \A i \in 1 .. n + 1 : At(s2, i + 1) = At(s, i)
  <2>1. DOMAIN s2 = 1 .. n + 1 /\ DOMAIN s = 1..n
    BY <1>1, <1>2
  <2>2. At(s2, 0) = ListHead /\ At(s2, 1) = e
    BY <1>1, <1>3, <2>1 DEF At
  <2>3. ASSUME NEW i \in 1 .. n + 1 PROVE At(s2, i + 1) = At(s, i)
    <3>1. CASE i = n + 1
      BY <1>1, <2>1, <3>1 DEF At
    <3>2. CASE i \in 1..n
      BY <1>1, <1>3, <2>1, <3>2 DEF At
    <3> QED BY <1>1, <3>1, <3>2
  <2> QED BY <2>2, <2>3
<1>9. ASSUME NEW i \in 0 .. n + 1
      PROVE  nx2[At(s2, i)] = At(s2, i + 1) /\ pv2[At(s2, i + 1)] = At(s2, i)
  <2>1. CASE i = 0
    <3>1. At(s2, i) = ListHead /\ At(s2, i + 1) = e
      BY <1>8, <2>1
    <3> QED BY <1>7, <3>1
  <2>2. CASE i = 1
    <3>1. 1 \in 1 .. n + 1
      BY <1>1
    <3>2. At(s2, 1 + 1) = At(s, 1)
      BY <1>8, <3>1
    <3> QED BY <1>7, <1>8, <2>2, <3>2
  <2>3. CASE i \in 2 .. n + 1
    <3> DEFINE j == i - 1
    <3>1. j \in 1..n /\ j \in 0..n /\ j \in 1 .. n + 1 /\ j + 1 \in 1 .. n + 1 /\ i = j + 1
      BY <1>1, <2>3
    <3> HIDE DEF j
    <3>2. At(s2, i) = At(s, j) /\ At(s2, i + 1) = At(s, j + 1)
      BY <1>8, <3>1
    <3>3. nx[At(s, j)] = At(s, j + 1) /\ pv[At(s, j + 1)] = At(s, j)
      BY <3>1 DEF RingOf
    <3>4. At(s, j) = s[j] /\ s[j] \in Entry /\ s[j] # e
      BY <1>1, <3>1, Places
    <3>5. At(s, j) \in Node /\ At(s, j) # ListHead
      BY <3>4, EntryAssumption DEF Node
    <3>6. At(s, j + 1) \in Node /\ At(s, j + 1) # e
      BY <1>1, <3>1 DEF At, Node
    <3>7. At(s, j + 1) # At(s, 1)
      <4>1. CASE j + 1 \in 1..n
        <5>1. 1 \in 1..n /\ j + 1 # 1
          BY <1>1, <3>1
        <5>2. s[j + 1] # s[1]
          BY <4>1, <5>1 DEF RingOf
        <5>3. At(s, j + 1) = s[j + 1] /\ At(s, 1) = s[1]
          BY <1>1, <4>1, <5>1, Places
        <5> QED BY <5>2, <5>3
      <4>2. CASE j + 1 = n + 1
        <5>1. 1 \in 1..n
          BY <1>1, <3>1
        <5>2. At(s, 1) \in Entry /\ At(s, j + 1) = ListHead
          BY <1>1, <4>2, <5>1, Places
        <5> QED BY <5>2, EntryAssumption
      <4>3. j + 1 \in 1..n \/ j + 1 = n + 1
        BY <1>1, <3>1
      <4> QED BY <4>1, <4>2, <4>3
    <3> QED BY <1>7, <3>2, <3>3, <3>4, <3>5, <3>6, <3>7
  <2> QED BY <1>1, <2>1, <2>2, <2>3
<1>10. ASSUME NEW x \in Entry, \A i \in 1 .. n + 1 : s2[i] # x
       PROVE  nx2[x] \in {x, Nil} /\ pv2[x] = nx2[x]
  <2>1. x # e
    <3>1. 1 \in 1 .. n + 1
      BY <1>1
    <3> QED BY <1>3, <1>10, <3>1
  <2>2. \A i \in 1..n : s[i] # x
    <3> TAKE i \in 1..n
    <3>1. i + 1 \in 1 .. n + 1 /\ s2[i + 1] = s[i]
      BY <1>1, <1>3
    <3> QED BY <1>10, <3>1
  <2>3. x # ListHead /\ x \in Node /\ x # At(s, 1)
    BY <1>1, <2>2, EntryAssumption DEF At, Node
  <2>4. nx[x] \in {x, Nil} /\ pv[x] = nx[x]
    BY <2>2 DEF RingOf
  <2> QED BY <1>7, <2>1, <2>3, <2>4
<1> QED BY <1>2, <1>4, <1>7, <1>9, <1>10 DEF RingOf, s2

\* The nodes of a ring differ, but that the list is at both ends.
LEMMA PlacesDiffer ==
  ASSUME NEW n, NEW s, NEW nx, NEW pv, RingOf(n, s, nx, pv)
  PROVE  /\ \A i, j \in 0..n : At(s, i) = At(s, j) => i = j
         /\ \A i, j \in 1 .. n + 1 : At(s, i) = At(s, j) => i = j
<1>1. n \in Nat /\ s \in [1..n -> Entry] /\ \A i, j \in 1..n : s[i] = s[j] => i = j
  BY DEF RingOf
<1>2. /\ \A i \in 1..n : At(s, i) = s[i] /\ At(s, i) # ListHead
      /\ At(s, 0) = ListHead /\ At(s, n + 1) = ListHead
  <2>1. \A i \in 1..n : At(s, i) = s[i] /\ s[i] \in Entry
    BY <1>1, Places
  <2> QED BY <1>1, <2>1, Places, EntryAssumption
<1>3. ASSUME NEW i \in 0..n, NEW j \in 0..n, At(s, i) = At(s, j) PROVE i = j
  <2>1. CASE i \in 1..n /\ j \in 1..n
    BY <1>1, <1>2, <1>3, <2>1
  <2>2. CASE i = 0 \/ j = 0
    BY <1>1, <1>2, <1>3, <2>2
  <2> QED BY <1>1, <2>1, <2>2
<1>4. ASSUME NEW i \in 1 .. n + 1, NEW j \in 1 .. n + 1, At(s, i) = At(s, j) PROVE i = j
  <2>1. CASE i \in 1..n /\ j \in 1..n
    BY <1>1, <1>2, <1>4, <2>1
  <2>2. CASE i = n + 1 \/ j = n + 1
    BY <1>1, <1>2, <1>4, <2>2
  <2> QED BY <1>1, <2>1, <2>2
<1> QED BY <1>3, <1>4

\* alt_llist_remove: the entry at place k leaves the ring.
LEMMA RingRemove ==
  ASSUME NEW n, NEW s, NEW nx, NEW pv, RingOf(n, s, nx, pv),
         NEW k \in 1..n, NEW e, e = s[k],
         NEW nx2, nx2 = [nx EXCEPT ![pv[e]] = nx[e], ![e] = e],
         NEW pv2, pv2 = [pv EXCEPT ![nx[e]] = pv[e], ![e] = e]
  PROVE  RingOf(n - 1, Without(n, s, k), nx2, pv2)
<1> DEFINE s2 == Without(n, s, k)
<1>0. s2 = [i \in 1 .. n - 1 |-> IF i < k THEN s[i] ELSE s[i + 1]]
  BY DEF Without
<1> HIDE DEF s2
<1> USE <1>0
<1>1. n \in Nat /\ s \in [1..n -> Entry] /\ n - 1 \in Nat /\ e \in Entry /\ e \in Node
  BY DEF RingOf, Node
<1>2. s2 \in [1 .. n - 1 -> Entry]
  <2>1. \A i \in 1 .. n - 1 : i \in 1..n /\ i + 1 \in 1..n
    BY <1>1
  <2>2. \A i \in 1 .. n - 1 : (IF i < k THEN s[i] ELSE s[i + 1]) \in Entry
    BY <1>1, <2>1
  <2> QED BY <2>2
<1>3. \A i, j \in 1 .. n - 1 : s2[i] = s2[j] => i = j
  <2> TAKE i, j \in 1 .. n - 1
  <2>1. \A a, b \in 1..n : s[a] = s[b] => a = b
    BY DEF RingOf
  <2>2. /\ i < k => s2[i] = s[i]
        /\ ~(i < k) => s2[i] = s[i + 1]
        /\ j < k => s2[j] = s[j]
        /\ ~(j < k) => s2[j] = s[j + 1]
    OBVIOUS
  <2>3. i \in 1..n /\ i + 1 \in 1..n /\ j \in 1..n /\ j + 1 \in 1..n
    BY <1>1
  <2> QED BY <2>1, <2>2, <2>3
<1>4. At(s, k) = e /\ nx[e] = At(s, k + 1) /\ pv[e] = At(s, k - 1)
  <2>1. k \in 0..n /\ k - 1 \in 0..n /\ (k - 1) + 1 = k
    BY <1>1
  <2>2. At(s, k) = e
    BY <1>1, Places
  <2>3. nx[At(s, k)] = At(s, k + 1) /\ pv[At(s, (k - 1) + 1)] = At(s, k - 1)
    BY <2>1 DEF RingOf
  <2> QED BY <2>1, <2>2, <2>3
<1>5. At(s, k + 1) \in Node /\ At(s, k - 1) \in Node /\ At(s, k + 1) # e /\ At(s, k - 1) # e
  <2>1. k + 1 \in 1 .. n + 1 /\ k - 1 \in 0..n /\ k \in 0..n /\ k \in 1 .. n + 1
        /\ k + 1 \in 0 .. n + 1 /\ k - 1 \in 0 .. n + 1 /\ k + 1 # k /\ k - 1 # k
    BY <1>1
  <2>2. At(s, k + 1) \in Node /\ At(s, k - 1) \in Node
    BY <1>1, <2>1, Places
  <2>3. At(s, k + 1) # At(s, k) /\ At(s, k - 1) # At(s, k)
    BY <2>1, PlacesDiffer
  <2> QED BY <1>4, <2>2, <2>3
<1>6. /\ nx2 \in [Node -> Node \cup {Nil}] /\ pv2 \in [Node -> Node \cup {Nil}]
      /\ nx2[e] = e /\ nx2[At(s, k - 1)] = At(s, k + 1)
      /\ \A x \in Node : x # e /\ x # At(s, k - 1) => nx2[x] = nx[x]
      /\ pv2[e] = e /\ pv2[At(s, k + 1)] = At(s, k - 1)
      /\ \A x \in Node : x # e /\ x # At(s, k + 1) => pv2[x] = pv[x]
  <2>1. nx \in [Node -> Node \cup {Nil}] /\ pv \in [Node -> Node \cup {Nil}]
    BY DEF RingOf
  <2> QED BY <1>1, <1>4, <1>5, <2>1
<1>7. /\ \A i \in 0 .. k - 1 : At(s2, i) = At(s, i)
      /\ \A i \in k .. n : At(s2, i) = At(s, i + 1)
  <2>1. DOMAIN s2 = 1 .. n - 1 /\ DOMAIN s = 1..n
    BY <1>1, <1>2
  <2>2. ASSUME NEW i \in 0 .. k - 1 PROVE At(s2, i) = At(s, i)
    <3>1. CASE i = 0
      BY <1>1, <2>1, <3>1 DEF At
    <3>2. CASE i # 0
      <4>1. i \in 1 .. n - 1 /\ i \in 1..n /\ i < k
        BY <1>1, <3>2
      <4>2. s2[i] = s[i]
        BY <4>1
      <4> QED BY <2>1, <4>1, <4>2 DEF At
    <3> QED BY <3>1, <3>2
  <2>3. ASSUME NEW i \in k .. n PROVE At(s2, i) = At(s, i + 1)
    <3>1. CASE i = n
      <4>1. i \notin 1 .. n - 1 /\ i + 1 \notin 1..n
        BY <1>1, <3>1
      <4> QED BY <2>1, <4>1 DEF At
    <3>2. CASE i # n
      <4>1. i \in 1 .. n - 1 /\ i + 1 \in 1..n /\ ~(i < k)
        BY <1>1, <3>2
      <4>2. s2[i] = s[i + 1]
        BY <4>1
      <4> QED BY <2>1, <4>1, <4>2 DEF At
    <3> QED BY <3>1, <3>2
  <2> QED BY <2>2, <2>3
<1>8. ASSUME NEW i \in 0 .. n - 1
      PROVE  nx2[At(s2, i)] = At(s2, i + 1) /\ pv2[At(s2, i + 1)] = At(s2, i)
  <2>1. CASE i < k - 1
    <3>1. /\ i \in 0 .. k - 1 /\ i + 1 \in 0 .. k - 1 /\ i \in 0..n /\ k \in 0..n /\ k - 1 \in 0..n
          /\ i + 1 \in 1 .. n + 1 /\ k \in 1 .. n + 1 /\ k + 1 \in 1 .. n + 1
          /\ i \in 0 .. n + 1 /\ i + 1 \in 0 .. n + 1
          /\ i # k /\ i # k - 1 /\ i + 1 # k /\ i + 1 # k + 1
      BY <1>1, <2>1
    <3>2. At(s2, i) = At(s, i) /\ At(s2, i + 1) = At(s, i + 1)
      BY <1>7, <3>1
    <3>3. At(s, i) # At(s, k) /\ At(s, i) # At(s, k - 1) /\ At(s, i) \in Node
      BY <1>1, <3>1, PlacesDiffer, Places
    <3>4. At(s, i + 1) # At(s, k) /\ At(s, i + 1) # At(s, k + 1) /\ At(s, i + 1) \in Node
      BY <1>1, <3>1, PlacesDiffer, Places
    <3>5. nx[At(s, i)] = At(s, i + 1) /\ pv[At(s, i + 1)] = At(s, i)
      BY <3>1 DEF RingOf
    <3> QED BY <1>4, <1>6, <3>2, <3>3, <3>4, <3>5
  <2>2. CASE i = k - 1
    <3>1. i \in 0 .. k - 1 /\ i + 1 \in k .. n /\ i + 1 = k
      BY <1>1, <2>2
    <3>2. At(s2, i) = At(s, k - 1) /\ At(s2, i + 1) = At(s, k + 1)
      BY <1>7, <2>2, <3>1
    <3> QED BY <1>6, <3>2
  <2>3. CASE i > k - 1
    <3> DEFINE j == i + 1
    <3>1. /\ i \in k .. n /\ j \in k .. n /\ j \in 0..n /\ k \in 0..n /\ k - 1 \in 0..n
          /\ j + 1 \in 1 .. n + 1 /\ k \in 1 .. n + 1 /\ k + 1 \in 1 .. n + 1
          /\ j \in 0 .. n + 1 /\ j + 1 \in 0 .. n + 1
          /\ j # k /\ j # k - 1 /\ j + 1 # k /\ j + 1 # k + 1
      BY <1>1, <2>3
    <3>2. At(s2, i) = At(s, j) /\ At(s2, i + 1) = At(s, j + 1)
      BY <1>7, <3>1
    <3> HIDE DEF j
    <3>3. At(s, j) # At(s, k) /\ At(s, j) # At(s, k - 1) /\ At(s, j) \in Node
      BY <1>1, <3>1, PlacesDiffer, Places
    <3>4. At(s, j + 1) # At(s, k) /\ At(s, j + 1) # At(s, k + 1) /\ At(s, j + 1) \in Node
      BY <1>1, <3>1, PlacesDiffer, Places
    <3>5. nx[At(s, j)] = At(s, j + 1) /\ pv[At(s, j + 1)] = At(s, j)
      BY <3>1 DEF RingOf
    <3> QED BY <1>4, <1>6, <3>2, <3>3, <3>4, <3>5
  <2> QED BY <1>1, <2>1, <2>2, <2>3
<1>9. ASSUME NEW x \in Entry, \A i \in 1 .. n - 1 : s2[i] # x
      PROVE  nx2[x] \in {x, Nil} /\ pv2[x] = nx2[x]
  <2>1. CASE x = e
    BY <1>6, <2>1
  <2>2. CASE x # e
    <3>1. ASSUME NEW i \in 1..n PROVE s[i] # x
      <4>1. CASE i < k
        <5>1. i \in 1 .. n - 1 /\ s2[i] = s[i]
          BY <1>1, <4>1
        <5> QED BY <1>9, <5>1
      <4>2. CASE i = k
        BY <2>2, <4>2
      <4>3. CASE i > k
        <5>1. i - 1 \in 1 .. n - 1 /\ ~(i - 1 < k) /\ (i - 1) + 1 = i
          BY <1>1, <4>3
        <5>2. s2[i - 1] = s[i]
          BY <5>1
        <5> QED BY <1>9, <5>1, <5>2
      <4> QED BY <1>1, <4>1, <4>2, <4>3
    <3>2. nx[x] \in {x, Nil} /\ pv[x] = nx[x]
      BY <3>1 DEF RingOf
    <3>3. x \in Node /\ x # ListHead
      BY EntryAssumption DEF Node
    <3>4. x # At(s, k + 1) /\ x # At(s, k - 1)
      BY <1>1, <3>1, <3>3 DEF At
    <3> QED BY <1>6, <2>2, <3>2, <3>3, <3>4
  <2> QED BY <2>1, <2>2
<1>10. \A i \in 0 .. n - 1 : nx2[At(s2, i)] = At(s2, i + 1) /\ pv2[At(s2, i + 1)] = At(s2, i)
  BY <1>8
<1>11. \A x \in Entry : (\A i \in 1 .. n - 1 : s2[i] # x)
                            => nx2[x] \in {x, Nil} /\ pv2[x] = nx2[x]
  BY <1>9
<1>12. nx2 \in [Node -> Node \cup {Nil}] /\ pv2 \in [Node -> Node \cup {Nil}]
  BY <1>6
<1> QED BY <1>1, <1>2, <1>3, <1>10, <1>11, <1>12 DEF RingOf, s2

\* The entries of a ring, in their order, are one of the orders of the linked.
LEMMA RingOrders ==
  ASSUME NEW n, NEW s, NEW nx, NEW pv, RingOf(n, s, nx, pv),
         NEW S, S = {e \in Entry : nx[e] \notin {e, Nil}}
  PROVE  s \in SetToSeqs(S) /\ Len(s) = n
<1>1. n \in Nat /\ s \in [1..n -> Entry] /\ \A i, j \in 1..n : s[i] = s[j] => i = j
  BY DEF RingOf
<1>2. S = {s[i] : i \in 1..n}
  BY RingLinks
<1>3. s \in Bijection(1..n, S)
  <2>1. s \in [1..n -> S]
    BY <1>1, <1>2
  <2>2. \A y \in S : \E i \in 1..n : s[i] = y
    BY <1>2
  <2> QED BY <1>1, <2>1, <2>2 DEF Bijection, Injection, Surjection, IsInjective
<1>4. IsFiniteSet(1..n) /\ Cardinality(1..n) = n
  BY <1>1, FS_Interval
<1>5. Cardinality(S) = n
  BY <1>3, <1>4, FS_Bijection DEF ExistsBijection
<1>6. s \in [1..n -> S]
  BY <1>1, <1>2
<1>7. Len(s) = n
  <2>1. s \in Seq(Entry) /\ DOMAIN s = 1..n
    BY <1>1
  <2> QED BY <1>1, <2>1
<1> QED BY <1>1, <1>5, <1>6, <1>7 DEF SetToSeqs

\* What the invariant says of a ring, and what is enough for it.
LEMMA RingIs ==
  LListIInv <=> \E n \in Nat : \E s \in [1..n -> Entry] :
                  RingOf(n, s, next, previous) /\ WalkAt(n, s)
<1>1. LListIInv => \E n \in Nat : \E s \in [1..n -> Entry] :
                  RingOf(n, s, next, previous) /\ WalkAt(n, s)
  <2> SUFFICES ASSUME LListIInv
               PROVE  \E n \in Nat : \E s \in [1..n -> Entry] :
                        RingOf(n, s, next, previous) /\ WalkAt(n, s)
    OBVIOUS
  <2>1. PICK s \in SetToSeqs(Linked) : RingOf(Len(s), s, next, previous) /\ WalkAt(Len(s), s)
    BY DEF LListIInv
  <2>2. Len(s) \in Nat /\ s \in [1..Len(s) -> Entry]
    BY <2>1 DEF RingOf
  <2> QED BY <2>1, <2>2
<1>2. ASSUME NEW n \in Nat, NEW s \in [1..n -> Entry],
             RingOf(n, s, next, previous), WalkAt(n, s)
      PROVE  LListIInv
  <2>1. s \in SetToSeqs(Linked) /\ Len(s) = n
    BY <1>2, RingOrders DEF Linked
  <2> QED BY <1>2, <2>1 DEF LListIInv
<1> QED BY <1>1, <1>2

\* The same of the next state.
LEMMA RingNext ==
  ASSUME NEW n \in Nat, NEW s, RingOf(n, s, next', previous'), WalkAt(n, s)'
  PROVE  LListIInv'
<1>1. s \in SetToSeqs(Linked') /\ Len(s) = n
  BY RingOrders DEF Linked
<1> QED BY <1>1 DEF LListIInv

\* An empty list.
LEMMA LListInitInv == LListInit => LListIInv
<1> SUFFICES ASSUME LListInit PROVE LListIInv
  OBVIOUS
<1> DEFINE s == [i \in 1..0 |-> ListHead]
<1>1. s \in [1..0 -> Entry] /\ 0 \in Nat /\ DOMAIN s = {}
  OBVIOUS
<1>2. \A i : At(s, i) = ListHead
  BY <1>1 DEF At
<1> HIDE DEF s
<1>3. /\ next \in [Node -> Node \cup {Nil}] /\ previous = next
      /\ next[ListHead] = ListHead /\ \A e \in Entry : next[e] = Nil
  BY EntryAssumption DEF LListInit, Node
<1>4. RingOf(0, s, next, previous)
  BY <1>1, <1>2, <1>3 DEF RingOf
<1>5. WalkAt(0, s)
  <2>1. 1 \in 1 .. 0 + 1 /\ walk = At(s, 1) /\ todo = {s[i] : i \in 1..0}
    BY <1>2 DEF LListInit
  <2> QED BY <2>1 DEF WalkAt
<1> QED BY <1>1, <1>4, <1>5, RingIs

\* What is behind a place, when an entry comes before it.
LEMMA InsertShifts ==
  ASSUME NEW n \in Nat, NEW s \in [1..n -> Entry], NEW e \in Entry,
         NEW j \in 1 .. n + 1
  PROVE  /\ At(EntryBefore(n, s, e), j + 1) = At(s, j)
         /\ {EntryBefore(n, s, e)[i] : i \in j + 1 .. n + 1} = {s[i] : i \in j..n}
<1> DEFINE s2 == EntryBefore(n, s, e)
<1>0. s2 = [i \in 1 .. n + 1 |-> IF i = 1 THEN e ELSE s[i - 1]]
  BY DEF EntryBefore
<1> HIDE DEF s2
<1> USE <1>0
<1>1. DOMAIN s2 = 1 .. n + 1 /\ DOMAIN s = 1..n
  OBVIOUS
<1>2. \A i \in 1..n : i + 1 \in 1 .. n + 1 /\ s2[i + 1] = s[i]
  OBVIOUS
<1>3. At(s2, j + 1) = At(s, j)
  <2>1. CASE j = n + 1
    <3>1. j + 1 \notin 1 .. n + 1 /\ j \notin 1..n
      BY <2>1
    <3> QED BY <1>1, <3>1 DEF At
  <2>2. CASE j \in 1..n
    BY <1>1, <1>2, <2>2 DEF At
  <2> QED BY <2>1, <2>2
<1>4. ASSUME NEW i \in j + 1 .. n + 1 PROVE s2[i] \in {s[m] : m \in j..n}
  <2>1. i - 1 \in j..n /\ i - 1 \in 1..n /\ (i - 1) + 1 = i
    OBVIOUS
  <2>2. s2[i] = s[i - 1]
    BY <1>2, <2>1
  <2> QED BY <2>1, <2>2
<1>5. ASSUME NEW m \in j..n PROVE s[m] \in {s2[i] : i \in j + 1 .. n + 1}
  <2>1. m + 1 \in j + 1 .. n + 1 /\ m \in 1..n
    OBVIOUS
  <2>2. s2[m + 1] = s[m]
    BY <1>2, <2>1
  <2> QED BY <2>1, <2>2
<1> QED BY <1>3, <1>4, <1>5 DEF s2

\* What is behind a place, when its entry goes.
LEMMA RemoveShifts ==
  ASSUME NEW n \in Nat, NEW s \in [1..n -> Entry], NEW k \in 1..n
  PROVE  /\ At(Without(n, s, k), k) = At(s, k + 1)
         /\ {Without(n, s, k)[i] : i \in k .. n - 1} = {s[i] : i \in k + 1 .. n}
<1> DEFINE s2 == Without(n, s, k)
<1>0. s2 = [i \in 1 .. n - 1 |-> IF i < k THEN s[i] ELSE s[i + 1]]
  BY DEF Without
<1> HIDE DEF s2
<1> USE <1>0
<1>1. DOMAIN s2 = 1 .. n - 1 /\ DOMAIN s = 1..n
  OBVIOUS
<1>2. \A i \in k .. n - 1 : i \in 1 .. n - 1 /\ s2[i] = s[i + 1]
  OBVIOUS
<1>3. At(s2, k) = At(s, k + 1)
  <2>1. CASE k = n
    <3>1. k \notin 1 .. n - 1 /\ k + 1 \notin 1..n
      BY <2>1
    <3> QED BY <1>1, <3>1 DEF At
  <2>2. CASE k # n
    <3>1. k \in k .. n - 1 /\ k + 1 \in 1..n
      BY <2>2
    <3> QED BY <1>1, <1>2, <3>1 DEF At
  <2> QED BY <2>1, <2>2
<1>4. ASSUME NEW i \in k .. n - 1 PROVE s2[i] \in {s[m] : m \in k + 1 .. n}
  <2>1. i + 1 \in k + 1 .. n
    OBVIOUS
  <2> QED BY <1>2, <2>1
<1>5. ASSUME NEW m \in k + 1 .. n PROVE s[m] \in {s2[i] : i \in k .. n - 1}
  <2>1. m - 1 \in k .. n - 1 /\ (m - 1) + 1 = m
    OBVIOUS
  <2>2. s2[m - 1] = s[m]
    BY <1>2, <2>1
  <2> QED BY <2>1, <2>2
<1> QED BY <1>3, <1>4, <1>5 DEF s2

\* Insertion and removal while no walk is on.
LEMMA ChangeInv == LListIInv /\ Change => LListIInv'
<1> SUFFICES ASSUME LListIInv, Change PROVE LListIInv'
  OBVIOUS
<1>1. PICK n \in Nat : \E s \in [1..n -> Entry] : RingOf(n, s, next, previous) /\ WalkAt(n, s)
  BY RingIs
<1>2. PICK s \in [1..n -> Entry] : RingOf(n, s, next, previous) /\ WalkAt(n, s)
  BY <1>1
<1>3. walk = ListHead /\ UNCHANGED <<walk, todo>>
  BY DEF Change
<1>4. todo = {}
  <2>1. PICK j \in 1 .. n + 1 : walk = At(s, j) /\ todo = {s[i] : i \in j..n}
    BY <1>2 DEF WalkAt
  <2>2. j = n + 1
    BY <1>3, <2>1, Places
  <2> QED BY <2>1, <2>2
<1>5. ASSUME NEW m \in Nat, NEW q, RingOf(m, q, next', previous') PROVE LListIInv'
  <2>1. q \in [1..m -> Entry] /\ m + 1 \in 1 .. m + 1
    BY <1>5 DEF RingOf
  <2>2. At(q, m + 1) = ListHead
    BY <2>1, Places
  <2>3. {q[i] : i \in m + 1 .. m} = {}
    OBVIOUS
  <2>4. WalkAt(m, q)'
    BY <1>3, <1>4, <2>1, <2>2, <2>3 DEF WalkAt
  <2> QED BY <1>5, <2>4, RingNext
<1>6. ASSUME NEW e \in Entry, LListInsert(e) PROVE LListIInv'
  <2>1. \A i \in 1..n : s[i] # e
    BY <1>2, <1>6, RingLinks DEF LListInsert, Linked
  <2>2. RingOf(n + 1, EntryBefore(n, s, e), next', previous')
    BY <1>2, <1>6, <2>1, RingInsert DEF LListInsert
  <2> QED BY <1>5, <2>2
<1>7. ASSUME NEW e \in Entry, LListRemove(e) PROVE LListIInv'
  <2>1. CASE \E k \in 1..n : e = s[k]
    <3>1. PICK k \in 1..n : e = s[k]
      BY <2>1
    <3>2. RingOf(n - 1, Without(n, s, k), next', previous')
      BY <1>2, <1>7, <3>1, RingRemove DEF LListRemove
    <3>3. n - 1 \in Nat
      OBVIOUS
    <3> QED BY <1>5, <3>2, <3>3
  <2>2. CASE \A k \in 1..n : s[k] # e
    <3>1. next[e] = e /\ previous[e] = e
      BY <1>2, <1>7, <2>2 DEF RingOf, LListRemove
    <3>2. next \in [Node -> Node \cup {Nil}] /\ previous \in [Node -> Node \cup {Nil}] /\ e \in Node
      BY <1>2 DEF RingOf, Node
    <3>3. next' = next /\ previous' = previous
      BY <1>7, <3>1, <3>2 DEF LListRemove
    <3> QED BY <1>2, <1>5, <3>3
  <2> QED BY <2>1, <2>2
<1> QED BY <1>6, <1>7 DEF Change

\* A walk begins with everything before it.
LEMMA WalkBeginInv == LListIInv /\ WalkBegin => LListIInv'
<1> SUFFICES ASSUME LListIInv, WalkBegin PROVE LListIInv'
  OBVIOUS
<1>1. PICK n \in Nat : \E s \in [1..n -> Entry] : RingOf(n, s, next, previous) /\ WalkAt(n, s)
  BY RingIs
<1>2. PICK s \in [1..n -> Entry] : RingOf(n, s, next, previous) /\ WalkAt(n, s)
  BY <1>1
<1>3. walk' = next[ListHead] /\ todo' = Linked /\ UNCHANGED <<next, previous>>
  BY DEF WalkBegin
<1>4. next[ListHead] = At(s, 1)
  <2>1. 0 \in 0..n /\ 0 + 1 = 1
    OBVIOUS
  <2>2. next[At(s, 0)] = At(s, 0 + 1)
    BY <1>2, <2>1 DEF RingOf
  <2> QED BY <2>1, <2>2, Places
<1>5. Linked = {s[i] : i \in 1..n}
  BY <1>2, RingLinks DEF Linked
<1>6. 1 \in 1 .. n + 1
  OBVIOUS
<1>7. WalkAt(n, s)'
  BY <1>3, <1>4, <1>5, <1>6 DEF WalkAt
<1> QED BY <1>2, <1>3, <1>7, RingNext

\* A walk goes on to the entry that was next, whatever the callback does.
LEMMA WalkVisitInv == LListIInv /\ WalkVisit => LListIInv'
<1> SUFFICES ASSUME LListIInv, WalkVisit PROVE LListIInv'
  OBVIOUS
<1>1. PICK n \in Nat : \E s \in [1..n -> Entry] : RingOf(n, s, next, previous) /\ WalkAt(n, s)
  BY RingIs
<1>2. PICK s \in [1..n -> Entry] : RingOf(n, s, next, previous) /\ WalkAt(n, s)
  BY <1>1
<1>3. walk # ListHead /\ walk' = next[walk] /\ todo' = todo \ {walk}
  BY DEF WalkVisit
<1>4. PICK j \in 1 .. n + 1 : walk = At(s, j) /\ todo = {s[i] : i \in j..n}
  BY <1>2 DEF WalkAt
<1>5. j \in 1..n
  BY <1>3, <1>4, Places
<1>6. walk = s[j] /\ next[walk] = At(s, j + 1)
  <2>1. j \in 0..n
    BY <1>5
  <2> QED BY <1>2, <1>4, <1>5, <2>1, Places DEF RingOf
<1>7. todo' = {s[i] : i \in j + 1 .. n}
  <2>1. ASSUME NEW i \in j + 1 .. n PROVE s[i] \in todo'
    <3>1. i \in j..n /\ i \in 1..n /\ i # j
      BY <1>5
    <3>2. s[i] # s[j]
      BY <1>2, <1>5, <3>1 DEF RingOf
    <3> QED BY <1>3, <1>4, <1>6, <3>1, <3>2
  <2>2. ASSUME NEW x \in todo' PROVE x \in {s[i] : i \in j + 1 .. n}
    <3>1. PICK i \in j..n : x = s[i]
      BY <1>3, <1>4
    <3>2. i # j
      BY <1>3, <1>6, <3>1
    <3>3. i \in j + 1 .. n
      BY <1>5, <3>1, <3>2
    <3> QED BY <3>1, <3>3
  <2> QED BY <2>1, <2>2
<1>8. CASE UNCHANGED <<next, previous>>
  <2>1. j + 1 \in 1 .. n + 1
    BY <1>5
  <2>2. WalkAt(n, s)'
    BY <1>3, <1>6, <1>7, <2>1 DEF WalkAt
  <2> QED BY <1>2, <1>8, <2>2, RingNext
<1>9. CASE LListRemove(walk)
  <2>1. RingOf(n - 1, Without(n, s, j), next', previous')
    BY <1>2, <1>5, <1>6, <1>9, RingRemove DEF LListRemove
  <2>2. At(Without(n, s, j), j) = At(s, j + 1) /\ {Without(n, s, j)[i] : i \in j .. n - 1} = {s[i] : i \in j + 1 .. n}
    BY <1>5, RemoveShifts
  <2>3. n - 1 \in Nat /\ j \in 1 .. (n - 1) + 1
    BY <1>5
  <2>4. WalkAt(n - 1, Without(n, s, j))'
    BY <1>3, <1>6, <1>7, <2>2, <2>3 DEF WalkAt
  <2> QED BY <2>1, <2>3, <2>4, RingNext
<1>10. ASSUME NEW e \in Entry, LListInsert(e) PROVE LListIInv'
  <2> DEFINE k == j + 1
  <2>1. \A i \in 1..n : s[i] # e
    BY <1>2, <1>10, RingLinks DEF LListInsert, Linked
  <2>2. RingOf(n + 1, EntryBefore(n, s, e), next', previous')
    BY <1>2, <1>10, <2>1, RingInsert DEF LListInsert
  <2>3. k \in 1 .. n + 1 /\ n + 1 \in Nat /\ k + 1 \in 1 .. (n + 1) + 1
    BY <1>5
  <2>4. walk' = At(s, k) /\ todo' = {s[i] : i \in k .. n}
    BY <1>3, <1>6, <1>7
  <2> HIDE DEF k
  <2>5. At(EntryBefore(n, s, e), k + 1) = At(s, k) /\ {EntryBefore(n, s, e)[i] : i \in k + 1 .. n + 1} = {s[i] : i \in k .. n}
    BY <2>3, InsertShifts
  <2>6. WalkAt(n + 1, EntryBefore(n, s, e))'
    BY <2>3, <2>4, <2>5 DEF WalkAt
  <2> QED BY <2>2, <2>3, <2>6, RingNext
<1> QED BY <1>8, <1>9, <1>10 DEF WalkVisit

\* No step leaves the invariant.
LEMMA LListNextInv == LListIInv /\ [LListNext]_llistVars => LListIInv'
<1> SUFFICES ASSUME LListIInv, [LListNext]_llistVars PROVE LListIInv'
  OBVIOUS
<1>1. CASE UNCHANGED llistVars
  BY <1>1 DEF llistVars, LListIInv, WalkAt, Linked
<1> QED BY <1>1, ChangeInv, WalkBeginInv, WalkVisitInv DEF LListNext

(***************************************************************************)
(* For every set of entries: the list stays one ring, forwards and         *)
(* backwards through the same entries, and a walk ends only when it has    *)
(* come to every entry that was in the list when it began, though the one  *)
(* it is at be removed under it (alt_llist.h, alt_tick.c).                 *)
(***************************************************************************)
THEOREM TheListIsARing == LListSpec => []ListIsRing
<1>1. LListIInv => ListIsRing
  <2> SUFFICES ASSUME LListIInv PROVE ListIsRing
    OBVIOUS
  <2>1. PICK s \in SetToSeqs(Linked) : RingOf(Len(s), s, next, previous) /\ WalkAt(Len(s), s)
    BY DEF LListIInv
  <2>2. Chained(s)
    BY <2>1 DEF RingOf, Chained
  <2>3. walk = ListHead => todo = {}
    <3>1. Len(s) \in Nat /\ s \in [1..Len(s) -> Entry]
      BY <2>1 DEF RingOf
    <3> DEFINE n == Len(s)
    <3>2. PICK j \in 1 .. n + 1 : walk = At(s, j) /\ todo = {s[i] : i \in j..n}
      BY <2>1 DEF WalkAt
    <3> HIDE DEF n
    <3>3. n \in Nat /\ s \in [1..n -> Entry]
      BY <3>1 DEF n
    <3>4. walk = ListHead => j = n + 1
      BY <3>2, <3>3, Places
    <3>5. j = n + 1 => {s[i] : i \in j..n} = {}
      BY <3>3
    <3> QED BY <3>2, <3>4, <3>5
  <2> QED BY <2>1, <2>2, <2>3 DEF ListIsRing
<1> QED BY <1>1, LListInitInv, LListNextInv, PTL DEF LListSpec
=============================================================================
