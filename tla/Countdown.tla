----------------------------- MODULE Countdown -----------------------------
(***************************************************************************)
(* What alarms promise: an alarm set to k ticks is called back at the k-th *)
(* tick from now, neither before nor after nor twice, and then either      *)
(* stops or is set again to what its callback returns.                     *)
(***************************************************************************)
EXTENDS Integers

CONSTANTS Alarm, W

VARIABLES
  ticks,   \* ticks so far, modulo W
  left,    \* ticks until each alarm is called back; 0 when it is not set
  fired    \* the alarms called back by the last tick

Init ==
  /\ ticks = 0
  /\ left = [a \in Alarm |-> 0]
  /\ fired = {}

Set == \E a \in Alarm, k \in 1 .. W :
  /\ left[a] = 0
  /\ left' = [left EXCEPT ![a] = k]
  /\ UNCHANGED <<ticks, fired>>

Stop == \E a \in Alarm :
  /\ left[a] > 0
  /\ left' = [left EXCEPT ![a] = 0]
  /\ UNCHANGED <<ticks, fired>>

Tick ==
  /\ ticks' = IF ticks = W - 1 THEN 0 ELSE ticks + 1
  /\ fired' = {a \in Alarm : left[a] = 1}
  /\ \E again \in [Alarm -> 0 .. W - 1] :
       left' = [a \in Alarm |-> IF left[a] = 0 THEN 0
                               ELSE IF left[a] = 1 THEN again[a] ELSE left[a] - 1]

Next == Set \/ Stop \/ Tick

Spec == Init /\ [][Next]_<<ticks, left, fired>>
=============================================================================
