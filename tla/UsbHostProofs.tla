--------------------------- MODULE UsbHostProofs ---------------------------
(***************************************************************************)
(* UsbHost for any number of slots, any keys and reports and any clock:    *)
(* IInv is inductive, and implies the safety properties; and every step of *)
(* an enumeration that nothing disturbs brings its end nearer.             *)
(***************************************************************************)
EXTENDS UsbHost, TLAPS

USE DEF Initialize, WaitForDevice, Illegal, Attached, Settle, ResetDevice, WaitReset, WaitSof,
        GetDescr, Addressing, Configuring, Running, Error, HID_K, HID_M, NoDevice

(***************************************************************************)
(* The inductive invariant behind the safety properties: the slots are     *)
(* taken from the first on, the last one taken is the one in use, and a    *)
(* flag left over from a lost device never survives to the next Running.   *)
(***************************************************************************)
Contiguous ==
  \A i, j \in Slots : i < j /\ table[j].ep # "null" => table[i].ep # "null"

Last(a) ==
  /\ a \in Slots /\ table[a].ep # "null"
  /\ \A j \in Slots : j > a => table[j].ep = "null"

InUse ==
  /\ Last(hid_addr)
  /\ table[hid_addr].ep = "hid_ep"
  /\ flag => device = table[hid_addr].class
  /\ Answers(hid_addr) => Class[plugged] = table[hid_addr].class

Leaving ==
  \/ pc = "ack"  /\ task \in {Initialize, WaitForDevice, Illegal, Attached}
  \/ pc = "task" /\ task \in {1, 2, 3, 4, 5, Attached, Settle}
  \/ pc = "main" /\ task \in {2, 3, 4, 5, Settle, ResetDevice}

AfterProbe == pc \in {"ack", "initack"} =>
                task \in {Initialize, WaitForDevice, Illegal, Attached, WaitReset}
BeforeInit == pc \in {"reset", "initprobe"} => task # Running

IInv ==
  /\ TypeOK
  /\ Contiguous
  /\ AfterProbe
  /\ BeforeInit
  /\ task = Configuring => Last(tmp_addr)
  /\ task = Running => InUse
  /\ flag => task = Running \/ Leaving
  /\ LossIsPending

\* Power-up satisfies IInv.
LEMMA InitIInv == Init => IInv
<1> SUFFICES ASSUME Init PROVE IInv
  OBVIOUS
<1>1. TypeOK
  <2>1. table \in [Slots -> [ep : {"null", "dev0ep", "hid_ep"}, class : {0, HID_K, HID_M}]]
    BY DEF Init, Empty
  <2>2. usb_delay \in 0 .. WrapMs + SettleMs /\ now \in 0 .. WrapMs
    BY TimeAssumption DEF Init
  <2>3. task \in TaskStates /\ pc \in Steps /\ keycode \in Keys \cup Reports
    BY KeysAssumption DEF Init, TaskStates, Steps
  <2> QED
    BY <2>1, <2>2, <2>3 DEF Init, TypeOK
<1>2. Contiguous
  BY DEF Init, Contiguous, Empty
<1> QED
  BY <1>1, <1>2 DEF Init, IInv, AfterProbe, BeforeInit, LossIsPending

\* What MAX_busprobe can make of the state.
LEMMA ProbedStates ==
  ASSUME TypeOK
  PROVE  /\ Probed \in {Initialize, WaitForDevice, Illegal, Attached, WaitReset}
         /\ task = Running => Probed \in {Initialize, WaitForDevice, Illegal, Attached}
  BY DEF TypeOK, Probed

\* The class main reads is that of the last slot taken.
LEMMA LastClassIs ==
  ASSUME NEW a, Last(a)
  PROVE  LastClass = table[a].class
<1>1. a \in Used /\ \A j \in Used : j <= a
  BY SlotsAssumption DEF Last, Used, Slots
<1>2. \A i \in Used : (\A j \in Used : j <= i) => i = a
  BY <1>1, SlotsAssumption DEF Used, Slots
<1> QED
  BY <1>1, <1>2 DEF LastClass

\* The wrapping millisecond count stays in its range.
LEMMA ClockStays ==
  ASSUME now \in 0 .. WrapMs
  PROVE  (now + 1) % WrapMs \in 0 .. WrapMs
  BY TimeAssumption

\* Every step keeps the types.
LEMMA StepTypeOK ==
  ASSUME IInv, [Next]_vars
  PROVE  TypeOK'
<1> USE DEF IInv, TypeOK, AfterProbe, Steps, TaskStates, host, chip, bus
<1>1. CASE Irq
  BY <1>1, ClockStays DEF Irq
<1>2. CASE Probe
  BY <1>2, ProbedStates DEF Probe
<1>3. CASE Ack
  <2>1. /\ flag' \in BOOLEAN /\ event' \in BOOLEAN
         /\ condet' \in BOOLEAN /\ busevent' \in BOOLEAN /\ busrst' \in BOOLEAN
    BY <1>3, Zenon DEF Ack
  <2> QED
    BY <1>3, <2>1 DEF Ack
<1>4. CASE CleanUp
  BY <1>4 DEF CleanUp, TaskStep, Empty
<1>5. CASE StartSettle
  BY <1>5, TimeAssumption DEF StartSettle, TaskStep
<1>6. CASE EndSettle
  BY <1>6 DEF EndSettle, TaskStep
<1>7. CASE StartReset
  <2>1. /\ flag' \in BOOLEAN /\ event' \in BOOLEAN
         /\ condet' \in BOOLEAN /\ busevent' \in BOOLEAN /\ busrst' \in BOOLEAN
    BY <1>7, Zenon DEF StartReset, TaskStep
  <2> QED
    BY <1>7, <2>1 DEF StartReset, TaskStep
<1>8. CASE EndReset
  BY <1>8 DEF EndReset, TaskStep
<1>9. CASE FirstSof
  BY <1>9 DEF FirstSof, TaskStep
<1>10. CASE GetDeviceDescr
  BY <1>10 DEF GetDeviceDescr, TaskStep
<1>11. ASSUME NEW i \in FirstEmpty, SetAddress(i) PROVE TypeOK'
  BY <1>11 DEF SetAddress, TaskStep, FirstEmpty, Used, Slots
<1>12. CASE NoAddress
  BY <1>12 DEF NoAddress, TaskStep
<1>13. CASE NoDriver
  BY <1>13 DEF NoDriver, TaskStep
<1>14. CASE Claim
  BY <1>14 DEF Claim, TaskStep, Last, Answers, Class, Kinds, Slots
<1>15. CASE Idle
  BY <1>15 DEF Idle
<1>16. CASE FirstReport
  <2>1. /\ flag' \in BOOLEAN /\ event' \in BOOLEAN
         /\ condet' \in BOOLEAN /\ busevent' \in BOOLEAN /\ busrst' \in BOOLEAN
    BY <1>16, Zenon DEF FirstReport
  <2>2. LastClass \in {0, HID_K, HID_M, NoDevice}
    BY <1>16, LastClassIs DEF FirstReport, InUse, Last, Slots
  <2> QED
    BY <1>16, <2>1, <2>2 DEF FirstReport
<1>17. CASE Poll
  BY <1>17 DEF Poll, Typed
<1>18. CASE NotRunning
  <2>1. flag' = FALSE \/ UNCHANGED flag
    BY <1>18, Zenon DEF NotRunning
  <2>2. flag' \in BOOLEAN
    BY <2>1, Zenon
  <2>3. pc' \in Steps /\ UNCHANGED <<event, chip>>
    BY <1>18 DEF NotRunning
  <2> QED
    BY <1>18, <2>2, <2>3 DEF NotRunning
<1>19. CASE ChipReset
  <2>1. /\ flag' \in BOOLEAN /\ event' \in BOOLEAN
         /\ condet' \in BOOLEAN /\ busevent' \in BOOLEAN /\ busrst' \in BOOLEAN
    BY <1>19, Zenon DEF ChipReset
  <2> QED
    BY <1>19, <2>1 DEF ChipReset
<1>20. CASE InitProbe
  BY <1>20, ProbedStates DEF InitProbe
<1>21. CASE InitAck
  <2>1. /\ flag' \in BOOLEAN /\ event' \in BOOLEAN
         /\ condet' \in BOOLEAN /\ busevent' \in BOOLEAN /\ busrst' \in BOOLEAN
    BY <1>21, Zenon DEF InitAck
  <2> QED
    BY <1>21, <2>1 DEF InitAck, Empty
<1>22. ASSUME NEW d \in Kinds \cup {"SE1"}, Plug(d) PROVE TypeOK'
  BY <1>22 DEF Plug
<1>23. CASE Unplug
  BY <1>23 DEF Unplug
<1>24. CASE ResetDone
  <2>1. /\ flag' \in BOOLEAN /\ event' \in BOOLEAN
         /\ condet' \in BOOLEAN /\ busevent' \in BOOLEAN /\ busrst' \in BOOLEAN
    BY <1>24, Zenon DEF ResetDone
  <2> QED
    BY <1>24, <2>1 DEF ResetDone
<1>25. CASE UNCHANGED vars
  BY <1>25 DEF vars
<1> QED
  BY <1>1, <1>2, <1>3, <1>4, <1>5, <1>6, <1>7, <1>8, <1>9, <1>10, <1>11, <1>12, <1>13, <1>14, <1>15, <1>16, <1>17, <1>18, <1>19, <1>20, <1>21, <1>22, <1>23, <1>24, <1>25 DEF Next, Firmware, USB_Task, Bus

\* The parts of IInv that relate the state, the slots and the device.
Use ==
  /\ task = Configuring => Last(tmp_addr)
  /\ task = Running => InUse
  /\ flag => task = Running \/ Leaving
  /\ LossIsPending

\* Slots are taken from the first on and given back only all at once.
LEMMA StepContiguous ==
  ASSUME IInv, [Next]_vars
  PROVE  Contiguous'
<1> USE DEF IInv, TypeOK, Contiguous
<1>1. CASE UNCHANGED table
  BY <1>1
<1>2. CASE CleanUp \/ InitAck
  BY <1>2 DEF CleanUp, InitAck, Empty
<1>3. ASSUME NEW i \in FirstEmpty, SetAddress(i) PROVE Contiguous'
  BY <1>3, SlotsAssumption DEF SetAddress, FirstEmpty, Used, Slots
<1>4. CASE Claim
  BY <1>4 DEF Claim, TaskStep, Last
<1> QED
  BY <1>1, <1>2, <1>3, <1>4
     DEF Next, Firmware, USB_Task, Bus, vars, host, TaskStep, Irq, Probe, Ack, StartSettle, EndSettle,
         StartReset, EndReset, FirstSof, GetDeviceDescr, NoAddress, NoDriver, Idle, FirstReport,
         Poll, NotRunning, ChipReset, InitProbe, Plug, Unplug, ResetDone

\* Every step keeps what relates the state to the slot in use, the flag and the interrupts.
LEMMA StepUse ==
  ASSUME IInv, [Next]_vars
  PROVE  AfterProbe' /\ BeforeInit' /\ Use'
<1> USE DEF IInv, TypeOK, AfterProbe, BeforeInit, Use, LossIsPending, Leaving, InUse, Last, Answers, host, chip, bus
<1>1. CASE Irq
  BY <1>1 DEF Irq
<1>2. CASE Probe
  BY <1>2, ProbedStates DEF Probe
<1>3. CASE Ack
  BY <1>3 DEF Ack
<1>4. CASE CleanUp
  BY <1>4 DEF CleanUp, TaskStep, Empty
<1>5. CASE StartSettle
  BY <1>5 DEF StartSettle, TaskStep
<1>6. CASE EndSettle
  BY <1>6 DEF EndSettle, TaskStep
<1>7. CASE StartReset
  BY <1>7 DEF StartReset, TaskStep
<1>8. CASE EndReset
  BY <1>8 DEF EndReset, TaskStep
<1>9. CASE FirstSof
  BY <1>9 DEF FirstSof, TaskStep
<1>10. CASE GetDeviceDescr
  BY <1>10 DEF GetDeviceDescr, TaskStep
<1>11. ASSUME NEW i \in FirstEmpty, SetAddress(i) PROVE AfterProbe' /\ BeforeInit' /\ Use'
  BY <1>11 DEF SetAddress, TaskStep, FirstEmpty, Used, Slots, Contiguous
<1>12. CASE NoAddress
  BY <1>12 DEF NoAddress, TaskStep
<1>13. CASE NoDriver
  BY <1>13 DEF NoDriver, TaskStep
<1>14. CASE Claim
  BY <1>14 DEF Claim, TaskStep, Class, Kinds, Slots
<1>15. CASE Idle
  BY <1>15 DEF Idle, Active, TaskStates
<1>16. CASE FirstReport
  BY <1>16, LastClassIs DEF FirstReport
<1>17. CASE Poll
  BY <1>17 DEF Poll
<1>18. CASE NotRunning
  BY <1>18 DEF NotRunning
<1>19. CASE ChipReset
  BY <1>19 DEF ChipReset
<1>20. CASE InitProbe
  BY <1>20, ProbedStates DEF InitProbe
<1>21. CASE InitAck
  BY <1>21 DEF InitAck, Empty
<1>22. ASSUME NEW d \in Kinds \cup {"SE1"}, Plug(d) PROVE AfterProbe' /\ BeforeInit' /\ Use'
  BY <1>22 DEF Plug, Slots
<1>23. CASE Unplug
  BY <1>23 DEF Unplug, Kinds
<1>24. CASE ResetDone
  <2>1. task = Running => condet'
    <3>1. task = Running => condet
      BY <1>24, Zenon DEF ResetDone
    <3>2. UNCHANGED task /\ (UNCHANGED condet \/ condet' = TRUE)
      BY <1>24 DEF ResetDone
    <3> QED
      BY <3>1, <3>2, Zenon
  <2>2. task = Running => ~Answers(hid_addr)'
    BY <1>24 DEF ResetDone, Slots
  <2> QED
    BY <1>24, <2>1, <2>2 DEF ResetDone
<1>25. CASE UNCHANGED vars
  BY <1>25 DEF vars
<1> QED
  BY <1>1, <1>2, <1>3, <1>4, <1>5, <1>6, <1>7, <1>8, <1>9, <1>10, <1>11, <1>12, <1>13, <1>14, <1>15, <1>16, <1>17, <1>18, <1>19, <1>20, <1>21, <1>22, <1>23, <1>24, <1>25 DEF Next, Firmware, USB_Task, Bus

\* IInv is inductive.
LEMMA StepIInv == IInv /\ [Next]_vars => IInv'
  BY StepTypeOK, StepContiguous, StepUse DEF IInv, Use

(***************************************************************************)
(* The inductive invariant of the firmware holds in every history of       *)
(* attachments, lost devices, failed transfers and bus resets.             *)
(***************************************************************************)
THEOREM HostInvariant == Spec => []IInv
  BY InitIInv, StepIInv, PTL DEF Spec

(***************************************************************************)
(* The variables keep their types, and the increment of usb_task_state in  *)
(* the interrupt task leads to no state but those of TaskStates.           *)
(***************************************************************************)
THEOREM HostTypeCorrect == Spec => []TypeOK
  BY HostInvariant, PTL DEF IInv

(***************************************************************************)
(* A poll finds the slot it dereferences claimed by the driver it was      *)
(* chosen for, in any history of attachments and failures.                 *)
(***************************************************************************)
THEOREM PollsAreSafe == Spec => []PollSafe
<1>1. IInv => PollSafe
  BY DEF IInv, PollSafe, InUse, Last
<1> QED
  BY <1>1, HostInvariant, PTL

\* A device lost while Running always leaves its interrupt pending.
THEOREM LossStaysPending == Spec => []LossIsPending
  BY HostInvariant, PTL DEF IInv

(***************************************************************************)
(* Only what a keyboard sent becomes a keycode: `device` agrees with the   *)
(* slot, and the slot with the device that answers to its address.         *)
(***************************************************************************)
THEOREM KeysOnly == Spec => OnlyKeysAreTyped
<1>1. IInv /\ [Next]_vars => [keycode' # keycode => plugged = "keyboard" /\ keycode' \in Keys]_vars
  <2> SUFFICES ASSUME IInv, Next, keycode' # keycode
               PROVE  plugged = "keyboard" /\ keycode' \in Keys
    OBVIOUS
  <2>1. CASE Poll
    BY <2>1 DEF IInv, InUse, Poll, Typed, Class, Kinds, Answers
  <2>2. CASE ~Poll
    BY <2>2 DEF Next, Firmware, USB_Task, Bus, host, TaskStep, Irq, Probe, Ack, CleanUp, StartSettle,
         EndSettle, StartReset, EndReset, FirstSof, GetDeviceDescr, SetAddress, NoAddress,
         NoDriver, Claim, Idle, FirstReport, NotRunning, ChipReset, InitProbe, InitAck, Plug,
         Unplug, ResetDone
  <2> QED
    BY <2>1, <2>2
<1> QED
  BY <1>1, HostInvariant, PTL DEF Spec, OnlyKeysAreTyped

-----------------------------------------------------------------------------
\* The settle time is seen to be over in the pass in which it is: outside
\* USB_Task the count is never beyond it, a settle time left over included.
SettleInTime == pc \in {"main", "irq"} /\ task = Settle => now <= usb_delay

LEMMA StepSettleInTime ==
  ASSUME IInv, SettleInTime, [Next]_vars
  PROVE  SettleInTime'
<1> USE DEF IInv, TypeOK, SettleInTime, AfterProbe, TaskStates, host, chip, bus
<1>1. CASE Irq \/ Probe \/ Ack
  BY <1>1 DEF Irq, Probe, Ack
<1>2. CASE StartSettle \/ EndSettle
  BY <1>2, TimeAssumption DEF StartSettle, EndSettle, TaskStep
<1>3. CASE CleanUp \/ StartReset \/ EndReset \/ FirstSof \/ GetDeviceDescr
  BY <1>3 DEF CleanUp, StartReset, EndReset, FirstSof, GetDeviceDescr, TaskStep
<1>4. CASE (\E i \in FirstEmpty : SetAddress(i)) \/ NoAddress \/ NoDriver \/ Claim
  BY <1>4 DEF SetAddress, NoAddress, NoDriver, Claim, TaskStep
<1>5. CASE Idle
  BY <1>5 DEF Idle, Active
<1>6. CASE FirstReport \/ Poll \/ NotRunning
  BY <1>6 DEF FirstReport, Poll, NotRunning
<1>7. CASE ChipReset \/ InitProbe \/ InitAck
  BY <1>7 DEF ChipReset, InitProbe, InitAck
<1>8. CASE Bus \/ UNCHANGED vars
  BY <1>8 DEF Bus, Plug, Unplug, ResetDone, vars
<1> QED
  BY <1>1, <1>2, <1>3, <1>4, <1>5, <1>6, <1>7, <1>8 DEF Next, Firmware, USB_Task

\* What StepsToGo is where nothing disturbs an enumeration.
States   == IF task = Addressing THEN 2 ELSE IF task = Configuring THEN 1 ELSE 24 - task
Settling == IF task = Attached THEN SettleMs
            ELSE IF task = Settle /\ now <= usb_delay
              THEN usb_delay - now + (IF pc = "task" THEN 1 ELSE 0)
            ELSE 0
Rest     == IF pc = "main" THEN 2 ELSE IF pc = "irq" THEN 1 ELSE 0

LEMMA StepsAre ==
  IInv /\ Undisturbed =>
    /\ StepsToGo = 3 * (States + Settling) + Rest
    /\ States \in 1..8 /\ Settling \in Nat /\ Rest \in 0..2
<1> SUFFICES ASSUME IInv, Undisturbed
             PROVE  /\ StepsToGo = 3 * (States + Settling) + Rest
                    /\ States \in 1..8 /\ Settling \in Nat /\ Rest \in 0..2
  OBVIOUS
<1>1. [main |-> 2, irq |-> 1, task |-> 0][pc] = Rest
  BY DEF Undisturbed, Rest
<1>2. StepsToGo = 3 * (States + Settling) + Rest
  BY <1>1 DEF StepsToGo, States, Settling
<1>3. Settling \in Nat
  BY TimeAssumption DEF IInv, TypeOK, Settling
<1>4. States \in 1..8
  BY DEF Undisturbed, Enumerating, States
<1>5. Rest \in 0..2
  BY DEF Rest
<1> QED
  BY <1>2, <1>3, <1>4, <1>5

\* A step inside an enumeration is one of the loop, in its three places.
LEMMA StepAdvances ==
  ASSUME IInv, IInv', SettleInTime, Next, Undisturbed, Undisturbed', pc' # pc
  PROVE  StepsToGo' \in 0 .. StepsToGo - 1
<1>1. /\ StepsToGo = 3 * (States + Settling) + Rest
      /\ States \in 1..8 /\ Settling \in Nat /\ Rest \in 0..2
  BY StepsAre
<1>2. /\ StepsToGo' = 3 * (States' + Settling') + Rest'
      /\ States' \in 1..8 /\ Settling' \in Nat /\ Rest' \in 0..2
  <2>1. IInv' /\ Undisturbed' =>
          (/\ StepsToGo = 3 * (States + Settling) + Rest
           /\ States \in 1..8 /\ Settling \in Nat /\ Rest \in 0..2)'
    BY StepsAre, PTL
  <2> QED
    BY <2>1
<1>3. SUFFICES \/ States' + Settling' < States + Settling
               \/ States' + Settling' = States + Settling /\ Rest' < Rest
  BY <1>1, <1>2 DEF States, Settling, Rest
<1> USE DEF Undisturbed, Enumerating, States, Settling, Rest
<1>4. CASE Irq
  <2>1. pc = "irq" /\ pc' = "task" /\ UNCHANGED <<task, usb_delay>>
    BY <1>4 DEF Irq
  <2>2. CASE task = Settle
    <3>1. now <= usb_delay /\ usb_delay < WrapMs - 1
      BY <2>1, <2>2, TimeAssumption DEF SettleInTime, WaitsForever, IInv, TypeOK
    <3>2. now' = now + 1
      BY <3>1, <1>4, TimeAssumption DEF Irq, IInv, TypeOK
    <3> QED
      BY <2>1, <2>2, <3>1, <3>2 DEF IInv, TypeOK
  <2> QED
    BY <2>1, <2>2
<1>5. CASE StartSettle
  BY <1>5, TimeAssumption DEF StartSettle, TaskStep, IInv, TypeOK
<1>6. CASE EndSettle
  BY <1>6, TimeAssumption DEF EndSettle, TaskStep, IInv, TypeOK
<1>7. CASE StartReset \/ EndReset \/ FirstSof \/ GetDeviceDescr
  BY <1>7 DEF StartReset, EndReset, FirstSof, GetDeviceDescr, TaskStep
<1>8. CASE (\E i \in FirstEmpty : SetAddress(i)) \/ NoAddress \/ NoDriver \/ Claim
  BY <1>8 DEF SetAddress, NoAddress, NoDriver, Claim, TaskStep
<1>9. CASE NotRunning
  BY <1>9 DEF NotRunning, IInv, TypeOK
<1>10. CASE Probe \/ Ack \/ CleanUp \/ Idle \/ FirstReport \/ Poll
            \/ ChipReset \/ InitProbe \/ InitAck \/ Bus
  BY <1>10 DEF Probe, Ack, CleanUp, TaskStep, Idle, Active, FirstReport, Poll, ChipReset,
               InitProbe, InitAck, Bus, Plug, Unplug, ResetDone, host
<1> QED
  BY <1>4, <1>5, <1>6, <1>7, <1>8, <1>9, <1>10 DEF Next, Firmware, USB_Task

(***************************************************************************)
(* An undisturbed enumeration never goes back and never stands still: for  *)
(* every settle time and every wrap the loop has finitely many steps left. *)
(***************************************************************************)
THEOREM EnumerationGetsOn == Spec => EnumerationAdvances
<1>1. Init => SettleInTime
  BY DEF Init, SettleInTime
<1>2. IInv /\ SettleInTime /\ [Next]_vars => SettleInTime'
  BY StepSettleInTime
<1>3. IInv /\ IInv' /\ SettleInTime /\ [Next]_vars =>
        [Undisturbed /\ Undisturbed' /\ pc' # pc => StepsToGo' \in 0 .. StepsToGo - 1]_vars
  BY StepAdvances
<1> QED
  BY <1>1, <1>2, <1>3, HostInvariant, PTL DEF Spec, EnumerationAdvances
=============================================================================
