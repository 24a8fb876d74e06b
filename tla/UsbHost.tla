------------------------------ MODULE UsbHost ------------------------------
(***************************************************************************)
(* The firmware between the USB keyboard and the game: the polling loop of *)
(* main.c, the state machine USB_Task of transfer.c, the interrupt task of *)
(* MAX3421E.c and the probes of HID.c.  There is no interrupt handler: the *)
(* loop looks at the interrupt pin of the MAX3421E chip once a pass, so    *)
(* the bus changes between any two accesses to the chip.  A step here ends *)
(* where such a change can matter:                                         *)
(*                                                                         *)
(*   irq    MAX3421E_Task: the pin, and MaxIntHandler reading the IRQs     *)
(*   probe  MAX_busprobe: the state of the bus                             *)
(*   ack    the rest of MaxIntHandler: acknowledge the IRQs read           *)
(*   task   USB_Task                                                       *)
(*   main   the rest of the loop of main                                   *)
(*   reset, initprobe, initack     MAX3421E_init, then USB_init            *)
(*                                                                         *)
(* A transfer succeeds or fails as a whole; only a device that answers to  *)
(* the address can make it succeed.                                        *)
(***************************************************************************)
EXTENDS Integers

CONSTANTS
  NumDevices,    \* USB_NUMDEVICES: the slots of devtable are 1..NumDevices-1
  Keys,          \* what a keyboard can report
  Reports,       \* the first bytes of other devices' reports
  WrapMs,        \* the millisecond count wraps to 0 here
  SettleMs       \* the settle time, in passes of the loop

ASSUME SlotsAssumption == NumDevices \in Int /\ NumDevices >= 2
ASSUME TimeAssumption ==
  WrapMs \in Int /\ WrapMs >= 1 /\ SettleMs \in Int /\ SettleMs >= 0
ASSUME KeysAssumption == 0 \in Keys

VARIABLES
  pc,            \* where the firmware is
  task,          \* usb_task_state, a byte
  table,         \* devtable: the endpoints and the class of each slot
  tmp_addr,      \* the address USB_Task assigned last
  hid_addr,      \* hid_device.addr
  usb_delay,     \* when the settle time is over
  now,           \* alt_nticks() in milliseconds
  flag, device,  \* runningdebugflag and device of main
  keycode,       \* the PIO register the game reads
  event,         \* the BUSEVENTIRQ bit in MaxIntHandler's copy of rHIRQ
  condet, busevent, busrst,  \* CONDETIRQ, BUSEVENTIRQ, BUSRST of the chip
  plugged,       \* what is on the bus
  devaddr        \* the address it answers to

host == <<pc, task, table, tmp_addr, hid_addr, usb_delay, now, flag, device, keycode, event>>
chip == <<condet, busevent, busrst>>
bus  == <<plugged, devaddr>>
vars == <<host, chip, bus>>

-----------------------------------------------------------------------------
\* The values of usb_task_state (USB.h).
Initialize    == 1
WaitForDevice == 3
Illegal       == 4
Attached      == 16
Settle        == 17
ResetDevice   == 18
WaitReset     == 19
WaitSof       == 20
GetDescr      == 21
Addressing    == 32
Configuring   == 48
Running       == 64
Error         == 255

\* usb_task_state & USB_STATE_MASK: the phase a state belongs to.
Phase(s)  == s - (s % 16)
Phases    == {0, Attached, Addressing, Configuring, Running}
Detached(s) == Phase(s) = 0

\* The classes of a slot, and `device` when no slot is in use.
HID_K    == 1
HID_M    == 2
NoDevice == 255

Slots     == 1 .. NumDevices - 1
Empty     == [ep |-> "null", class |-> 0]
Used      == {i \in Slots : table[i].ep # "null"}

Steps     == {"irq", "probe", "ack", "task", "main", "reset", "initprobe", "initack"}
Kinds     == {"keyboard", "mouse", "other"}
Class     == [keyboard |-> HID_K, mouse |-> HID_M, other |-> 0]

\* The device that a transfer to address a reaches.
Answers(a) == plugged \in Kinds /\ devaddr = a /\ ~busrst

\* Mutant of Probed: a device seen while Running is not new either.
Probed_KeepsRunning ==
  IF plugged \in Kinds  THEN IF task \in {WaitReset, Running} THEN task ELSE Attached
  ELSE IF plugged = "SE1" THEN Illegal
  ELSE IF Detached(task) THEN WaitForDevice
  ELSE Initialize

(***************************************************************************)
(* MAX_busprobe: the state for what is on the bus.  A bus reset raises the *)
(* connection interrupt too, so a device seen in WaitReset is not new.     *)
(***************************************************************************)
Probed ==
  IF plugged \in Kinds  THEN IF task = WaitReset THEN task ELSE Attached
  ELSE IF plugged = "SE1" THEN Illegal
  ELSE IF Detached(task) THEN WaitForDevice
  ELSE Initialize

-----------------------------------------------------------------------------
(***************************************************************************)
(* The loop of main.  A pass is the unit of time.                          *)
(***************************************************************************)
Irq ==
  /\ pc = "irq"
  /\ now' = (now + 1) % WrapMs
  /\ event' = (condet /\ busevent)
  /\ pc' = IF condet THEN "probe" ELSE "task"
  /\ UNCHANGED <<task, table, tmp_addr, hid_addr, usb_delay, flag, device, keycode, chip, bus>>

Probe ==
  /\ pc = "probe"
  /\ task' = Probed
  /\ pc' = "ack"
  /\ UNCHANGED <<table, tmp_addr, hid_addr, usb_delay, now, flag, device, keycode, event,
                 chip, bus>>

\* A bus event "advances" the state machine, whatever the probe has made of it.
Ack ==
  /\ pc = "ack"
  /\ task' = IF event THEN (task + 1) % 256 ELSE task
  /\ busevent' = (busevent /\ ~event)
  /\ condet' = FALSE
  /\ event' = FALSE
  /\ pc' = "task"
  /\ UNCHANGED <<table, tmp_addr, hid_addr, usb_delay, now, flag, device, keycode, busrst, bus>>

-----------------------------------------------------------------------------
(***************************************************************************)
(* USB_Task, one action for each state that does something.                *)
(***************************************************************************)
TaskStep(s) == pc = "task" /\ task = s /\ pc' = "main"

CleanUp ==
  /\ TaskStep(Initialize)
  /\ table' = [i \in Slots |-> Empty]
  /\ task' = WaitForDevice
  /\ UNCHANGED <<tmp_addr, hid_addr, usb_delay, now, flag, device, keycode, event, chip, bus>>

StartSettle ==
  /\ TaskStep(Attached)
  /\ usb_delay' = now + SettleMs
  /\ task' = Settle
  /\ UNCHANGED <<table, tmp_addr, hid_addr, now, flag, device, keycode, event, chip, bus>>

EndSettle ==
  /\ TaskStep(Settle)
  /\ task' = IF now > usb_delay THEN ResetDevice ELSE Settle
  /\ UNCHANGED <<table, tmp_addr, hid_addr, usb_delay, now, flag, device, keycode, event,
                 chip, bus>>

StartReset ==
  /\ TaskStep(ResetDevice)
  /\ busevent' = FALSE
  /\ busrst' = TRUE
  /\ task' = WaitReset
  /\ UNCHANGED <<table, tmp_addr, hid_addr, usb_delay, now, flag, device, keycode, event,
                 condet, bus>>

EndReset ==
  /\ TaskStep(WaitReset)
  /\ task' = IF busrst THEN WaitReset ELSE WaitSof
  /\ UNCHANGED <<table, tmp_addr, hid_addr, usb_delay, now, flag, device, keycode, event,
                 chip, bus>>

\* The test is `rHIRQ | bmFRAMEIRQ`, which never fails.
FirstSof ==
  /\ TaskStep(WaitSof)
  /\ task' = GetDescr
  /\ UNCHANGED <<table, tmp_addr, hid_addr, usb_delay, now, flag, device, keycode, event,
                 chip, bus>>

\* Only the first of the descriptor requests decides.
GetDeviceDescr ==
  /\ TaskStep(GetDescr)
  /\ \/ Answers(0) /\ task' = Addressing
     \/ task' = Error
  /\ UNCHANGED <<table, tmp_addr, hid_addr, usb_delay, now, flag, device, keycode, event,
                 chip, bus>>

(***************************************************************************)
(* The first empty slot is taken before the address is sent, and kept if   *)
(* that fails.  A failure may be one of the status stage only: the device  *)
(* then answers to the new address all the same.                           *)
(***************************************************************************)
FirstEmpty == {i \in Slots \ Used : \A j \in Slots \ Used : i <= j}

SetAddress(i) ==
  /\ TaskStep(Addressing)
  /\ table' = [table EXCEPT ![i].ep = "dev0ep"]
  /\ \/ Answers(0) /\ tmp_addr' = i /\ task' = Configuring /\ devaddr' = i
     \/ Answers(0) /\ task' = Error /\ devaddr' = i /\ UNCHANGED tmp_addr
     \/ task' = Error /\ UNCHANGED <<tmp_addr, devaddr>>
  /\ UNCHANGED <<hid_addr, usb_delay, now, flag, device, keycode, event, chip, plugged>>

NoAddress ==
  /\ TaskStep(Addressing)
  /\ FirstEmpty = {}
  /\ task' = Error
  /\ UNCHANGED <<table, tmp_addr, hid_addr, usb_delay, now, flag, device, keycode, event,
                 chip, bus>>

\* Mutant of NoDriver: no driver is not an error, the probes are run again.
NoDriver_Retries ==
  /\ TaskStep(Configuring)
  /\ UNCHANGED <<task, table, tmp_addr, hid_addr, usb_delay, now, flag, device, keycode, event,
                 chip, bus>>

(***************************************************************************)
(* HIDMProbe and HIDKProbe: the probe of the class that matches claims the *)
(* slot before it configures the device, and leaves it claimed if that     *)
(* fails.                                                                  *)
(***************************************************************************)
NoDriver ==
  /\ TaskStep(Configuring)
  /\ task' = Error
  /\ UNCHANGED <<table, tmp_addr, hid_addr, usb_delay, now, flag, device, keycode, event,
                 chip, bus>>

Claim ==
  /\ TaskStep(Configuring)
  /\ Answers(tmp_addr) /\ Class[plugged] \in {HID_K, HID_M}
  /\ table' = [table EXCEPT ![tmp_addr] = [ep |-> "hid_ep", class |-> Class[plugged]]]
  /\ hid_addr' = tmp_addr
  /\ task' \in {Running, Error}
  /\ UNCHANGED <<tmp_addr, usb_delay, now, flag, device, keycode, event, chip, bus>>

\* The states with nothing to do, those no case label names among them.
Active == {Initialize, Attached, Settle, ResetDevice, WaitReset, WaitSof, GetDescr, Addressing,
           Configuring}

Idle ==
  /\ pc = "task" /\ task \notin Active
  /\ pc' = "main"
  /\ UNCHANGED <<task, table, tmp_addr, hid_addr, usb_delay, now, flag, device, keycode, event,
                 chip, bus>>

-----------------------------------------------------------------------------
\* Mutant of LastClass: the class of the first slot in use.
LastClass_First ==
  IF Used = {} THEN NoDevice
  ELSE table[CHOOSE i \in Used : \A j \in Used : i <= j].class

(***************************************************************************)
(* The rest of the loop.  The class of the last slot in use decides what   *)
(* is polled; it is read in the first pass that finds the state Running.   *)
(***************************************************************************)
LastClass ==
  IF Used = {} THEN NoDevice
  ELSE table[CHOOSE i \in Used : \A j \in Used : j <= i].class

FirstReport ==
  /\ pc = "main" /\ task = Running /\ ~flag
  /\ flag' = TRUE
  /\ device' = LastClass
  /\ pc' = "irq"
  /\ UNCHANGED <<task, table, tmp_addr, hid_addr, usb_delay, now, keycode, event, chip, bus>>

\* kbdPoll reads eight bytes from the interrupt endpoint of hid_device.addr.
Typed == IF plugged = "keyboard" THEN Keys ELSE Reports

Poll ==
  /\ pc = "main" /\ task = Running /\ flag
  /\ \/ device = HID_K /\ Answers(hid_addr) /\ keycode' \in Typed
     \/ UNCHANGED keycode
  /\ pc' = "irq"
  /\ UNCHANGED <<task, table, tmp_addr, hid_addr, usb_delay, now, flag, device, event,
                 chip, bus>>

NotRunning ==
  /\ pc = "main" /\ task # Running
  /\ \/ task = Error /\ pc' = "irq" /\ UNCHANGED flag
     \/ task # Error /\ flag' = FALSE /\ pc' = IF flag THEN "reset" ELSE "irq"
  /\ UNCHANGED <<task, table, tmp_addr, hid_addr, usb_delay, now, device, keycode, event,
                 chip, bus>>

-----------------------------------------------------------------------------
(***************************************************************************)
(* MAX3421E_init and USB_init, at power-up and when a running device is    *)
(* lost.  The chip reset clears its interrupts.                            *)
(***************************************************************************)
ChipReset ==
  /\ pc = "reset"
  /\ condet' = FALSE /\ busevent' = FALSE /\ busrst' = FALSE
  /\ pc' = "initprobe"
  /\ UNCHANGED <<task, table, tmp_addr, hid_addr, usb_delay, now, flag, device, keycode, event,
                 bus>>

InitProbe ==
  /\ pc = "initprobe"
  /\ task' = Probed
  /\ pc' = "initack"
  /\ UNCHANGED <<table, tmp_addr, hid_addr, usb_delay, now, flag, device, keycode, event,
                 chip, bus>>

InitAck ==
  /\ pc = "initack"
  /\ condet' = FALSE
  /\ table' = [i \in Slots |-> Empty]
  /\ pc' = "irq"
  /\ UNCHANGED <<task, tmp_addr, hid_addr, usb_delay, now, flag, device, keycode, event,
                 busevent, busrst, bus>>

-----------------------------------------------------------------------------
(***************************************************************************)
(* The bus: devices come and go, and the chip ends a bus reset.  A device  *)
(* that was just plugged in or reset answers to address 0.                 *)
(***************************************************************************)
Plug(d) ==
  /\ plugged = "nothing"
  /\ plugged' = d /\ devaddr' = 0 /\ condet' = TRUE
  /\ UNCHANGED <<host, busevent, busrst>>

Unplug ==
  /\ plugged # "nothing"
  /\ plugged' = "nothing" /\ devaddr' = 0 /\ condet' = TRUE
  /\ UNCHANGED <<host, busevent, busrst>>

ResetDone ==
  /\ busrst
  /\ busrst' = FALSE /\ busevent' = TRUE /\ devaddr' = 0
  /\ UNCHANGED condet \/ condet' = TRUE
  /\ UNCHANGED <<host, plugged>>

Init ==
  /\ pc = "reset" /\ task = Initialize
  /\ table = [i \in Slots |-> Empty]
  /\ tmp_addr = 0 /\ hid_addr = 0 /\ usb_delay = 0 /\ now = 0
  /\ flag = FALSE /\ device = NoDevice /\ keycode = 0 /\ event = FALSE
  /\ condet = FALSE /\ busevent = FALSE /\ busrst = FALSE
  /\ plugged = "nothing" /\ devaddr = 0

USB_Task ==
  \/ CleanUp \/ StartSettle \/ EndSettle \/ StartReset \/ EndReset \/ FirstSof
  \/ GetDeviceDescr \/ (\E i \in FirstEmpty : SetAddress(i)) \/ NoAddress
  \/ NoDriver \/ Claim \/ Idle

Firmware ==
  \/ Irq \/ Probe \/ Ack
  \/ USB_Task
  \/ FirstReport \/ Poll \/ NotRunning
  \/ ChipReset \/ InitProbe \/ InitAck

Bus ==
  \/ \E d \in Kinds \cup {"SE1"} : Plug(d)
  \/ Unplug
  \/ ResetDone

Next == Firmware \/ Bus

(***************************************************************************)
(* The loop of main never blocks for good (every wait in a transfer has a  *)
(* timeout), and the chip ends a bus reset after 50 ms.                    *)
(***************************************************************************)
Spec == Init /\ [][Next]_vars /\ WF_vars(Firmware) /\ WF_vars(ResetDone)

-----------------------------------------------------------------------------
(***************************************************************************)
(* Types; for usb_task_state the values that the increment in the          *)
(* interrupt task can make of it, some of which USB.h does not name.       *)
(***************************************************************************)
TaskStates == (1..5) \cup (16..21) \cup {Addressing, Configuring, Running, Error}

TypeOK ==
  /\ pc \in Steps
  /\ task \in TaskStates
  /\ table \in [Slots -> [ep : {"null", "dev0ep", "hid_ep"}, class : {0, HID_K, HID_M}]]
  /\ tmp_addr \in {0} \cup Slots /\ hid_addr \in {0} \cup Slots
  /\ usb_delay \in 0 .. WrapMs + SettleMs /\ now \in 0 .. WrapMs
  /\ flag \in BOOLEAN /\ device \in {0, HID_K, HID_M, NoDevice}
  /\ keycode \in Keys \cup Reports /\ event \in BOOLEAN
  /\ condet \in BOOLEAN /\ busevent \in BOOLEAN /\ busrst \in BOOLEAN
  /\ plugged \in Kinds \cup {"SE1", "nothing"} /\ devaddr \in {0} \cup Slots

(***************************************************************************)
(* kbdPoll and mousePoll use devtable[hid_device.addr].epinfo[1] unchecked. *)
(* Whenever they can be called that slot is claimed by a HID driver, and    *)
(* `device`, which was read from the last slot in use some passes earlier,  *)
(* is still its class: no re-initialisation, no leaked slot and no          *)
(* re-attachment comes between.                                             *)
(***************************************************************************)
PollSafe ==
  pc = "main" /\ task = Running =>
    /\ hid_addr \in Slots
    /\ table[hid_addr].ep = "hid_ep"
    /\ flag => device = table[hid_addr].class

(***************************************************************************)
(* However the devices are exchanged, and however late the firmware        *)
(* notices, only what a keyboard sent becomes a keycode.                   *)
(***************************************************************************)
OnlyKeysAreTyped == [][keycode' # keycode => plugged = "keyboard" /\ keycode' \in Keys]_vars

(***************************************************************************)
(* A device that is lost while it is polled does not go unnoticed: though  *)
(* the acknowledgement clears connection interrupts it has not seen, one   *)
(* is pending, or being handled, as long as the state is Running.          *)
(***************************************************************************)
LossIsPending ==
  task = Running /\ ~Answers(hid_addr) => condet

(***************************************************************************)
(* An enumeration that has begun comes to an end (running, in error or     *)
(* detached) unless the bus changes again, or the settle time ends beyond  *)
(* the wrap of the millisecond count.  Of a device with a descriptor of    *)
(* length 0 this is not said: the probes are one step here, which ends for *)
(* the devices that module HidProbe says it ends for.                      *)
(***************************************************************************)
Enumerating   == task \in (16..21) \cup {Addressing, Configuring}
WaitsForever  == task = Settle /\ usb_delay >= WrapMs - 1

EnumerationEnds == Enumerating ~> ~Enumerating \/ condet \/ WaitsForever

\* The firmware's steps to the end of an enumeration that nothing disturbs: three
\* in a pass, a pass for each state, and while it settles one for each unit of time.
StepsToGo ==
  LET states   == IF task = Addressing THEN 2 ELSE IF task = Configuring THEN 1 ELSE 24 - task
      settling == IF task = Attached THEN SettleMs
                  ELSE IF task = Settle /\ now <= usb_delay
                    THEN usb_delay - now + (IF pc = "task" THEN 1 ELSE 0)
                  ELSE 0
  IN  3 * (states + settling) + [main |-> 2, irq |-> 1, task |-> 0][pc]

Undisturbed ==
  /\ Enumerating /\ ~WaitsForever
  /\ ~flag /\ pc \in {"irq", "task", "main"}   \* no initialisation is due or under way
  /\ ~condet
  /\ ~(task = WaitReset /\ busrst)              \* the chip is not resetting the bus

(***************************************************************************)
(* An enumeration gets on: every step of the loop brings its end nearer,   *)
(* also with a settle time left over from an earlier one, near the wrap of *)
(* the millisecond count, or with a device that does not answer.           *)
(***************************************************************************)
EnumerationAdvances ==
  [][Undisturbed /\ Undisturbed' /\ pc' # pc => StepsToGo' \in 0 .. StepsToGo - 1]_vars

-----------------------------------------------------------------------------
(***************************************************************************)
(* What the comments say.  transfer.c, the default case of USB_Task:       *)
(* "Should never get here".                                                *)
(***************************************************************************)
NeverHere == pc = "task" => Phase(task) \in Phases \cup {Error}

(***************************************************************************)
(* transfer.c, at the settle state: "waiting for settle timer to expire".  *)
(* So it does expire.                                                      *)
(***************************************************************************)
SettleExpires == task = Settle ~> task # Settle

(***************************************************************************)
(* transfer.c: "Detached state - when nothing is connected to ( or just    *)
(* disconnected from) USB bus".  With a device that stays connected the    *)
(* host does not stay detached.                                            *)
(***************************************************************************)
DetachedMeansNothing == []<>(plugged \notin Kinds \/ ~Detached(task))

(***************************************************************************)
(* main.c: addr = 1, the "hard-wired USB address" that the first report    *)
(* asks for its idle rate and protocol, is the one in use.                 *)
(***************************************************************************)
HardWired == task = Running => hid_addr = 1
=============================================================================
