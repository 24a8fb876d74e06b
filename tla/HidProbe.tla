------------------------------ MODULE HidProbe ------------------------------
(***************************************************************************)
(* The configuration of a device that has its address: USB_Task runs the   *)
(* class probes in the order of their table, and HIDMProbe and HIDKProbe   *)
(* walk the descriptors of the configuration, claim the device and         *)
(* configure it, with a transfer that may fail at four places.  This is    *)
(* what UsbHost takes for one step, Claim or NoDriver.                     *)
(*                                                                         *)
(* A configuration is the sequence of the descriptors that the walk by     *)
(* their own bLength can come to.  The device chooses them, as many as fit *)
(* into 256 bytes, and their lengths: a descriptor of length 0 is one that *)
(* the walk never leaves.  A device that is asked again answers the same,  *)
(* and a transfer that fails may still have reached it.                    *)
(***************************************************************************)
EXTENDS Integers, Sequences

\* Boot interfaces, by protocol, and others.
Protocols == {"keyboard", "mouse", "other"}

\* Descriptors, with the number of places that bLength leads on.
Lengths  == {0, 1}
UsbDescr == [type : {"interface"}, number : Nat, protocol : Protocols, length : Lengths]
              \cup [type : {"endpoint"}, address : Nat, length : Lengths]
              \cup [type : {"other"}, length : Lengths]

CONSTANT Configurations   \* of the devices that may be plugged in

ASSUME ConfigurationsAssumption == Configurations \subseteq Seq(UsbDescr)

VARIABLES
  conf,        \* the device: its configuration
  selected,    \* the device: heard SET_CONFIGURATION
  bootproto,   \* the device: the interfaces that heard SET_PROTOCOL
  driver,      \* the index i of USB_Task's loop
  probe,       \* where the probe is
  at,          \* byte_ptr: the place of a descriptor, or the one behind the last
  devclass,    \* devtable[addr].devclass
  polled,      \* devtable[addr].epinfo[1]: the endpoint to be polled
  interface,   \* hid_device.interface
  failures     \* transfers that failed

probeVars == <<conf, selected, bootproto, driver, probe, at, devclass, polled,
               interface, failures>>

-----------------------------------------------------------------------------
\* ClientDriverTable: MSDProbe and DummyProbe claim nothing.
Drivers    == <<"MSD", "mouse", "keyboard", "dummy">>
ProbeState == {"begin", "walk", "endpoint", "set_conf", "set_proto", "running", "error"}

Nothing == [type |-> "nothing"]

ProbeInit ==
  /\ conf \in Configurations
  /\ selected = FALSE /\ bootproto = {}
  /\ driver = 1 /\ probe = "begin"
  /\ at = 1 /\ devclass = "none" /\ polled = Nothing /\ interface = 0
  /\ failures = 0

\* A probe returns FALSE: the next one, or the error state.
NextDriver ==
  /\ IF driver = Len(Drivers) THEN probe' = "error" /\ UNCHANGED driver
     ELSE probe' = "begin" /\ driver' = driver + 1
  /\ at' = 1

\* A transfer, with what comes of it.
Transferred(ok, then) ==
  IF ok THEN then /\ UNCHANGED <<driver, failures>>
  ELSE NextDriver /\ failures' = failures + 1

-----------------------------------------------------------------------------
NoProbe ==
  /\ probe = "begin"
  /\ Drivers[driver] \notin Protocols
  /\ NextDriver
  /\ UNCHANGED <<conf, selected, bootproto, devclass, polled, interface, failures>>

\* The two calls of XferGetConfDescr.
GetConfDescr ==
  /\ probe = "begin"
  /\ Drivers[driver] \in Protocols
  /\ \E ok \in BOOLEAN : Transferred(ok, probe' = "walk" /\ UNCHANGED at)
  /\ UNCHANGED <<conf, selected, bootproto, devclass, polled, interface>>

\* On by the length that the descriptor gives itself, be it 0.
AtEnd  == at > Len(conf)
WalkOn == at' = at + conf[at].length /\ UNCHANGED <<probe, driver>>

\* The probe takes the device for the interface it has come to.
ClaimHere ==
  /\ devclass' = Drivers[driver]
  /\ interface' = conf[at].number
  /\ at' = at + conf[at].length
  /\ probe' = "endpoint"
  /\ UNCHANGED driver

\* Mutant of Walk: an interface of another kind is passed over.
Walk_Lenient ==
  /\ probe = "walk"
  /\ IF AtEnd THEN NextDriver /\ UNCHANGED <<devclass, interface>>
     ELSE IF conf[at].type = "interface" /\ conf[at].protocol = Drivers[driver] THEN ClaimHere
     ELSE WalkOn /\ UNCHANGED <<devclass, interface>>
  /\ UNCHANGED <<conf, selected, bootproto, polled, failures>>

\* The outer loop: up to the first interface, which decides.
Walk ==
  /\ probe = "walk"
  /\ IF AtEnd THEN NextDriver /\ UNCHANGED <<devclass, interface>>
     ELSE IF conf[at].type # "interface" THEN WalkOn /\ UNCHANGED <<devclass, interface>>
     ELSE IF conf[at].protocol = Drivers[driver] THEN ClaimHere
     ELSE NextDriver /\ UNCHANGED <<devclass, interface>>
  /\ UNCHANGED <<conf, selected, bootproto, polled, failures>>

\* Mutant of FindEndpoint: the search begins with the configuration again.
FindEndpoint_Again ==
  /\ probe = "endpoint"
  /\ IF AtEnd THEN at' = 1 /\ UNCHANGED <<probe, driver, polled>>
     ELSE IF conf[at].type # "endpoint" THEN WalkOn /\ UNCHANGED polled
     ELSE polled' = conf[at] /\ probe' = "set_conf" /\ UNCHANGED <<at, driver>>
  /\ UNCHANGED <<conf, selected, bootproto, devclass, interface, failures>>

\* The inner loop: up to the first endpoint.
FindEndpoint ==
  /\ probe = "endpoint"
  /\ IF AtEnd THEN NextDriver /\ UNCHANGED polled
     ELSE IF conf[at].type # "endpoint" THEN WalkOn /\ UNCHANGED polled
     ELSE polled' = conf[at] /\ probe' = "set_conf" /\ UNCHANGED <<at, driver>>
  /\ UNCHANGED <<conf, selected, bootproto, devclass, interface, failures>>

SetConf ==
  /\ probe = "set_conf"
  /\ \E ok \in BOOLEAN, reached \in BOOLEAN :
       /\ ok => reached
       /\ selected' = (selected \/ reached)
       /\ Transferred(ok, probe' = "set_proto" /\ UNCHANGED at)
  /\ UNCHANGED <<conf, bootproto, devclass, polled, interface>>

SetProto ==
  /\ probe = "set_proto"
  /\ \E ok \in BOOLEAN, reached \in BOOLEAN :
       /\ ok => reached
       /\ bootproto' = IF reached THEN bootproto \cup {interface} ELSE bootproto
       /\ Transferred(ok, probe' = "running" /\ UNCHANGED at)
  /\ UNCHANGED <<conf, selected, devclass, polled, interface>>

ProbeNext == NoProbe \/ GetConfDescr \/ Walk \/ FindEndpoint \/ SetConf \/ SetProto

ProbeSpec == ProbeInit /\ [][ProbeNext]_probeVars /\ WF_probeVars(ProbeNext)

-----------------------------------------------------------------------------
ProbeTypeOK ==
  /\ conf \in Seq(UsbDescr)
  /\ selected \in BOOLEAN /\ bootproto \subseteq Nat
  /\ driver \in DOMAIN Drivers /\ probe \in ProbeState
  /\ at \in 1 .. Len(conf) + 1
  /\ devclass \in {"none", "mouse", "keyboard"}
  /\ polled.type \in {"nothing", "endpoint"}
  /\ interface \in Nat /\ failures \in 0 .. Len(Drivers)

\* The interface that decides, and the endpoint polled for it: its own, if it
\* has one.
FirstInterface(f) ==
  /\ f \in DOMAIN conf /\ conf[f].type = "interface"
  /\ \A i \in 1 .. f - 1 : conf[i].type # "interface"

FirstEndpoint(f, e) ==
  /\ e \in DOMAIN conf /\ e > f /\ conf[e].type = "endpoint"
  /\ \A i \in f + 1 .. e - 1 : conf[i].type # "endpoint"

\* A device the drivers can run.
Bootable == \E f, e \in DOMAIN conf :
  /\ FirstInterface(f) /\ conf[f].protocol # "other"
  /\ FirstEndpoint(f, e)

(***************************************************************************)
(* A device runs as what its first interface is, configured, with that     *)
(* interface in the boot protocol and the first endpoint behind it polled, *)
(* whatever failed before, however many interfaces it has and whatever     *)
(* stands between; and a boot device ends in error only when a transfer    *)
(* failed.                                                                 *)
(***************************************************************************)
ProbeIsRight ==
  /\ probe = "running" => \E f, e \in DOMAIN conf :
       /\ FirstInterface(f) /\ FirstEndpoint(f, e)
       /\ devclass = conf[f].protocol /\ interface = conf[f].number
       /\ selected /\ interface \in bootproto
       /\ polled = conf[e]
  /\ probe = "error" => failures > 0 \/ ~Bootable

\* The host as UsbHost sees it while this goes on, in a slot of its own.
Done    == probe \in {"running", "error"}
HasRun  == Done /\ devclass # "none"
ClassOf == [none |-> 0, keyboard |-> 1, mouse |-> 2]

\* The kind of device UsbHost has plugged in: that of its first interface.
Kind == CHOOSE p \in Protocols :
  \/ \E f \in DOMAIN conf : FirstInterface(f) /\ p = conf[f].protocol
  \/ p = "other" /\ \A i \in DOMAIN conf : conf[i].type # "interface"

Host == INSTANCE UsbHost WITH
  NumDevices <- 2, Keys <- {0}, Reports <- {0}, WrapMs <- 1, SettleMs <- 0,
  pc <- IF Done THEN "main" ELSE "task",
  task <- IF probe = "running" THEN 64 ELSE IF probe = "error" THEN 255 ELSE 48,
  table <- [i \in {1} |-> [ep |-> IF HasRun THEN "hid_ep" ELSE "dev0ep",
                           class |-> IF HasRun THEN ClassOf[devclass] ELSE 0]],
  tmp_addr <- 1, hid_addr <- IF HasRun THEN 1 ELSE 0,
  usb_delay <- 0, now <- 0, flag <- FALSE, device <- 255, keycode <- 0, event <- FALSE,
  condet <- FALSE, busevent <- FALSE, busrst <- FALSE,
  plugged <- Kind, devaddr <- 1

\* For each driver: the configuration is got, a step at each descriptor and one
\* behind the last, and two transfers.
DriverSteps == Len(conf) + 4
ToWalk      == Len(conf) + 1 - at

ProbeStepsLeft ==
  IF Done THEN 0
  ELSE DriverSteps * (Len(Drivers) - driver) +
         [begin    |-> DriverSteps, walk      |-> ToWalk + 3, endpoint |-> ToWalk + 2,
          set_conf |-> 2,           set_proto |-> 1][probe]

(***************************************************************************)
(* The probes together are the one step UsbHost takes for them: claim the  *)
(* device for the class it has, whether it is then configured or not, or   *)
(* find no driver and leave the slot as it was.  Whatever lengths the      *)
(* descriptors give themselves and whichever transfers fail, no walk goes  *)
(* back: a driver takes no more steps than the configuration has           *)
(* descriptors, and four more.  It may take fewer and yet never be done:   *)
(* at a descriptor of length 0 the walk takes none any more.               *)
(***************************************************************************)
ProbeIsOneStep ==
  /\ [][Host!Claim \/ Host!NoDriver]_(Host!vars)
  /\ [][ProbeStepsLeft' \in 0 .. ProbeStepsLeft - 1]_probeVars

\* The walk has come to a descriptor of length 0 that it is not looking for.
Stays ==
  /\ ~AtEnd /\ conf[at].length = 0
  /\ \/ probe = "walk" /\ conf[at].type # "interface"
     \/ probe = "endpoint" /\ conf[at].type # "endpoint"

\* Once begun, the loop ends, in either way, or the walk stays where it is for ever.
ProbeEnds == driver > 1 ~> Done \/ Stays
=============================================================================
