------------------------------ MODULE Transfer ------------------------------
(***************************************************************************)
(* The transfers of transfer.c, which UsbHost takes for one step that      *)
(* succeeds or fails: a transfer is a sequence of packets, each launched   *)
(* by XferDispatchPkt until it is answered or given up, on a bus that      *)
(* loses tokens, data and acknowledgements.  Data packets alternate        *)
(* between two toggles; the chip expects one, the device sends one, and    *)
(* the firmware saves the expected one from one poll to the next.          *)
(*                                                                         *)
(* An action is one launch with what comes of it.  The device and the chip *)
(* are external: a device hears a token or not, answers or not, and an     *)
(* acknowledgement arrives or not; a packet with the wrong toggle is       *)
(* acknowledged and thrown away, as USB demands.  The chip answers every   *)
(* launch long before the 5 seconds of USB_XFER_TIMEOUT.                   *)
(***************************************************************************)
EXTENDS Integers, Sequences

CONSTANTS
  NakLimit,     \* USB_NAK_LIMIT
  RetryLimit,   \* USB_RETRY_LIMIT
  MaxPackets,   \* of the data stage of a control transfer
  Numbers       \* requests and reports are numbered modulo this

ASSUME TransferAssumption ==
  /\ NakLimit \in Nat /\ NakLimit >= 1
  /\ RetryLimit \in Nat /\ RetryLimit >= 1
  /\ MaxPackets \in Nat /\ MaxPackets >= 1
  /\ Numbers \in Nat /\ Numbers >= 2

VARIABLES
  stage,            \* what the firmware is dispatching
  request,          \* the control request: its number and kind
  naks, retries,    \* nak_count, retry_count
  toggle,           \* the toggle the chip expects
  rcvToggle,        \* devtable[addr].epinfo[1].rcvToggle
  buffer,           \* the data packets received by this control transfer
  config,           \* how far XferSetConf has come
  dctl,             \* the device: its control endpoint
  dtoggle, dreport, \* the device: toggle and report of endpoint 1
  made,             \* the number of the report it makes next
  typed             \* the number of the report main expects next

firmware     == <<stage, request, naks, retries, toggle, rcvToggle, buffer, config>>
keyboard     == <<dctl, dtoggle, dreport, made>>
transferVars == <<firmware, keyboard, typed>>

-----------------------------------------------------------------------------
Ok      == "hrSUCCESS"
Nak     == "hrNAK"
Lost    == "hrTIMEOUT"
Toggled == "hrTOGERR"
Failed  == "another error"

None   == Numbers   \* no report
Flip(t) == 1 - t

\* Requests with a data stage of some packets (0: none), and SET_CONFIGURATION.
Kinds == [packets : 0..MaxPackets, setconf : {FALSE}] \cup [packets : {0}, setconf : {TRUE}]

TransferInit ==
  /\ stage = "idle"
  /\ request = [number |-> 0, kind |-> [packets |-> 0, setconf |-> FALSE]]
  /\ naks = 0 /\ retries = 0 /\ toggle = 0 /\ rcvToggle = 0
  /\ buffer = <<>> /\ config = "none"
  /\ dctl = [request |-> request, acked |-> 0, toggle |-> 1]
  /\ dtoggle = 0 /\ dreport = None /\ made = 0 /\ typed = 0

\* XferDispatchPkt: the same packet is launched again, or the code returned.
Again(code) == \/ code = Nak /\ naks + 1 < NakLimit
               \/ code = Lost /\ retries + 1 < RetryLimit

\* Mutant of Count: one kind of failure sets the count of the other back.
Count_Reset(n, counted) == IF counted THEN n + 1 ELSE 0

Count(n, counted) == IF counted THEN n + 1 ELSE n

\* After the launch: the same stage again, or onward when it went well, or the end.
Dispatched(code, onward) ==
  IF Again(code)
    THEN /\ naks' = Count(naks, code = Nak)
         /\ retries' = Count(retries, code = Lost)
         /\ UNCHANGED stage
    ELSE /\ naks' = 0
         /\ retries' = 0
         /\ stage' = IF code = Ok THEN onward ELSE "idle"

-----------------------------------------------------------------------------
\* XferCtrlReq is called.  XferSetConf only by a probe, once per device, after
\* HID_init has reset the toggle.
Request ==
  /\ stage = "idle"
  /\ \E kind \in Kinds :
       /\ kind.setconf => config = "none"
       /\ request' = [number |-> (request.number + 1) % Numbers, kind |-> kind]
       /\ config' = IF kind.setconf THEN "tried" ELSE config
       /\ rcvToggle' = IF kind.setconf THEN 0 ELSE rcvToggle
  /\ stage' = "setup"
  /\ buffer' = <<>>
  /\ UNCHANGED <<naks, retries, toggle, keyboard, typed>>

\* The SETUP packet; a device that hears it forgets what it was at.
Setup ==
  /\ stage = "setup"
  /\ \E code \in {Ok, Lost, Failed}, reached \in BOOLEAN :
       /\ code = Ok => reached
       /\ dctl' = IF reached THEN [request |-> request, acked |-> 0, toggle |-> 1] ELSE dctl
       /\ Dispatched(code, IF request.kind.packets > 0 THEN "data" ELSE "status")
  /\ toggle' = 1
  /\ UNCHANGED <<request, rcvToggle, buffer, config, dtoggle, dreport, made, typed>>

\* Mutant of LastPacket: the transfer ends one packet early.
LastPacket_Early(k) == k + 1 >= dctl.request.kind.packets

LastPacket(k) == k = dctl.request.kind.packets

\* XferCtrlData, XferInTransfer on endpoint 0: a packet that carries the toggle
\* the chip expects is read; the last one, short or filling nbytes, ends it.
DataArrives ==
  /\ stage = "data"
  /\ dctl.acked < dctl.request.kind.packets
  /\ \E acked \in BOOLEAN :
       dctl' = IF acked THEN [dctl EXCEPT !.acked = @ + 1, !.toggle = Flip(@)] ELSE dctl
  /\ IF dctl.toggle = toggle
       THEN /\ buffer' = Append(buffer, <<dctl.request.number, dctl.acked + 1>>)
            /\ toggle' = Flip(toggle)
            /\ Dispatched(Ok, IF LastPacket(dctl.acked + 1) THEN "status" ELSE "data")
       ELSE /\ Dispatched(Toggled, "idle")
            /\ UNCHANGED <<buffer, toggle>>
  /\ UNCHANGED <<request, rcvToggle, config, dtoggle, dreport, made, typed>>

\* The status stage: XferCtrlND, or the end of XferCtrlData.  The device carries
\* a request out when it hears the token, whether its answer arrives or not.
Status ==
  /\ stage = "status"
  /\ \E code \in {Ok, Nak, Lost, Failed}, reached \in BOOLEAN :
       /\ code = Ok => reached
       /\ dtoggle' = IF reached /\ dctl.request.kind.setconf THEN 0 ELSE dtoggle
       /\ Dispatched(code, "idle")
       /\ config' = IF request.kind.setconf /\ code = Ok THEN "running" ELSE config
  /\ UNCHANGED <<request, toggle, rcvToggle, buffer, dctl, dreport, made, typed>>

-----------------------------------------------------------------------------
\* Mutant of Poll: the toggle is left as the last transfer left it.
Poll_Stale ==
  /\ stage = "idle"
  /\ config = "running"
  /\ stage' = "poll"
  /\ UNCHANGED <<request, naks, retries, toggle, rcvToggle, buffer, config, keyboard, typed>>

\* kbdPoll, or mousePoll: XferInTransfer on endpoint 1 with the toggle saved.
Poll ==
  /\ stage = "idle"
  /\ config = "running"
  /\ stage' = "poll"
  /\ toggle' = rcvToggle
  /\ UNCHANGED <<request, naks, retries, rcvToggle, buffer, config, keyboard, typed>>

\* What main receives when report r arrives, and x is the next it expects.
Typed(x, r) == IF r = x THEN (x + 1) % Numbers ELSE Numbers

ReportArrives ==
  /\ stage = "poll"
  /\ dreport # None
  /\ \E acked \in BOOLEAN :
       /\ dtoggle' = IF acked THEN Flip(dtoggle) ELSE dtoggle
       /\ dreport' = IF acked THEN None ELSE dreport
  /\ IF dtoggle = toggle
       THEN /\ typed' = Typed(typed, dreport)
            /\ toggle' = Flip(toggle)
            /\ rcvToggle' = Flip(toggle)
            /\ Dispatched(Ok, "idle")
       ELSE /\ Dispatched(Toggled, "idle")
            /\ UNCHANGED <<typed, toggle, rcvToggle>>
  /\ UNCHANGED <<request, buffer, config, dctl, made>>

\* An IN packet that brings nothing: the token, or the data, is lost, or the
\* device has nothing to send.
NothingArrives ==
  /\ stage \in {"data", "poll"}
  /\ \E code \in {Nak, Lost, Failed} : Dispatched(code, "idle")
  /\ UNCHANGED <<request, toggle, rcvToggle, buffer, config, keyboard, typed>>

-----------------------------------------------------------------------------
\* The device, once configured, offers a report; it keeps it until acknowledged.
Report ==
  /\ config # "none"
  /\ dreport = None
  /\ dreport' = made
  /\ made' = (made + 1) % Numbers
  /\ UNCHANGED <<firmware, dctl, dtoggle, typed>>

Launch == Setup \/ DataArrives \/ Status \/ ReportArrives \/ NothingArrives

TransferNext == Request \/ Poll \/ Launch \/ Report

\* The firmware does not stop in the middle of a transfer.
TransferSpec == TransferInit /\ [][TransferNext]_transferVars /\ WF_transferVars(Launch)

-----------------------------------------------------------------------------
TransferTypeOK ==
  /\ stage \in {"idle", "setup", "data", "status", "poll"}
  /\ request \in [number : 0 .. Numbers - 1, kind : Kinds]
  /\ naks \in 0 .. NakLimit - 1 /\ retries \in 0 .. RetryLimit - 1
  /\ {toggle, rcvToggle, dtoggle} \subseteq {0, 1}
  /\ Len(buffer) <= MaxPackets
  /\ config \in {"none", "tried", "running"}
  /\ dctl \in [request : [number : 0 .. Numbers - 1, kind : Kinds],
               acked : 0..MaxPackets, toggle : {0, 1}]
  /\ dreport \in 0..Numbers /\ made \in 0 .. Numbers - 1 /\ typed \in 0 .. Numbers - 1

(***************************************************************************)
(* A control transfer that comes to its status stage, without which it     *)
(* does not return 0, has brought what the device answered to this very    *)
(* request, whole and in order, whichever packets and acknowledgements     *)
(* were lost on the way: never a packet twice, nor one of an earlier       *)
(* request.                                                                *)
(***************************************************************************)
AnswerIsWhole ==
  stage = "status" =>
    buffer = [k \in 1..request.kind.packets |-> <<request.number, k>>]

(***************************************************************************)
(* Every report of the keyboard reaches the game once and in the order of  *)
(* the keys, though acknowledgements are lost, polls fail in between, and  *)
(* XferInTransfer returns from an error without saving the toggle: the     *)
(* endpoint is the stream of module Stream.                                *)
(***************************************************************************)
Reports == INSTANCE Stream WITH M <- Numbers, Room <- 1, sent <- made, got <- typed

ReportsOnce == Reports!Spec

\* The packets a transfer still has to get through, the one it is at included.
ToGo ==
  [idle   |-> 0,
   status |-> 1,
   poll   |-> 1,
   data   |-> 1 + request.kind.packets - Len(buffer),
   setup  |-> 2 + request.kind.packets][stage]

\* The launches left to it: a packet has those it takes to come to a limit.
LaunchesLeft == ToGo * (NakLimit + RetryLimit - 1) - (naks + retries)

(***************************************************************************)
(* XferDispatchPkt does not launch for ever: neither a device that only    *)
(* says NAK, nor a bus that loses everything, nor both in turn, makes a    *)
(* transfer of p data packets take more than the limits allow to p + 2.    *)
(***************************************************************************)
LaunchesAreCounted ==
  [][stage # "idle" =>
       \/ UNCHANGED firmware
       \/ LaunchesLeft >= 1 /\ LaunchesLeft' < LaunchesLeft]_transferVars

(***************************************************************************)
(* A transfer ends, whatever the device does: NAKs and losses are counted. *)
(***************************************************************************)
TransferEnds == stage # "idle" ~> stage = "idle"
=============================================================================
