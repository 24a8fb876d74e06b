----------------------------- MODULE MCServices -----------------------------
(***************************************************************************)
(* What the firmware stands on, a part at a time: printing and reading     *)
(* through the JTAG UART, alarms, the list that holds them, file           *)
(* descriptors, register accesses through SPI, USB transfers and the       *)
(* probes of a new device.  They share no state, so a behaviour exercises  *)
(* one part while the others rest.  Each part runs at the pace of its own  *)
(* specification, and every property holds of a part that rests as well.   *)
(***************************************************************************)
EXTENDS JtagUart, Alarms, LList, Files, Spi, Transfer, HidProbe

\* The devices to probe: one or two descriptors before the first interface, up to
\* three behind it, in any order, endpoints and a second interface among them; two
\* without an interface; and the same devices with one length that is 0.
Plain             == [type |-> "other", length |-> 1]
AnInterface(n, p) == [type |-> "interface", number |-> n, protocol |-> p, length |-> 1]
Follows(i) == {Plain, AnInterface(2, "keyboard"),
               [type |-> "endpoint", address |-> i, length |-> 1]}
Tails == {<<>>} \cup {<<x>> : x \in Follows(1)}
           \cup {<<x, y>> : x \in Follows(1), y \in Follows(2)}
           \cup {<<x, y, z>> : x \in Follows(1), y \in Follows(2), z \in Follows(3)}
Sound == {<<>>, <<Plain>>}
           \cup {h \o <<AnInterface(1, p)>> \o t :
                   h \in {<<Plain>>, <<Plain, Plain>>}, p \in Protocols, t \in Tails}

MCConfigurations ==
  {[i \in DOMAIN c |-> IF i = k THEN [c[i] EXCEPT !.length = 0] ELSE c[i]] : c \in Sound, k \in 0..6}

VARIABLE part    \* the part of this behaviour

Parts == {"print", "read", "alarms", "list", "files", "spi", "transfer", "probe"}

Others(p) ==
  /\ p \notin {"print", "read"} => UNCHANGED jtagVars
  /\ p # "alarms"   => UNCHANGED alarmVars
  /\ p # "list"     => UNCHANGED llistVars
  /\ p # "files"    => UNCHANGED fileVars
  /\ p # "spi"      => UNCHANGED spiVars
  /\ p # "transfer" => UNCHANGED transferVars
  /\ p # "probe"    => UNCHANGED probeVars

On(p, step) == part = p /\ step /\ Others(p) /\ UNCHANGED part

\* The two directions of the JTAG UART, one at a time: while the program prints
\* the host types no more than one character, and while it reads it prints none.
Printing == call' # "look" /\ hsent' < 2
Reading  == call' \notin {"space", "drain"}

MCInit ==
  /\ JtagInit /\ AlarmsInit /\ LListInit /\ FilesInit /\ SpiInit /\ TransferInit
  /\ part \in Parts
  /\ ProbeInit
  /\ part # "probe" => conf = <<>> \* one is enough

MCNext ==
  \/ On("print", JtagNext /\ Printing)
  \/ On("read", JtagNext /\ Reading)
  \/ On("alarms", AlarmsNext)
  \/ On("list", LListNext)
  \/ On("files", FilesNext)
  \/ On("spi", SpiNext)
  \/ On("transfer", TransferNext)
  \/ On("probe", ProbeNext)

\* The fairness of each part's own specification.  Of the steps that must go on
\* only Second and a probe are possible in a part that rests.
MCSpec ==
  /\ MCInit
  /\ [][MCNext]_<<part, jtagVars, alarmVars, llistVars, fileVars, spiVars, transferVars,
        probeVars>>
  /\ WF_jtagVars(Driver) /\ WF_jtagVars(Handler)
  /\ WF_jtagVars(part \in {"print", "read"} /\ Second)
  /\ WF_spiVars(SpiStep) /\ WF_spiVars(Core)
  /\ WF_transferVars(Launch)
  /\ WF_probeVars(part = "probe" /\ ProbeNext)

-----------------------------------------------------------------------------
\* Every part keeps its types.
ServicesTypeOK ==
  JtagTypeOK /\ AlarmsTypeOK /\ FilesTypeOK /\ SpiTypeOK /\ TransferTypeOK /\ ProbeTypeOK

(***************************************************************************)
(* Every call comes back: write and close though the cable is pulled out,  *)
(* the interrupt handler, a register access, a transfer whatever the       *)
(* device does, and the probes of a device.                                *)
(***************************************************************************)
CallsEnd == JtagReturns /\ SpiEnds /\ TransferEnds /\ ProbeEnds
=============================================================================
