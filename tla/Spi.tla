-------------------------------- MODULE Spi --------------------------------
(***************************************************************************)
(* A register access of the firmware: the functions MAXreg_wr, MAXbytes_wr,*)
(* MAXreg_rd and MAXbytes_rd of MAX3421E.c on the loop of                  *)
(* alt_avalon_spi_command, which feeds a shift register byte by byte and   *)
(* takes a byte back for each.  The SPI core runs beside the loop: it has  *)
(* one register for the next byte and one for the last one received, and   *)
(* overwrites the latter.                                                  *)
(*                                                                         *)
(* A byte is its place among those sent while the chip is selected; the    *)
(* chip answers its k-th byte with k.                                      *)
(***************************************************************************)
EXTENDS Integers

CONSTANT MaxBytes   \* the largest block read or written

ASSUME BytesAssumption == MaxBytes \in Nat /\ MaxBytes >= 1

VARIABLES
  spi,                      \* where alt_avalon_spi_command is
  towrite, write_zeros,     \* bytes and zeros still to be sent
  read_ignore, toread,      \* answers still to be skipped and to be kept
  credits,                  \* bytes that may be sent before one comes back
  status,                   \* the TRDY and RRDY bits it has read
  merge,                    \* the flag MERGE: keep the chip selected
  second,                   \* bytes of the second command of this access
  place, awaited,               \* the last byte sent; the next answer expected
  sso, txdata, shift, rxdata,   \* the SPI core; 0: the register is empty
  heard,                    \* the chip: bytes heard since it was selected
  garbled                   \* a byte was lost, or came out of place

command == <<spi, towrite, write_zeros, read_ignore, toread, credits, status,
             merge, second, place, awaited>>
core    == <<sso, txdata, shift, rxdata>>
spiVars == <<command, core, heard, garbled>>

-----------------------------------------------------------------------------
NoStatus == [trdy |-> FALSE, rrdy |-> FALSE]

SpiInit ==
  /\ spi = "idle"
  /\ towrite = 0 /\ write_zeros = 0 /\ read_ignore = 0 /\ toread = 0
  /\ credits = 0 /\ status = NoStatus /\ merge = FALSE /\ second = 0
  /\ place = 0 /\ awaited = 1
  /\ sso = FALSE /\ txdata = 0 /\ shift = 0 /\ rxdata = 0
  /\ heard = 0 /\ garbled = FALSE

\* Mutant of Credits: as many as the hardware has registers.
Credits_Two == 2

Credits == 1

\* alt_avalon_spi_command, up to its loop: w bytes are written, then r read.
Command(w, r, m) ==
  /\ towrite' = w /\ read_ignore' = w
  /\ write_zeros' = r /\ toread' = r
  /\ merge' = m
  /\ credits' = Credits
  /\ spi' = "status"
  /\ sso' = TRUE
  /\ rxdata' = 0
  /\ UNCHANGED <<status, place, awaited, txdata, shift, heard, garbled>>

\* MAXreg_wr and MAXbytes_wr: the register, then n bytes, in one selection.  The
\* callers write at least one byte; a command without any would never end.
WriteRegister == \E n \in 1..MaxBytes :
  /\ spi = "idle" /\ ~sso
  /\ Command(1, 0, TRUE)
  /\ second' = n

WriteBytes ==
  /\ spi = "idle" /\ sso
  /\ Command(second, 0, FALSE)
  /\ second' = 0

\* MAXreg_rd and MAXbytes_rd, which reads no byte of an empty packet.
ReadRegister == \E n \in 0..MaxBytes :
  /\ spi = "idle" /\ ~sso
  /\ Command(1, n, FALSE)
  /\ second' = 0

ReadStatus ==
  /\ spi = "status"
  /\ (txdata = 0 /\ credits # 0) \/ rxdata # 0
  /\ status' = [trdy |-> txdata = 0, rrdy |-> rxdata # 0]
  /\ spi' = "send"
  /\ UNCHANGED <<towrite, write_zeros, read_ignore, toread, credits, merge, second,
                 place, awaited, core, heard, garbled>>

SendByte ==
  /\ spi = "send"
  /\ spi' = "receive"
  /\ IF status.trdy /\ credits > 0
       THEN IF towrite + write_zeros > 0
              THEN /\ credits' = credits - 1
                   /\ place' = place + 1
                   /\ txdata' = place + 1
                   /\ towrite' = IF towrite > 0 THEN towrite - 1 ELSE 0
                   /\ write_zeros' = IF towrite > 0 THEN write_zeros ELSE write_zeros - 1
              ELSE /\ credits' = -1024
                   /\ UNCHANGED <<place, txdata, towrite, write_zeros>>
       ELSE UNCHANGED <<credits, place, txdata, towrite, write_zeros>>
  /\ UNCHANGED <<read_ignore, toread, status, merge, second, awaited, sso, shift,
                 rxdata, heard, garbled>>

\* Mutant of CreditBack: it belongs to the else branch, as a missing brace would have it.
CreditBack_Else == IF read_ignore > 0 THEN credits ELSE credits + 1

CreditBack == credits + 1

ReceiveByte ==
  /\ spi = "receive"
  /\ status' = NoStatus
  /\ IF status.rrdy
       THEN /\ rxdata' = 0
            /\ awaited' = awaited + 1
            /\ garbled' = (garbled \/ rxdata # awaited)
            /\ read_ignore' = IF read_ignore > 0 THEN read_ignore - 1 ELSE 0
            /\ toread' = IF read_ignore > 0 THEN toread ELSE toread - 1
            /\ credits' = CreditBack
            /\ spi' = IF read_ignore' + toread' = 0 THEN "finish" ELSE "status"
       ELSE /\ spi' = "status"
            /\ UNCHANGED <<rxdata, awaited, garbled, read_ignore, toread, credits>>
  /\ UNCHANGED <<towrite, write_zeros, merge, second, place, sso, txdata, shift, heard>>

\* The wait for TMT; without MERGE the chip is then released.
Finish ==
  /\ spi = "finish"
  /\ txdata = 0 /\ shift = 0
  /\ spi' = "idle"
  /\ credits' = 0
  /\ sso' = merge
  /\ IF merge THEN UNCHANGED <<place, awaited, heard>> ELSE place' = 0 /\ awaited' = 1 /\ heard' = 0
  /\ UNCHANGED <<towrite, write_zeros, read_ignore, toread, status, merge, second,
                 txdata, shift, rxdata, garbled>>

-----------------------------------------------------------------------------
\* The core loads its shift register, and later has exchanged the byte.
Load ==
  /\ txdata # 0 /\ shift = 0
  /\ shift' = txdata
  /\ txdata' = 0
  /\ UNCHANGED <<command, sso, rxdata, heard, garbled>>

Exchange ==
  /\ shift # 0
  /\ shift' = 0
  /\ heard' = heard + 1
  /\ rxdata' = heard + 1
  /\ garbled' = (garbled \/ ~sso \/ shift # heard + 1 \/ rxdata # 0)
  /\ UNCHANGED <<command, sso, txdata>>

Access3421 == WriteRegister \/ ReadRegister
SpiStep    == WriteBytes \/ ReadStatus \/ SendByte \/ ReceiveByte \/ Finish
Core       == Load \/ Exchange

SpiNext == Access3421 \/ SpiStep \/ Core

\* The processor runs and so does the core.
SpiSpec == SpiInit /\ [][SpiNext]_spiVars /\ WF_spiVars(SpiStep) /\ WF_spiVars(Core)

-----------------------------------------------------------------------------
SpiTypeOK ==
  /\ spi \in {"idle", "status", "send", "receive", "finish"}
  /\ {towrite, write_zeros, read_ignore, toread, second} \subseteq 0..MaxBytes
  /\ credits \in {-1024} \cup 0..2
  /\ status \in [trdy : BOOLEAN, rrdy : BOOLEAN]
  /\ {merge, sso, garbled} \subseteq BOOLEAN
  /\ {place, txdata, shift, rxdata, heard} \subseteq 0 .. MaxBytes + 1
  /\ awaited \in 1 .. MaxBytes + 2

(***************************************************************************)
(* Every byte goes out, and every answer comes in, in its place, however   *)
(* fast the core is: none is overwritten before it is read, none is left   *)
(* over for the next command, and the chip stays selected from the         *)
(* register number to the last byte.                                       *)
(***************************************************************************)
SpiInStep ==
  /\ ~garbled
  /\ spi = "idle" => heard = place /\ awaited = place + 1 /\ rxdata = 0

\* Bytes still to be sent, and answers still to be taken.
ToSend == towrite + write_zeros
ToTake == read_ignore + toread

\* Where the byte is that is on its way, counted back from the loop that takes it.
Flight == IF txdata # 0 THEN 3 ELSE IF shift # 0 THEN 2 ELSE IF rxdata # 0 THEN 1 ELSE 0

\* The steps, of the loop and of the core, that an access may still take: up to
\* ten for each answer, and as many to begin the second command.
SpiStepsLeft ==
  10 * (ToTake + (IF merge THEN second + 1 ELSE 0)) +
    [idle    |-> 0,
     finish  |-> 1,
     status  |-> IF Flight = 0 THEN 9 ELSE 2 + Flight,
     send    |-> IF Flight = 0 THEN 8 ELSE 2,
     receive |-> IF status.rrdy THEN 1 ELSE 4 + Flight][spi]

(***************************************************************************)
(* alt_avalon_spi_command waits for a status that comes: with no credit    *)
(* left a byte is on its way; and every step of the loop, or of the core   *)
(* under it, brings the end of the access nearer.                          *)
(***************************************************************************)
SpiComesNearer ==
  /\ [](spi = "status" => credits # 0 \/ Flight # 0)
  /\ [][spi # "idle" \/ sso => SpiStepsLeft' \in 0 .. SpiStepsLeft - 1]_spiVars

\* A register access comes to an end.
SpiEnds == spi # "idle" ~> spi = "idle" /\ ~sso
=============================================================================
