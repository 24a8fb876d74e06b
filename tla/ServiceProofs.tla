--------------------------- MODULE ServiceProofs ---------------------------
(***************************************************************************)
(* What the keyboard stands on, for every value of the constants: a        *)
(* register access through SPI loses no byte, the transfers of module      *)
(* Transfer bring answers that are whole and reports that come once and in *)
(* order, and the probes configure a device as what it is.  Each module    *)
(* has an inductive invariant of its own, SpiIInv, TransferIInv and        *)
(* ProbeIInv, with a lemma for each operation.  Under it every step of a   *)
(* register access, of a transfer and of the probes makes less what is     *)
(* left of it, and the probes of a device are the one step that module     *)
(* UsbHost takes for them.  The last section is about MCServices: what     *)
(* holds of each part holds in the composition, and every part keeps its   *)
(* types.                                                                  *)
(***************************************************************************)
EXTENDS MCServices, JtagProofs, HalProofs, TLAPS

-----------------------------------------------------------------------------
\* Spi.
USE BytesAssumption DEF BytesAssumption

(***************************************************************************)
(* The inductive invariant of Spi.  With one credit at most one byte is    *)
(* on its way, and it is in exactly one register; as many answers are      *)
(* still to be taken as bytes are to be sent, and one more if one is on    *)
(* its way, so the loop ends with none on its way and none left over.      *)
(***************************************************************************)
Quiet ==
  /\ txdata = 0 /\ shift = 0 /\ rxdata = 0
  /\ heard = place /\ awaited = place + 1

OnItsWay ==
  /\ place >= 1 /\ awaited = place
  /\ \/ txdata = place /\ shift = 0 /\ rxdata = 0 /\ heard = place - 1
     \/ txdata = 0 /\ shift = place /\ rxdata = 0 /\ heard = place - 1
     \/ txdata = 0 /\ shift = 0 /\ rxdata = place /\ heard = place

SpiCounters ==
  /\ {towrite, write_zeros, read_ignore, toread, second} \subseteq 0..MaxBytes
  /\ place \in Nat
  /\ place + ToSend + (IF merge THEN second ELSE 0) <= MaxBytes + 1
  /\ merge => second >= 1

SpiIInv ==
  /\ SpiCounters
  /\ status \in [trdy : BOOLEAN, rrdy : BOOLEAN]
  /\ merge \in BOOLEAN /\ sso \in BOOLEAN /\ garbled = FALSE
  /\ \/ /\ spi = "idle" /\ Quiet /\ credits = 0
        /\ sso = merge /\ (~sso => place = 0) /\ ToSend = 0
     \/ /\ spi = "finish" /\ Quiet /\ credits = 1
        /\ sso /\ ToSend = 0
     \/ /\ spi \in {"status", "send", "receive"} /\ sso
        /\ \/ Quiet /\ credits = 1 /\ ToSend >= 1 /\ ToTake = ToSend
           \/ OnItsWay /\ credits = 0 /\ ToTake = ToSend + 1
        /\ spi # "status" /\ status.rrdy => rxdata # 0

LEMMA SpiInitInv == SpiInit => SpiIInv
<1> SUFFICES ASSUME SpiInit PROVE SpiIInv
  OBVIOUS
<1>1. ToSend = 0 /\ SpiCounters
  BY DEF SpiInit, SpiCounters, ToSend
<1>2. Quiet /\ status \in [trdy : BOOLEAN, rrdy : BOOLEAN]
  BY DEF SpiInit, Quiet, NoStatus
<1> QED BY <1>1, <1>2 DEF SpiInit, SpiIInv

\* What the counters say, spelled out.
LEMMA SpiNumbers ==
  ASSUME SpiIInv
  PROVE  /\ towrite \in Nat /\ write_zeros \in Nat /\ read_ignore \in Nat /\ toread \in Nat
         /\ second \in Nat /\ place \in Nat
         /\ towrite <= MaxBytes /\ write_zeros <= MaxBytes /\ read_ignore <= MaxBytes
         /\ toread <= MaxBytes /\ second <= MaxBytes
BY DEF SpiIInv, SpiCounters

\* What Command does, whatever its last argument.
Begun(w, r) ==
  /\ towrite' = w /\ read_ignore' = w /\ write_zeros' = r /\ toread' = r
  /\ credits' = Credits /\ spi' = "status" /\ sso' = TRUE /\ rxdata' = 0
  /\ UNCHANGED <<status, place, awaited, txdata, shift, heard, garbled>>

\* A command starts with nothing on its way.
LEMMA SpiCommandStep ==
  ASSUME SpiIInv, spi = "idle", NEW w \in 0..MaxBytes, NEW r \in 0..MaxBytes, w + r >= 1,
         Begun(w, r), merge' \in BOOLEAN, second' \in 0..MaxBytes,
         merge' => second' >= 1,
         place + w + r + (IF merge' THEN second' ELSE 0) <= MaxBytes + 1
  PROVE  SpiIInv'
<1>1. /\ ToSend' = w + r /\ ToTake' = w + r
      /\ spi' = "status" /\ sso' = TRUE /\ credits' = 1
      /\ status' = status /\ garbled' = garbled /\ place' = place
  BY DEF Begun, Credits, ToSend, ToTake
<1>2. {towrite', write_zeros', read_ignore', toread', second'} \subseteq 0..MaxBytes
  BY DEF Begun
<1>3. SpiCounters'
  BY <1>1, <1>2, SpiNumbers DEF SpiCounters
<1>4. Quiet'
  BY DEF Begun, Quiet, SpiIInv
<1> QED BY <1>1, <1>3, <1>4 DEF SpiIInv

LEMMA SpiAccessStep ==
  ASSUME SpiIInv, Access3421 \/ WriteBytes
  PROVE  SpiIInv'
<1>2. CASE WriteRegister
  <2>1. PICK n \in 1..MaxBytes : spi = "idle" /\ ~sso /\ Command(1, 0, TRUE) /\ second' = n
    BY <1>2 DEF WriteRegister
  <2>2. place = 0 /\ merge' = TRUE /\ Begun(1, 0)
    BY <2>1 DEF SpiIInv, Command, Begun
  <2> QED BY <2>1, <2>2, SpiCommandStep
<1>3. CASE ReadRegister
  <2>1. PICK n \in 0..MaxBytes : spi = "idle" /\ ~sso /\ Command(1, n, FALSE) /\ second' = 0
    BY <1>3 DEF ReadRegister
  <2>2. place = 0 /\ merge' = FALSE /\ Begun(1, n)
    BY <2>1 DEF SpiIInv, Command, Begun
  <2>3. /\ n \in 0..MaxBytes /\ 1 \in 0..MaxBytes /\ 1 + n >= 1
        /\ place + 1 + n + (IF merge' THEN second' ELSE 0) <= MaxBytes + 1
    BY <2>2
  <2>4. merge' \in BOOLEAN /\ (merge' => second' >= 1)
    BY <2>2, Zenon
  <2>5. second' \in 0..MaxBytes
    BY <2>1
  <2> QED BY <2>1, <2>2, <2>3, <2>4, <2>5, SpiCommandStep
<1>4. CASE WriteBytes
  <2>1. spi = "idle" /\ sso /\ Command(second, 0, FALSE) /\ second' = 0
    BY <1>4 DEF WriteBytes
  <2>2. merge /\ ToSend = 0 /\ merge' = FALSE /\ Begun(second, 0)
    BY <2>1 DEF SpiIInv, Command, Begun
  <2>3. second \in 1..MaxBytes /\ place + second <= MaxBytes + 1
    BY <2>2, SpiNumbers DEF SpiIInv, SpiCounters
  <2>4. /\ second \in 0..MaxBytes /\ 0 \in 0..MaxBytes /\ second + 0 >= 1
        /\ place + second + 0 + (IF merge' THEN second' ELSE 0) <= MaxBytes + 1
    BY <2>2, <2>3, SpiNumbers
  <2>5. merge' \in BOOLEAN /\ (merge' => second' >= 1)
    BY <2>2, Zenon
  <2>6. second' \in 0..MaxBytes
    BY <2>1
  <2> QED BY <2>1, <2>2, <2>4, <2>5, <2>6, SpiCommandStep
<1> QED BY <1>2, <1>3, <1>4 DEF Access3421

\* The status says that an answer waits only if one does.
LEMMA SpiStatusStep ==
  ASSUME SpiIInv, ReadStatus
  PROVE  SpiIInv'
<1>1. SpiCounters'
  BY DEF SpiIInv, ReadStatus, SpiCounters, ToSend
<1>2. status' \in [trdy : BOOLEAN, rrdy : BOOLEAN] /\ (status'.rrdy => rxdata # 0)
  BY DEF ReadStatus
<1>3. ToSend' = ToSend /\ ToTake' = ToTake
  BY DEF ReadStatus, ToSend, ToTake
<1> QED BY <1>1, <1>2, <1>3 DEF SpiIInv, ReadStatus, Quiet, OnItsWay, core

\* The credit, spent, puts a byte on its way; with none left nothing is sent.
LEMMA SpiSendStep ==
  ASSUME SpiIInv, SendByte
  PROVE  SpiIInv'
<1>1. /\ spi = "send" /\ spi' = "receive" /\ sso
      /\ status' = status /\ merge' = merge /\ second' = second /\ garbled' = garbled
      /\ sso' = sso /\ shift' = shift /\ rxdata' = rxdata /\ heard' = heard
      /\ awaited' = awaited /\ read_ignore' = read_ignore /\ toread' = toread
  BY DEF SpiIInv, SendByte
<1>2. CASE status.trdy /\ credits > 0
  <2>1. Quiet /\ credits = 1 /\ ToSend >= 1 /\ ToTake = ToSend
    BY <1>1, <1>2 DEF SpiIInv
  <2>2. /\ credits' = 0 /\ place' = place + 1 /\ txdata' = place + 1
        /\ towrite' = (IF towrite > 0 THEN towrite - 1 ELSE 0)
        /\ write_zeros' = (IF towrite > 0 THEN write_zeros ELSE write_zeros - 1)
    BY <1>2, <2>1 DEF SendByte, ToSend
  <2>3. ToSend' = ToSend - 1 /\ towrite' \in 0..MaxBytes /\ write_zeros' \in 0..MaxBytes
    BY <2>1, <2>2, SpiNumbers DEF ToSend
  <2>4. ToTake' = ToSend' + 1
    BY <1>1, <2>1, <2>3, SpiNumbers DEF ToTake, ToSend
  <2>5. SpiCounters'
    BY <1>1, <2>1, <2>2, <2>3, SpiNumbers DEF SpiIInv, SpiCounters, ToSend
  <2>6. OnItsWay'
    BY <1>1, <2>1, <2>2, SpiNumbers DEF OnItsWay, Quiet
  <2>7. ~status.rrdy
    BY <1>1, <2>1 DEF SpiIInv, Quiet
  <2> QED BY <1>1, <2>2, <2>4, <2>5, <2>6, <2>7 DEF SpiIInv
<1>3. CASE ~(status.trdy /\ credits > 0)
  <2>1. UNCHANGED <<credits, place, txdata, towrite, write_zeros>>
    BY <1>3 DEF SendByte
  <2>2. ToSend' = ToSend /\ ToTake' = ToTake
    BY <1>1, <2>1 DEF ToSend, ToTake
  <2>3. SpiCounters'
    BY <1>1, <2>1 DEF SpiIInv, SpiCounters, ToSend
  <2> QED BY <1>1, <2>1, <2>2, <2>3 DEF SpiIInv, Quiet, OnItsWay
<1> QED BY <1>2, <1>3

\* The answer that comes back is the one awaited, and returns the credit.
LEMMA SpiReceiveStep ==
  ASSUME SpiIInv, ReceiveByte
  PROVE  SpiIInv'
<1>1. /\ spi = "receive" /\ sso /\ status' = NoStatus
      /\ towrite' = towrite /\ write_zeros' = write_zeros /\ merge' = merge
      /\ second' = second /\ place' = place /\ sso' = sso /\ txdata' = txdata
      /\ shift' = shift /\ heard' = heard
  BY DEF SpiIInv, ReceiveByte, CreditBack
<1>2. ToSend' = ToSend /\ status' \in [trdy : BOOLEAN, rrdy : BOOLEAN]
  BY <1>1 DEF ToSend, NoStatus
<1>3. CASE status.rrdy
  <2>1. rxdata # 0 /\ OnItsWay /\ credits = 0 /\ ToTake = ToSend + 1
    BY <1>1, <1>3 DEF SpiIInv, Quiet
  <2>2. /\ rxdata' = 0 /\ awaited' = awaited + 1
        /\ garbled' = (garbled \/ rxdata # awaited)
        /\ read_ignore' = (IF read_ignore > 0 THEN read_ignore - 1 ELSE 0)
        /\ toread' = (IF read_ignore > 0 THEN toread ELSE toread - 1)
        /\ credits' = credits + 1
        /\ spi' = IF read_ignore' + toread' = 0 THEN "finish" ELSE "status"
    BY <1>3 DEF ReceiveByte, CreditBack
  <2>3. Quiet' /\ garbled' = FALSE
    BY <1>1, <2>1, <2>2, SpiNumbers DEF OnItsWay, Quiet, SpiIInv
  <2>4. /\ ToTake' = ToTake - 1
        /\ read_ignore' \in 0..MaxBytes /\ toread' \in 0..MaxBytes
    BY <2>1, <2>2, SpiNumbers DEF ToTake, ToSend
  <2>5. SpiCounters'
    BY <1>1, <1>2, <2>4 DEF SpiIInv, SpiCounters
  <2>6. ToTake' = ToSend' /\ ToSend' \in Nat /\ credits' = 1
    BY <1>2, <2>1, <2>2, <2>4, SpiNumbers DEF ToSend, ToTake
  <2>7. spi' = IF ToTake' = 0 THEN "finish" ELSE "status"
    BY <2>2 DEF ToTake
  <2> QED BY <1>1, <1>2, <2>3, <2>5, <2>6, <2>7 DEF SpiIInv
<1>4. CASE ~status.rrdy
  <2>1. spi' = "status" /\ UNCHANGED <<rxdata, awaited, garbled, read_ignore, toread, credits>>
    BY <1>4 DEF ReceiveByte, CreditBack
  <2>2. ToTake' = ToTake /\ SpiCounters'
    BY <1>1, <1>2, <2>1 DEF ToTake, SpiIInv, SpiCounters
  <2> QED BY <1>1, <1>2, <2>1, <2>2 DEF SpiIInv, Quiet, OnItsWay
<1> QED BY <1>3, <1>4

\* The chip is released only if no second command follows.
LEMMA SpiFinishStep ==
  ASSUME SpiIInv, Finish
  PROVE  SpiIInv'
<1>1. /\ spi = "finish" /\ Quiet /\ ToSend = 0 /\ spi' = "idle" /\ credits' = 0
      /\ sso' = merge /\ merge' = merge /\ second' = second /\ status' = status
      /\ garbled' = garbled /\ txdata' = txdata /\ shift' = shift /\ rxdata' = rxdata
      /\ towrite' = towrite /\ write_zeros' = write_zeros
      /\ read_ignore' = read_ignore /\ toread' = toread
  BY DEF SpiIInv, Finish
<1>2. ToSend' = ToSend
  BY <1>1 DEF ToSend
<1>3. CASE merge
  <2>1. place' = place /\ awaited' = awaited /\ heard' = heard
    BY <1>3 DEF Finish
  <2> QED BY <1>1, <1>2, <1>3, <2>1 DEF SpiIInv, SpiCounters, Quiet
<1>4. CASE ~merge
  <2>1. place' = 0 /\ awaited' = 1 /\ heard' = 0
    BY <1>4 DEF Finish
  <2>2. SpiCounters'
    BY <1>1, <1>2, <1>4, <2>1 DEF SpiIInv, SpiCounters
  <2> QED BY <1>1, <1>2, <1>4, <2>1, <2>2 DEF SpiIInv, Quiet
<1> QED BY <1>3, <1>4

\* The core moves the byte from one register to the next, and loses none.
LEMMA SpiCoreStep ==
  ASSUME SpiIInv, Core
  PROVE  SpiIInv'
<1>1. /\ UNCHANGED command /\ sso' = sso /\ place \in Nat
      /\ place' = place /\ awaited' = awaited
  BY SpiNumbers DEF Core, Load, Exchange, command
<1>2. OnItsWay /\ sso /\ spi \in {"status", "send", "receive"}
  BY DEF Core, Load, Exchange, SpiIInv, Quiet
<1>3. SpiCounters' /\ ToSend' = ToSend /\ ToTake' = ToTake
  BY <1>1 DEF SpiIInv, SpiCounters, ToSend, ToTake, command
<1>4. OnItsWay' /\ garbled' = garbled /\ (rxdata # 0 => rxdata' # 0)
  <2>1. CASE Load
    <3>1. /\ txdata = place /\ shift = 0 /\ rxdata = 0 /\ heard = place - 1
          /\ awaited = place /\ place >= 1
      BY <1>1, <1>2, <2>1 DEF Load, OnItsWay
    <3>2. /\ shift' = place /\ txdata' = 0 /\ heard' = heard /\ rxdata' = 0
          /\ garbled' = garbled
      BY <2>1, <3>1 DEF Load
    <3> QED BY <1>1, <3>1, <3>2 DEF OnItsWay
  <2>2. CASE Exchange
    <3>1. /\ shift = place /\ rxdata = 0 /\ heard = place - 1 /\ txdata = 0
          /\ awaited = place /\ place >= 1
      BY <1>1, <1>2, <2>2 DEF Exchange, OnItsWay
    <3>2. heard + 1 = place /\ rxdata' = heard + 1 /\ heard' = heard + 1
          /\ shift' = 0 /\ txdata' = txdata
      BY <1>1, <2>2, <3>1 DEF Exchange
    <3>3. garbled' = (garbled \/ ~sso \/ shift # heard + 1 \/ rxdata # 0)
      BY <2>2 DEF Exchange
    <3>4. garbled = FALSE
      BY DEF SpiIInv
    <3>5. garbled' = garbled
      BY <1>2, <3>1, <3>2, <3>3, <3>4, Zenon
    <3>6. /\ shift' = 0 /\ heard' = place /\ rxdata' = place /\ txdata' = 0
      BY <3>1, <3>2
    <3> QED BY <1>1, <3>1, <3>5, <3>6 DEF OnItsWay
  <2> QED BY <2>1, <2>2 DEF Core
<1>5. credits = 0 /\ ToTake = ToSend + 1 /\ (spi # "status" /\ status.rrdy => rxdata # 0)
  <2>1. ~Quiet
    BY DEF Core, Load, Exchange, Quiet
  <2> QED BY <1>2, <2>1 DEF SpiIInv
<1>6. /\ spi' = spi /\ credits' = credits /\ status' = status /\ merge' = merge
  BY <1>1 DEF command
<1>7. status \in [trdy : BOOLEAN, rrdy : BOOLEAN] /\ merge \in BOOLEAN /\ sso \in BOOLEAN
      /\ garbled = FALSE
  BY DEF SpiIInv
<1> QED BY <1>1, <1>2, <1>3, <1>4, <1>5, <1>6, <1>7 DEF SpiIInv

\* SpiIInv is inductive.
LEMMA SpiNextInv == SpiIInv /\ [SpiNext]_spiVars => SpiIInv'
<1> SUFFICES ASSUME SpiIInv, [SpiNext]_spiVars PROVE SpiIInv'
  OBVIOUS
<1>1. CASE UNCHANGED spiVars
  BY <1>1 DEF spiVars, command, core, SpiIInv, SpiCounters, Quiet, OnItsWay, ToSend, ToTake
<1> QED
  BY <1>1, SpiAccessStep, SpiStatusStep, SpiSendStep, SpiReceiveStep, SpiFinishStep, SpiCoreStep
  DEF SpiNext, SpiStep

(***************************************************************************)
(* However fast or slow the SPI core is, and however long the block: no    *)
(* byte is overwritten before it is read, every answer is the one of its   *)
(* byte, and the loop ends with none left over.                            *)
(***************************************************************************)
THEOREM SpiStaysInStep == SpiSpec => []SpiInStep
<1>1. SpiIInv => SpiInStep
  BY DEF SpiIInv, SpiInStep, Quiet
<1> QED BY <1>1, SpiInitInv, SpiNextInv, PTL DEF SpiSpec

\* How the loop waits: it has been told what it needs to go on with, and it comes
\* to the second half of a turn with a byte on its way.
SpiPace ==
  /\ spi \in {"idle", "finish"} => ToTake = 0
  /\ spi = "send" => IF Flight = 0 THEN status.trdy /\ ~status.rrdy ELSE status.rrdy
  /\ spi = "receive" => Flight # 0

\* The two terms of SpiStepsLeft besides ToTake.
Later    == IF merge THEN second + 1 ELSE 0
PhaseDue == [idle    |-> 0,
             finish  |-> 1,
             status  |-> IF Flight = 0 THEN 9 ELSE 2 + Flight,
             send    |-> IF Flight = 0 THEN 8 ELSE 2,
             receive |-> IF status.rrdy THEN 1 ELSE 4 + Flight][spi]

\* Where the byte on its way is, what goes with it, and what is due.
SpiFacts ==
  /\ ToTake \in Nat /\ ToSend \in Nat /\ Later \in Nat /\ PhaseDue \in Nat
  /\ Flight \in 0..3
  /\ Flight = 0 <=> txdata = 0 /\ shift = 0 /\ rxdata = 0
  /\ Flight = 1 <=> rxdata # 0
  /\ Flight = 2 <=> shift # 0
  /\ Flight = 3 <=> txdata # 0
  /\ spi \in {"idle", "finish"} => Flight = 0
  /\ spi \notin {"idle", "finish"} =>
       IF Flight = 0 THEN credits = 1 /\ ToSend >= 1 /\ ToTake = ToSend
                     ELSE credits = 0 /\ ToTake >= 1
  /\ spi \in {"send", "receive"} /\ status.rrdy => Flight = 1
  /\ SpiStepsLeft = 10 * (ToTake + Later) + PhaseDue
  /\ spi = "idle" => PhaseDue = 0
  /\ spi = "finish" => PhaseDue = 1
  /\ spi = "status" => PhaseDue = IF Flight = 0 THEN 9 ELSE 2 + Flight
  /\ spi = "send" => PhaseDue = IF Flight = 0 THEN 8 ELSE 2
  /\ spi = "receive" => PhaseDue = IF status.rrdy THEN 1 ELSE 4 + Flight

LEMMA SpiFactsHold == SpiIInv => SpiFacts
<1> SUFFICES ASSUME SpiIInv PROVE SpiFacts
  OBVIOUS
<1>1. ToSend \in Nat /\ ToTake \in Nat /\ Later \in Nat /\ place \in Nat
  BY SpiNumbers DEF ToSend, ToTake, Later
<1>2. Quiet => txdata = 0 /\ shift = 0 /\ rxdata = 0
  BY DEF Quiet
<1>3. OnItsWay => \/ txdata # 0 /\ shift = 0 /\ rxdata = 0
                  \/ txdata = 0 /\ shift # 0 /\ rxdata = 0
                  \/ txdata = 0 /\ shift = 0 /\ rxdata # 0
  BY <1>1 DEF OnItsWay
<1>4. Quiet \/ OnItsWay
  BY DEF SpiIInv
<1>5. /\ Flight \in 0..3
      /\ Flight = 0 <=> txdata = 0 /\ shift = 0 /\ rxdata = 0
      /\ Flight = 1 <=> rxdata # 0
      /\ Flight = 2 <=> shift # 0
      /\ Flight = 3 <=> txdata # 0
      /\ Quiet => Flight = 0
      /\ OnItsWay => Flight # 0
  BY <1>2, <1>3, <1>4 DEF Flight
<1> HIDE DEF Flight
<1>6. /\ spi \in {"idle", "finish"} => Flight = 0
      /\ spi \notin {"idle", "finish"} =>
           IF Flight = 0 THEN credits = 1 /\ ToSend >= 1 /\ ToTake = ToSend
                         ELSE credits = 0 /\ ToTake >= 1
  BY <1>1, <1>5 DEF SpiIInv
<1>7. spi \in {"send", "receive"} /\ status.rrdy => Flight = 1
  BY <1>5 DEF SpiIInv
<1>8. /\ spi = "idle" => PhaseDue = 0
      /\ spi = "finish" => PhaseDue = 1
      /\ spi = "status" => PhaseDue = IF Flight = 0 THEN 9 ELSE 2 + Flight
      /\ spi = "send" => PhaseDue = IF Flight = 0 THEN 8 ELSE 2
      /\ spi = "receive" => PhaseDue = IF status.rrdy THEN 1 ELSE 4 + Flight
  BY DEF PhaseDue
<1>9. spi \in {"idle", "finish", "status", "send", "receive"}
  BY DEF SpiIInv
<1>10. PhaseDue \in Nat
  BY <1>5, <1>8, <1>9
<1>11. SpiStepsLeft = 10 * (ToTake + Later) + PhaseDue
  BY DEF SpiStepsLeft, Later, PhaseDue
<1> QED BY <1>1, <1>5, <1>6, <1>7, <1>8, <1>10, <1>11 DEF SpiFacts

\* What a step under way does to the variant.
Nearer == SpiStepsLeft' \in 0 .. SpiStepsLeft - 1

\* The variant falls when its leading term does, or when only its last one does.
LEMMA SpiFalls ==
  ASSUME SpiFacts, SpiFacts',
         \/ (ToTake' + Later') = (ToTake + Later) /\ PhaseDue' < PhaseDue
         \/ (ToTake' + Later') < (ToTake + Later) /\ PhaseDue' < 10 + PhaseDue
  PROVE  Nearer
<1>1. ToTake \in Nat /\ Later \in Nat /\ PhaseDue \in Nat
      /\ SpiStepsLeft = 10 * (ToTake + Later) + PhaseDue
  BY DEF SpiFacts
<1>2. SpiFacts' => (ToTake \in Nat /\ Later \in Nat /\ PhaseDue \in Nat
                     /\ SpiStepsLeft = 10 * (ToTake + Later) + PhaseDue)'
  BY DEF SpiFacts
<1> QED BY <1>1, <1>2 DEF Nearer

LEMMA SpiPaceBegin ==
  ASSUME SpiIInv, SpiIInv', SpiPace, SpiFacts, SpiFacts', Access3421 \/ WriteBytes
  PROVE  SpiPace' /\ (sso => Nearer)
<1>1. spi = "idle" /\ spi' = "status" /\ rxdata' = 0 /\ UNCHANGED <<txdata, shift>>
  BY DEF Access3421, WriteRegister, ReadRegister, WriteBytes, Command
<1>2. Flight = 0
  BY <1>1 DEF SpiFacts
<1>3. txdata' = 0 /\ shift' = 0 /\ rxdata' = 0
  BY <1>1, <1>2 DEF SpiFacts
<1>4. Flight' = 0 /\ PhaseDue' = 9 /\ PhaseDue = 0
  BY <1>1, <1>3 DEF SpiFacts
<1>5. SpiPace'
  BY <1>1 DEF SpiPace
<1>6. ASSUME sso PROVE Nearer
  <2>1. WriteBytes
    BY <1>6 DEF Access3421, WriteRegister, ReadRegister
  <2>2. merge /\ ~merge' /\ second \in Nat
    BY <1>1, <1>6, <2>1, SpiNumbers DEF WriteBytes, Command, SpiIInv
  <2>3. Later = second + 1 /\ Later' = 0
    BY <2>2 DEF Later
  <2>4. ToTake = 0 /\ ToTake' = second
    BY <1>1, <2>1, <2>2 DEF SpiPace, WriteBytes, Command, ToTake
  <2>5. (ToTake' + Later') < (ToTake + Later) /\ PhaseDue' < 10 + PhaseDue
    BY <1>4, <2>2, <2>3, <2>4
  <2> QED BY <2>5, SpiFalls
<1> QED BY <1>5, <1>6

LEMMA SpiPaceStep ==
  ASSUME SpiIInv, SpiIInv', SpiPace, SpiFacts, SpiFacts',
         ReadStatus \/ SendByte \/ ReceiveByte \/ Finish
  PROVE  SpiPace' /\ Nearer
<1>1. ToTake \in Nat /\ Later \in Nat /\ PhaseDue \in Nat /\ Flight \in 0..3
  BY DEF SpiFacts
<1>2. merge' = merge /\ second' = second /\ Later' = Later
  BY DEF ReadStatus, SendByte, ReceiveByte, CreditBack, Finish, Later
<1>3. CASE ReadStatus
  <2>1. /\ spi = "status" /\ spi' = "send" /\ UNCHANGED <<txdata, shift, rxdata>>
        /\ (txdata = 0 /\ credits # 0) \/ rxdata # 0
        /\ status' = [trdy |-> txdata = 0, rrdy |-> rxdata # 0]
        /\ ToTake' = ToTake
    BY <1>3 DEF ReadStatus, core, ToTake
  <2>2. Flight' = Flight
    BY <2>1 DEF Flight
  <2>3. Flight \in {0, 1}
    BY <2>1 DEF SpiFacts
  <2>4. SpiPace'
    BY <2>1, <2>2 DEF SpiPace, SpiFacts
  <2>5. PhaseDue' < PhaseDue
    BY <2>1, <2>2, <2>3 DEF SpiFacts
  <2> QED BY <1>1, <1>2, <2>1, <2>4, <2>5, SpiFalls
<1>4. CASE SendByte
  <2>1. /\ spi = "send" /\ spi' = "receive" /\ UNCHANGED <<status, shift, rxdata>>
        /\ ToTake' = ToTake
    BY <1>4 DEF SendByte, ToTake
  <2>2. CASE Flight = 0
    <3>1. status.trdy /\ ~status.rrdy /\ credits = 1 /\ ToSend >= 1
      BY <2>1, <2>2 DEF SpiPace, SpiFacts
    <3>2. txdata' = place + 1
      BY <1>4, <3>1, SpiNumbers DEF SendByte, ToSend
    <3>3. Flight' = 3
      BY <3>2, SpiNumbers DEF Flight
    <3>4. PhaseDue = 8 /\ PhaseDue' = 7
      BY <2>1, <2>2, <3>1, <3>3 DEF SpiFacts
    <3>5. SpiPace'
      BY <2>1, <3>3 DEF SpiPace
    <3> QED BY <1>1, <1>2, <2>1, <3>4, <3>5, SpiFalls
  <2>3. CASE Flight # 0
    <3>1. status.rrdy /\ credits = 0
      BY <2>1, <2>3 DEF SpiPace, SpiFacts
    <3>2. txdata' = txdata
      BY <1>4, <3>1 DEF SendByte
    <3>3. Flight' = Flight
      BY <2>1, <3>2 DEF Flight
    <3>4. PhaseDue = 2 /\ PhaseDue' = 1
      BY <2>1, <2>3, <3>1 DEF SpiFacts
    <3>5. SpiPace'
      BY <2>1, <2>3, <3>3 DEF SpiPace
    <3> QED BY <1>1, <1>2, <2>1, <3>4, <3>5, SpiFalls
  <2> QED BY <2>2, <2>3
<1>5. CASE ReceiveByte
  <2>1. spi = "receive" /\ UNCHANGED <<txdata, shift>> /\ Flight # 0
    BY <1>5 DEF ReceiveByte, CreditBack, SpiPace
  <2>2. CASE status.rrdy
    <3>1. /\ rxdata' = 0 /\ Flight = 1 /\ PhaseDue = 1
          /\ spi' = IF read_ignore' + toread' = 0 THEN "finish" ELSE "status"
      BY <1>5, <2>1, <2>2 DEF ReceiveByte, CreditBack, SpiFacts
    <3>2. ToTake' = ToTake - 1
      <4>1. ToTake >= 1
        BY <2>1 DEF SpiFacts
      <4>2. /\ read_ignore' = (IF read_ignore > 0 THEN read_ignore - 1 ELSE 0)
            /\ toread' = (IF read_ignore > 0 THEN toread ELSE toread - 1)
        BY <1>5, <2>2 DEF ReceiveByte, CreditBack
      <4> QED BY <4>1, <4>2, SpiNumbers DEF ToTake
    <3>3. Flight' = 0
      BY <2>1, <3>1 DEF SpiFacts
    <3>4. PhaseDue' \in {1, 9}
      BY <3>1, <3>3 DEF SpiFacts
    <3>5. SpiPace'
      BY <3>1 DEF SpiPace, ToTake
    <3>6. (ToTake' + Later') < (ToTake + Later) /\ PhaseDue' < 10 + PhaseDue
      BY <1>1, <1>2, <3>1, <3>2, <3>4
    <3> QED BY <3>5, <3>6, SpiFalls
  <2>3. CASE ~status.rrdy
    <3>1. spi' = "status" /\ UNCHANGED <<rxdata, read_ignore, toread>>
      BY <1>5, <2>3 DEF ReceiveByte, CreditBack
    <3>2. Flight' = Flight /\ ToTake' = ToTake
      BY <2>1, <3>1 DEF Flight, ToTake
    <3>3. PhaseDue = 4 + Flight /\ PhaseDue' = 2 + Flight
      BY <2>1, <2>3, <3>1, <3>2 DEF SpiFacts
    <3>4. SpiPace'
      BY <3>1 DEF SpiPace
    <3> QED BY <1>1, <1>2, <3>2, <3>3, <3>4, SpiFalls
  <2> QED BY <2>2, <2>3
<1>6. CASE Finish
  <2>1. spi = "finish" /\ spi' = "idle" /\ ToTake' = ToTake
    BY <1>6 DEF Finish, ToTake
  <2>2. PhaseDue = 1 /\ PhaseDue' = 0
    BY <2>1 DEF SpiFacts
  <2>3. SpiPace'
    BY <2>1 DEF SpiPace
  <2> QED BY <1>1, <1>2, <2>1, <2>2, <2>3, SpiFalls
<1> QED BY <1>3, <1>4, <1>5, <1>6

LEMMA SpiPaceCore ==
  ASSUME SpiIInv, SpiIInv', SpiPace, SpiFacts, SpiFacts', Core
  PROVE  SpiPace' /\ Nearer
<1>1. /\ ToTake \in Nat /\ Later \in Nat /\ PhaseDue \in Nat
      /\ ToTake' = ToTake /\ Later' = Later /\ spi' = spi /\ status' = status
  BY DEF SpiFacts, Core, Load, Exchange, command, ToTake, Later
<1>2. \/ Flight = 3 /\ Flight' = 2
      \/ Flight = 2 /\ Flight' = 1
  <2>1. CASE Load
    BY <2>1 DEF Load, SpiFacts
  <2>2. CASE Exchange
    <3>1. shift # 0 /\ rxdata' = heard + 1 /\ place \in Nat
      BY <2>2, SpiNumbers DEF Exchange
    <3>2. OnItsWay
      BY <3>1 DEF SpiIInv, Quiet
    <3>3. rxdata' # 0
      BY <3>1, <3>2 DEF OnItsWay
    <3> QED BY <3>1, <3>3 DEF SpiFacts
  <2> QED BY <2>1, <2>2 DEF Core
<1>3. spi \in {"status", "receive"} /\ (spi = "receive" => ~status.rrdy)
  <2>1. spi \in {"idle", "finish", "status", "send", "receive"}
    BY DEF SpiIInv
  <2> QED BY <1>2, <2>1 DEF SpiFacts, SpiPace
<1>4. PhaseDue' < PhaseDue
  <2>1. CASE spi = "status"
    <3>1. PhaseDue = 2 + Flight /\ PhaseDue' = 2 + Flight'
      BY <1>1, <1>2, <2>1 DEF SpiFacts
    <3> QED BY <1>2, <3>1
  <2>2. CASE spi = "receive"
    <3>1. ~status.rrdy /\ ~status'.rrdy
      BY <1>1, <1>3, <2>2
    <3>2. PhaseDue = 4 + Flight /\ PhaseDue' = 4 + Flight'
      BY <1>1, <2>2, <3>1 DEF SpiFacts
    <3> QED BY <1>2, <3>2
  <2> QED BY <1>3, <2>1, <2>2
<1>5. SpiPace'
  BY <1>1, <1>2, <1>3 DEF SpiPace
<1> QED BY <1>1, <1>4, <1>5, SpiFalls

\* SpiPace is inductive relative to SpiIInv, and every step brings the end nearer.
LEMMA SpiPaceNext ==
  ASSUME SpiIInv, SpiIInv', SpiPace, [SpiNext]_spiVars
  PROVE  SpiPace' /\ [spi # "idle" \/ sso => Nearer]_spiVars
<1>1. SpiFacts
  BY SpiFactsHold
<1>2. SpiIInv' => SpiFacts'
  BY SpiFactsHold, PTL
<1>3. CASE UNCHANGED spiVars
  BY <1>3 DEF spiVars, command, core, SpiPace, ToTake, Flight
<1>4. CASE Access3421 \/ WriteBytes
  <2>1. spi = "idle"
    BY <1>4 DEF Access3421, WriteRegister, ReadRegister, WriteBytes
  <2> QED BY <1>1, <1>2, <1>4, <2>1, SpiPaceBegin
<1>5. CASE ReadStatus \/ SendByte \/ ReceiveByte \/ Finish
  BY <1>1, <1>2, <1>5, SpiPaceStep
<1>6. CASE Core
  BY <1>1, <1>2, <1>6, SpiPaceCore
<1> QED BY <1>3, <1>4, <1>5, <1>6 DEF SpiNext, SpiStep

(***************************************************************************)
(* For every length of block and every pace of the SPI core: whenever      *)
(* alt_avalon_spi_command waits for a status, one will come, and no step   *)
(* of the loop or of the core is lost: each brings the end nearer.         *)
(***************************************************************************)
THEOREM SpiAccessesComeNearer == SpiSpec => SpiComesNearer
<1>1. SpiInit => SpiPace
  BY DEF SpiInit, SpiPace, ToTake
<1>2. SpiIInv => (spi = "status" => credits # 0 \/ Flight # 0)
  BY SpiFactsHold DEF SpiFacts
<1>3. SpiIInv /\ SpiIInv' /\ SpiPace /\ [SpiNext]_spiVars
        => SpiPace' /\ [spi # "idle" \/ sso => SpiStepsLeft' \in 0 .. SpiStepsLeft - 1]_spiVars
  BY SpiPaceNext DEF Nearer
<1> QED BY <1>1, <1>2, <1>3, SpiInitInv, SpiNextInv, PTL DEF SpiSpec, SpiComesNearer

-----------------------------------------------------------------------------
\* Transfer.
USE TransferAssumption DEF TransferAssumption

\* The packets of a request's answer, up to one.
Answer(r, n) == [k \in 1..n |-> <<r.number, k>>]

\* The packets received: those acknowledged, and one whose acknowledgement was lost.
Received == IF toggle = dctl.toggle THEN dctl.acked ELSE dctl.acked + 1

\* The inductive invariant, part by part.  A transfer beyond its SETUP is about
\* the request the device answers.
AnswerInPart ==
  /\ stage = "setup" => buffer = <<>>
  /\ stage \in {"data", "status"} =>
       /\ dctl.request = request
       /\ buffer = Answer(request, Received)
       /\ stage = "data" => Received < request.kind.packets
       /\ stage = "status" => Received = request.kind.packets

\* Endpoint 1 is at its start until SET_CONFIGURATION has succeeded.
FreshUntilRunning ==
  /\ config # "running" => /\ dtoggle = 0 /\ rcvToggle = 0 /\ typed = 0
                           /\ stage # "poll"
  /\ stage \in {"setup", "data", "status"} /\ request.kind.setconf => config = "tried"
  /\ stage = "poll" => toggle = rcvToggle

\* The toggles tell a report that main has not received from one that it has.
ReportInStep ==
  IF dreport = None
    THEN typed = made /\ rcvToggle = dtoggle
    ELSE /\ made = (dreport + 1) % Numbers
         /\ typed = IF rcvToggle = dtoggle THEN dreport ELSE made

TransferIInv == TransferTypeOK /\ AnswerInPart /\ FreshUntilRunning /\ ReportInStep

-----------------------------------------------------------------------------
\* Counting the numbers: the next one, and the distance to it.
LEMMA NextNumber ==
  ASSUME NEW x \in 0 .. Numbers - 1
  PROVE  /\ (x + 1) % Numbers \in 0 .. Numbers - 1
         /\ (x + 1) % Numbers # x
         /\ (((x + 1) % Numbers) - x) % Numbers = 1
         /\ (x - x) % Numbers = 0
<1>1. CASE x = Numbers - 1
  <2>1. (x + 1) % Numbers = 0
    BY <1>1
  <2>2. (1 - Numbers) % Numbers = 1
    OBVIOUS
  <2> QED BY <1>1, <2>1, <2>2
<1>2. CASE x < Numbers - 1
  BY <1>2
<1> QED BY <1>1, <1>2

\* An answer grows by the packet behind its last.
LEMMA AnswerGrows ==
  ASSUME NEW r, NEW n \in Nat
  PROVE  /\ Append(Answer(r, n), <<r.number, n + 1>>) = Answer(r, n + 1)
         /\ Len(Answer(r, n)) = n
         /\ Answer(r, 0) = <<>>
BY DEF Answer

\* What the fields of a request and of the control endpoint hold.
LEMMA RequestFields ==
  ASSUME TransferTypeOK
  PROVE  /\ request.number \in 0 .. Numbers - 1 /\ request.kind \in Kinds
         /\ request.kind.packets \in 0..MaxPackets /\ request.kind.setconf \in BOOLEAN
         /\ dctl.request.number \in 0 .. Numbers - 1 /\ dctl.request.kind \in Kinds
         /\ dctl.acked \in 0..MaxPackets /\ dctl.toggle \in {0, 1}
<1>1. \A kind \in Kinds : kind.packets \in 0..MaxPackets /\ kind.setconf \in BOOLEAN
  <2> TAKE kind \in Kinds
  <2>1. CASE kind \in [packets : 0..MaxPackets, setconf : {FALSE}]
    BY <2>1
  <2>2. CASE kind \in [packets : {0}, setconf : {TRUE}]
    <3>1. kind.packets = 0 /\ kind.setconf \in BOOLEAN
      BY <2>2
    <3> QED BY <3>1
  <2> QED BY <2>1, <2>2 DEF Kinds
<1>2. /\ request \in [number : 0 .. Numbers - 1, kind : Kinds]
      /\ dctl \in [request : [number : 0 .. Numbers - 1, kind : Kinds],
                   acked : 0..MaxPackets, toggle : {0, 1}]
  BY DEF TransferTypeOK
<1>3. /\ request.number \in 0 .. Numbers - 1 /\ request.kind \in Kinds
      /\ dctl.request \in [number : 0 .. Numbers - 1, kind : Kinds]
      /\ dctl.acked \in 0..MaxPackets /\ dctl.toggle \in {0, 1}
  BY <1>2
<1>4. dctl.request.number \in 0 .. Numbers - 1 /\ dctl.request.kind \in Kinds
  BY <1>3
<1> QED BY <1>1, <1>3, <1>4

\* Where a launch leads.
LEMMA DispatchedTo ==
  ASSUME TransferTypeOK, NEW code, NEW onward, Dispatched(code, onward)
  PROVE  /\ stage' \in {stage, onward, "idle"}
         /\ stage' = stage \/ stage' = IF code = Ok THEN onward ELSE "idle"
         /\ code \in {Ok, Toggled, Failed} => stage' = IF code = Ok THEN onward ELSE "idle"
         /\ naks' \in 0 .. NakLimit - 1 /\ retries' \in 0 .. RetryLimit - 1
<1>1. naks \in 0 .. NakLimit - 1 /\ retries \in 0 .. RetryLimit - 1
  BY DEF TransferTypeOK
<1>2. CASE Again(code)
  <2>1. stage' = stage /\ code \in {Nak, Lost}
    BY <1>2, Zenon DEF Dispatched, Again
  <2>2. /\ naks' = IF code = Nak THEN naks + 1 ELSE naks
        /\ retries' = IF code = Lost THEN retries + 1 ELSE retries
    BY <1>2, Zenon DEF Dispatched, Count
  <2>3. /\ code = Nak => naks + 1 < NakLimit
        /\ code = Lost => retries + 1 < RetryLimit
    BY <1>2 DEF Again, Nak, Lost
  <2>4. naks' \in 0 .. NakLimit - 1 /\ retries' \in 0 .. RetryLimit - 1
    BY <1>1, <2>2, <2>3
  <2>5. code \notin {Ok, Toggled, Failed}
    BY <2>1 DEF Ok, Nak, Lost, Toggled, Failed
  <2> QED BY <2>1, <2>4, <2>5
<1>3. CASE ~Again(code)
  <2>1. naks' = 0 /\ retries' = 0 /\ stage' = IF code = Ok THEN onward ELSE "idle"
    BY <1>3, Zenon DEF Dispatched
  <2> QED BY <2>1
<1> QED BY <1>2, <1>3

LEMMA TransferInitInv == TransferInit => TransferIInv
BY DEF TransferInit, TransferIInv, TransferTypeOK, AnswerInPart, FreshUntilRunning,
       ReportInStep, Kinds, None

-----------------------------------------------------------------------------
LEMMA RequestStep ==
  ASSUME TransferIInv, Request
  PROVE  TransferIInv' /\ UNCHANGED <<made, typed>>
<1>1. PICK kind \in Kinds :
        /\ kind.setconf => config = "none"
        /\ request' = [number |-> (request.number + 1) % Numbers, kind |-> kind]
        /\ config' = IF kind.setconf THEN "tried" ELSE config
        /\ rcvToggle' = IF kind.setconf THEN 0 ELSE rcvToggle
  BY DEF Request
<1>2. /\ stage = "idle" /\ stage' = "setup" /\ buffer' = <<>>
      /\ UNCHANGED <<naks, retries, toggle, dctl, dtoggle, dreport, made, typed>>
  BY DEF Request, keyboard
<1>3. TransferTypeOK /\ FreshUntilRunning /\ ReportInStep
  BY DEF TransferIInv
<1>4. kind.setconf \in BOOLEAN
  BY DEF Kinds
<1>5. rcvToggle' = rcvToggle
  BY <1>1, <1>3, <1>4 DEF FreshUntilRunning
<1>6. request.number \in 0 .. Numbers - 1
  BY <1>3 DEF TransferTypeOK
<1>7. request' \in [number : 0 .. Numbers - 1, kind : Kinds]
  BY <1>1, <1>6, NextNumber
<1>8. TransferTypeOK'
  BY <1>1, <1>2, <1>3, <1>5, <1>7 DEF TransferTypeOK
<1>9. FreshUntilRunning'
  BY <1>1, <1>2, <1>3, <1>4, <1>5 DEF FreshUntilRunning
<1>10. ReportInStep' /\ AnswerInPart'
  BY <1>2, <1>3, <1>5 DEF ReportInStep, AnswerInPart
<1> QED BY <1>2, <1>8, <1>9, <1>10 DEF TransferIInv

LEMMA SetupStep ==
  ASSUME TransferIInv, Setup
  PROVE  TransferIInv' /\ UNCHANGED <<made, typed>>
<1> DEFINE onward == IF request.kind.packets > 0 THEN "data" ELSE "status"
<1>1. PICK code \in {Ok, Lost, Failed}, reached \in BOOLEAN :
        /\ code = Ok => reached
        /\ dctl' = IF reached THEN [request |-> request, acked |-> 0, toggle |-> 1] ELSE dctl
        /\ Dispatched(code, onward)
  BY DEF Setup
<1>2. /\ stage = "setup" /\ toggle' = 1
      /\ UNCHANGED <<request, rcvToggle, buffer, config, dtoggle, dreport, made, typed>>
  BY DEF Setup
<1>3. TransferTypeOK /\ AnswerInPart /\ FreshUntilRunning /\ ReportInStep
  BY DEF TransferIInv
<1>4. /\ stage' \in {"setup", onward, "idle"}
      /\ stage' = onward => code = Ok
      /\ naks' \in 0 .. NakLimit - 1 /\ retries' \in 0 .. RetryLimit - 1
  BY <1>1, <1>2, <1>3, DispatchedTo
<1>5. request \in [number : 0 .. Numbers - 1, kind : Kinds] /\ request.kind.packets \in Nat
  BY <1>3, RequestFields DEF TransferTypeOK
<1>6. dctl' \in [request : [number : 0 .. Numbers - 1, kind : Kinds],
                 acked : 0..MaxPackets, toggle : {0, 1}]
  BY <1>1, <1>3, <1>5 DEF TransferTypeOK
<1>7. TransferTypeOK'
  BY <1>2, <1>3, <1>4, <1>6 DEF TransferTypeOK
<1>8. AnswerInPart'
  <2>1. buffer' = <<>> /\ buffer' = Answer(request', 0)
    BY <1>2, <1>3, AnswerGrows DEF AnswerInPart
  <2>2. ASSUME stage' = onward
        PROVE  dctl'.request = request' /\ Received' = 0
    BY <1>1, <1>2, <1>4, <2>2 DEF Received
  <2> QED BY <1>2, <1>4, <1>5, <2>1, <2>2 DEF AnswerInPart
<1>9. FreshUntilRunning' /\ ReportInStep'
  BY <1>2, <1>3, <1>4 DEF FreshUntilRunning, ReportInStep
<1> QED BY <1>2, <1>7, <1>8, <1>9 DEF TransferIInv

LEMMA DataArrivesStep ==
  ASSUME TransferIInv, DataArrives
  PROVE  TransferIInv' /\ UNCHANGED <<made, typed>>
<1>1. PICK acked \in BOOLEAN :
        dctl' = IF acked THEN [dctl EXCEPT !.acked = @ + 1, !.toggle = Flip(@)] ELSE dctl
  BY DEF DataArrives
<1>2. /\ stage = "data" /\ dctl.acked < dctl.request.kind.packets
      /\ UNCHANGED <<request, rcvToggle, config, dtoggle, dreport, made, typed>>
  BY DEF DataArrives
<1>3. TransferTypeOK /\ AnswerInPart /\ FreshUntilRunning /\ ReportInStep
  BY DEF TransferIInv
<1>4. /\ dctl.request = request /\ buffer = Answer(request, Received)
      /\ Received < request.kind.packets
      /\ dctl.acked \in Nat /\ {toggle, dctl.toggle} \subseteq {0, 1}
      /\ request.kind.packets \in 0..MaxPackets
  BY <1>2, <1>3, RequestFields DEF AnswerInPart, TransferTypeOK
<1>5. /\ dctl' \in [request : [number : 0 .. Numbers - 1, kind : Kinds],
                    acked : 0..MaxPackets, toggle : {0, 1}]
      /\ dctl'.request = request
      /\ dctl'.acked = IF acked THEN dctl.acked + 1 ELSE dctl.acked
      /\ dctl'.toggle = IF acked THEN Flip(dctl.toggle) ELSE dctl.toggle
  <2>1. dctl \in [request : [number : 0 .. Numbers - 1, kind : Kinds],
                  acked : 0..MaxPackets, toggle : {0, 1}]
    BY <1>3 DEF TransferTypeOK
  <2>2. dctl.acked + 1 \in 0..MaxPackets /\ Flip(dctl.toggle) \in {0, 1}
    BY <1>2, <1>4 DEF Flip
  <2>3. CASE acked
    BY <1>1, <1>4, <2>1, <2>2, <2>3
  <2>4. CASE ~acked
    BY <1>1, <1>4, <2>1, <2>4
  <2> QED BY <2>3, <2>4
<1>6. FreshUntilRunning' /\ ReportInStep'
  <2>1. stage' \in {"data", "status", "idle"}
    BY <1>2, <1>3, DispatchedTo DEF DataArrives
  <2> QED BY <1>2, <1>3, <2>1 DEF FreshUntilRunning, ReportInStep
<1>7. CASE dctl.toggle = toggle
  <2> DEFINE k == dctl.acked + 1
             onward == IF LastPacket(k) THEN "status" ELSE "data"
  <2>1. /\ buffer' = Append(buffer, <<request.number, k>>)
        /\ toggle' = Flip(toggle)
        /\ Dispatched(Ok, onward)
    BY <1>4, <1>7 DEF DataArrives
  <2>2. /\ stage' = onward
        /\ naks' \in 0 .. NakLimit - 1 /\ retries' \in 0 .. RetryLimit - 1
    BY <1>3, <2>1, DispatchedTo
  <2>3. Received = dctl.acked /\ Received' = k
    BY <1>4, <1>5, <1>7, <2>1 DEF Received, Flip
  <2>4. buffer' = Answer(request, k) /\ Len(buffer') = k
    <3>1. dctl.acked \in Nat /\ k \in Nat /\ buffer = Answer(request, dctl.acked)
      BY <1>4, <2>3
    <3>2. buffer' = Answer(request, k)
      BY <2>1, <3>1, AnswerGrows
    <3>3. Len(Answer(request, k)) = k
      BY <3>1, AnswerGrows
    <3> QED BY <3>2, <3>3
  <2>5. AnswerInPart'
    BY <1>2, <1>4, <1>5, <2>2, <2>3, <2>4 DEF AnswerInPart, LastPacket
  <2>6. TransferTypeOK'
    BY <1>2, <1>3, <1>4, <1>5, <2>1, <2>2, <2>3, <2>4 DEF TransferTypeOK, Flip
  <2> QED BY <1>2, <1>6, <2>5, <2>6 DEF TransferIInv
<1>8. CASE dctl.toggle # toggle
  <2>1. Dispatched(Toggled, "idle") /\ UNCHANGED <<buffer, toggle>>
    BY <1>8 DEF DataArrives
  <2>2. /\ stage' = "idle"
        /\ naks' \in 0 .. NakLimit - 1 /\ retries' \in 0 .. RetryLimit - 1
    BY <1>3, <2>1, DispatchedTo
  <2>3. TransferTypeOK' /\ AnswerInPart'
    BY <1>2, <1>3, <1>5, <2>1, <2>2 DEF TransferTypeOK, AnswerInPart
  <2> QED BY <1>2, <1>6, <2>3 DEF TransferIInv
<1> QED BY <1>7, <1>8

LEMMA StatusStep ==
  ASSUME TransferIInv, Status
  PROVE  TransferIInv' /\ UNCHANGED <<made, typed>>
<1>1. PICK code \in {Ok, Nak, Lost, Failed}, reached \in BOOLEAN :
        /\ code = Ok => reached
        /\ dtoggle' = IF reached /\ dctl.request.kind.setconf THEN 0 ELSE dtoggle
        /\ Dispatched(code, "idle")
        /\ config' = IF request.kind.setconf /\ code = Ok THEN "running" ELSE config
  BY DEF Status
<1>2. /\ stage = "status"
      /\ UNCHANGED <<request, toggle, rcvToggle, buffer, dctl, dreport, made, typed>>
  BY DEF Status
<1>3. TransferTypeOK /\ AnswerInPart /\ FreshUntilRunning /\ ReportInStep
  BY DEF TransferIInv
<1>4. /\ stage' \in {"status", "idle"}
      /\ code = Ok => stage' = "idle"
      /\ naks' \in 0 .. NakLimit - 1 /\ retries' \in 0 .. RetryLimit - 1
  BY <1>1, <1>2, <1>3, DispatchedTo
<1>5. request.kind.setconf \in BOOLEAN /\ dctl.request = request
  BY <1>2, <1>3 DEF TransferTypeOK, Kinds, AnswerInPart
<1>6. dtoggle' = dtoggle
  BY <1>1, <1>2, <1>3, <1>5 DEF FreshUntilRunning
<1>7. TransferTypeOK'
  BY <1>1, <1>2, <1>3, <1>4, <1>6 DEF TransferTypeOK
<1>8. AnswerInPart'
  BY <1>2, <1>3, <1>4 DEF AnswerInPart, Received
<1>9. FreshUntilRunning' /\ ReportInStep'
  BY <1>1, <1>2, <1>3, <1>4, <1>5, <1>6 DEF FreshUntilRunning, ReportInStep
<1> QED BY <1>2, <1>7, <1>8, <1>9 DEF TransferIInv

LEMMA PollStep ==
  ASSUME TransferIInv, Poll
  PROVE  TransferIInv' /\ UNCHANGED <<made, typed>>
BY DEF Poll, keyboard, TransferIInv, TransferTypeOK, AnswerInPart, FreshUntilRunning,
       ReportInStep

\* The device acknowledges what the firmware has taken, or will throw away.
LEMMA ReportArrivesStep ==
  ASSUME TransferIInv, ReportArrives
  PROVE  TransferIInv' /\ (Reports!Take \/ UNCHANGED <<made, typed>>)
<1>1. PICK acked \in BOOLEAN :
        /\ dtoggle' = IF acked THEN Flip(dtoggle) ELSE dtoggle
        /\ dreport' = IF acked THEN None ELSE dreport
  BY DEF ReportArrives
<1>2. /\ stage = "poll" /\ dreport # None
      /\ UNCHANGED <<request, buffer, config, dctl, made>>
  BY DEF ReportArrives
<1>3. TransferTypeOK /\ AnswerInPart /\ FreshUntilRunning /\ ReportInStep
  BY DEF TransferIInv
<1>4. /\ toggle = rcvToggle /\ config = "running"
      /\ made = (dreport + 1) % Numbers
      /\ typed = IF rcvToggle = dtoggle THEN dreport ELSE made
      /\ {rcvToggle, dtoggle} \subseteq {0, 1} /\ dreport \in 0 .. Numbers - 1
      /\ dreport # Numbers
  BY <1>2, <1>3 DEF FreshUntilRunning, ReportInStep, TransferTypeOK, None
<1>5. /\ stage' = "idle"
      /\ naks' \in 0 .. NakLimit - 1 /\ retries' \in 0 .. RetryLimit - 1
  BY <1>3, DispatchedTo DEF ReportArrives
<1>6. AnswerInPart'
  BY <1>5 DEF AnswerInPart
<1>7. CASE dtoggle = toggle
  <2>1. typed' = made /\ toggle' = Flip(toggle) /\ rcvToggle' = Flip(toggle)
    BY <1>4, <1>7 DEF ReportArrives, Typed
  <2>2. Reports!Take
    BY <1>2, <1>4, <1>7, <2>1, NextNumber DEF Reports!Take, Reports!UnderWay
  <2>3. TransferTypeOK' /\ FreshUntilRunning' /\ ReportInStep'
    BY <1>1, <1>2, <1>3, <1>4, <1>5, <1>7, <2>1
       DEF TransferTypeOK, FreshUntilRunning, ReportInStep, Flip, None
  <2> QED BY <1>6, <2>2, <2>3 DEF TransferIInv
<1>8. CASE dtoggle # toggle
  <2>1. UNCHANGED <<typed, toggle, rcvToggle>>
    BY <1>8 DEF ReportArrives
  <2>2. TransferTypeOK' /\ FreshUntilRunning' /\ ReportInStep'
    BY <1>1, <1>2, <1>3, <1>4, <1>5, <1>8, <2>1
       DEF TransferTypeOK, FreshUntilRunning, ReportInStep, Flip, None
  <2> QED BY <1>2, <1>6, <2>1, <2>2 DEF TransferIInv
<1> QED BY <1>7, <1>8

LEMMA NothingArrivesStep ==
  ASSUME TransferIInv, NothingArrives
  PROVE  TransferIInv' /\ UNCHANGED <<made, typed>>
<1>1. /\ stage \in {"data", "poll"}
      /\ UNCHANGED <<request, toggle, rcvToggle, buffer, config, dctl, dtoggle, dreport,
                     made, typed>>
  BY DEF NothingArrives, keyboard
<1>2. TransferTypeOK /\ AnswerInPart /\ FreshUntilRunning /\ ReportInStep
  BY DEF TransferIInv
<1>3. /\ stage' \in {stage, "idle"}
      /\ naks' \in 0 .. NakLimit - 1 /\ retries' \in 0 .. RetryLimit - 1
  BY <1>2, DispatchedTo DEF NothingArrives
<1>4. TransferTypeOK' /\ AnswerInPart' /\ FreshUntilRunning' /\ ReportInStep'
  BY <1>1, <1>2, <1>3
     DEF TransferTypeOK, AnswerInPart, Received, FreshUntilRunning, ReportInStep
<1> QED BY <1>1, <1>4 DEF TransferIInv

LEMMA ReportStep ==
  ASSUME TransferIInv, Report
  PROVE  TransferIInv' /\ Reports!Put
<1>1. /\ config # "none" /\ dreport = None /\ dreport' = made
      /\ made' = (made + 1) % Numbers
      /\ UNCHANGED <<stage, request, naks, retries, toggle, rcvToggle, buffer, config,
                     dctl, dtoggle, typed>>
  BY DEF Report, firmware
<1>2. TransferTypeOK /\ AnswerInPart /\ FreshUntilRunning /\ ReportInStep
  BY DEF TransferIInv
<1>3. typed = made /\ rcvToggle = dtoggle /\ made \in 0 .. Numbers - 1 /\ made # Numbers
  BY <1>1, <1>2 DEF ReportInStep, TransferTypeOK
<1>4. TransferTypeOK' /\ AnswerInPart' /\ FreshUntilRunning' /\ ReportInStep'
  BY <1>1, <1>2, <1>3, NextNumber
     DEF TransferTypeOK, AnswerInPart, Received, FreshUntilRunning, ReportInStep, None
<1>5. Reports!Put
  BY <1>1, <1>3, NextNumber DEF Reports!Put, Reports!UnderWay
<1> QED BY <1>4, <1>5 DEF TransferIInv

-----------------------------------------------------------------------------
LEMMA TransferStep ==
  ASSUME TransferIInv, [TransferNext]_transferVars
  PROVE  TransferIInv' /\ [Reports!Put \/ Reports!Take]_<<made, typed>>
<1>1. CASE UNCHANGED transferVars
  BY <1>1 DEF transferVars, firmware, keyboard, TransferIInv, TransferTypeOK, AnswerInPart,
              Received, FreshUntilRunning, ReportInStep
<1>2. CASE TransferNext
  BY <1>2, RequestStep, SetupStep, DataArrivesStep, StatusStep, PollStep, ReportArrivesStep,
     NothingArrivesStep, ReportStep DEF TransferNext, Launch
<1> QED BY <1>1, <1>2

LEMMA TransferInvariant == TransferSpec => []TransferIInv
<1>1. TransferIInv /\ [TransferNext]_transferVars => TransferIInv'
  BY TransferStep
<1> QED BY <1>1, TransferInitInv, PTL DEF TransferSpec

(***************************************************************************)
(* A control transfer whose status stage is reached has the answer of the  *)
(* device to this request, whole and in order, for every number of packets *)
(* and of retries.                                                         *)
(***************************************************************************)
THEOREM AnswersAreWhole == TransferSpec => []AnswerIsWhole
<1>1. TransferIInv => AnswerIsWhole
  BY DEF TransferIInv, AnswerInPart, Answer, AnswerIsWhole
<1> QED BY <1>1, TransferInvariant, PTL

(***************************************************************************)
(* The reports of the keyboard reach the game once and in order: endpoint  *)
(* 1, with the toggle kept in epinfo from poll to poll, implements the     *)
(* stream of module Stream, for every range of the numbers.                *)
(***************************************************************************)
THEOREM ReportsComeOnce == TransferSpec => ReportsOnce
<1>1. TransferInit => Reports!Init
  BY DEF TransferInit, Reports!Init
<1>2. TransferIInv /\ [TransferNext]_transferVars
        => [Reports!Put \/ Reports!Take]_<<made, typed>>
  BY TransferStep
<1> QED BY <1>1, <1>2, TransferInvariant, PTL DEF TransferSpec, ReportsOnce, Reports!Spec

\* The launches of one packet, and what is left once it is through.
PerPacket == NakLimit + RetryLimit - 1

LEMMA FewerPackets ==
  ASSUME NEW a \in Nat, NEW b \in Nat, NEW c \in Nat, a < b
  PROVE  a * c <= b * c - c /\ a * c \in Nat /\ b * c \in Nat
<1>1. PICK d \in Nat : b = a + 1 + d
  <2>1. b - a - 1 \in Nat /\ b = a + 1 + (b - a - 1)
    OBVIOUS
  <2> QED BY <2>1
<1>2. b * c = a * c + c + d * c
  BY <1>1
<1>3. a * c \in Nat /\ d * c \in Nat
  OBVIOUS
<1> QED BY <1>2, <1>3

\* What ToGo is, stage by stage; at "data" a packet is still to come.
LEMMA PacketsToGo ==
  TransferIInv =>
    /\ stage = "idle" => ToGo = 0
    /\ stage \in {"status", "poll"} => ToGo = 1
    /\ stage = "data" => /\ ToGo = 1 + request.kind.packets - Len(buffer)
                         /\ Len(buffer) \in Nat /\ Len(buffer) < request.kind.packets
    /\ stage = "setup" => ToGo = 2 + request.kind.packets
    /\ request.kind.packets \in Nat
    /\ ToGo \in Nat /\ (stage # "idle" => ToGo >= 1)
<1> SUFFICES ASSUME TransferIInv
             PROVE  /\ stage = "idle" => ToGo = 0
                    /\ stage \in {"status", "poll"} => ToGo = 1
                    /\ stage = "data" => /\ ToGo = 1 + request.kind.packets - Len(buffer)
                                         /\ Len(buffer) \in Nat
                                         /\ Len(buffer) < request.kind.packets
                    /\ stage = "setup" => ToGo = 2 + request.kind.packets
                    /\ request.kind.packets \in Nat
                    /\ ToGo \in Nat /\ (stage # "idle" => ToGo >= 1)
  OBVIOUS
<1>1. TransferTypeOK /\ AnswerInPart
  BY DEF TransferIInv
<1>2. /\ stage = "idle" => ToGo = 0
      /\ stage \in {"status", "poll"} => ToGo = 1
      /\ stage = "data" => ToGo = 1 + request.kind.packets - Len(buffer)
      /\ stage = "setup" => ToGo = 2 + request.kind.packets
  BY DEF ToGo
<1>3. request.kind.packets \in Nat
  BY <1>1, RequestFields
<1>4. stage = "data" => Len(buffer) \in Nat /\ Len(buffer) < request.kind.packets
  <2> SUFFICES ASSUME stage = "data"
               PROVE  Len(buffer) \in Nat /\ Len(buffer) < request.kind.packets
    OBVIOUS
  <2>1. buffer = Answer(request, Received) /\ Received < request.kind.packets
    BY <1>1 DEF AnswerInPart
  <2>2. Received \in Nat
    BY <1>1, RequestFields DEF Received
  <2>3. Len(buffer) = Received
    BY <2>1, <2>2, AnswerGrows
  <2> QED BY <2>1, <2>2, <2>3
<1>5. stage \in {"idle", "setup", "data", "status", "poll"}
  BY <1>1 DEF TransferTypeOK
<1> QED BY <1>2, <1>3, <1>4, <1>5

\* A launch is repeated, and counted, or the packet is done with.
LEMMA DispatchCounts ==
  ASSUME TransferIInv, stage # "idle", NEW code, NEW onward, Dispatched(code, onward),
         ToGo' \in Nat, Again(code) => ToGo' = ToGo, ~Again(code) => ToGo' < ToGo
  PROVE  LaunchesLeft >= 1 /\ LaunchesLeft' < LaunchesLeft
<1>1. ToGo \in Nat /\ ToGo >= 1
  BY PacketsToGo
<1>2. /\ naks \in 0 .. NakLimit - 1 /\ retries \in 0 .. RetryLimit - 1
      /\ PerPacket \in Nat /\ naks + retries \in Nat /\ naks + retries <= PerPacket - 1
  BY DEF TransferIInv, TransferTypeOK, PerPacket
<1>3. LaunchesLeft = ToGo * PerPacket - (naks + retries)
  BY DEF LaunchesLeft, PerPacket
<1>4. LaunchesLeft' = ToGo' * PerPacket - (naks' + retries')
  BY DEF LaunchesLeft, PerPacket
<1> HIDE DEF PerPacket
<1>5. ToGo * PerPacket >= PerPacket /\ ToGo * PerPacket \in Nat
  BY <1>1, <1>2, FewerPackets, 0 \in Nat
<1>6. CASE Again(code)
  <2>1. code \in {Nak, Lost} /\ ToGo' = ToGo
    BY <1>6, Zenon DEF Again
  <2>2. /\ naks' = IF code = Nak THEN naks + 1 ELSE naks
        /\ retries' = IF code = Lost THEN retries + 1 ELSE retries
    BY <1>6, Zenon DEF Dispatched, Count
  <2>3. naks' + retries' = naks + retries + 1
    BY <1>2, <2>1, <2>2 DEF Nak, Lost
  <2>4. LaunchesLeft' = ToGo * PerPacket - (naks + retries + 1)
    BY <1>4, <2>1, <2>3
  <2> HIDE DEF LaunchesLeft
  <2> QED BY <1>2, <1>3, <1>5, <2>4
<1>7. CASE ~Again(code)
  <2>1. naks' = 0 /\ retries' = 0
    BY <1>7, Zenon DEF Dispatched
  <2>2. ToGo' * PerPacket <= ToGo * PerPacket - PerPacket /\ ToGo' * PerPacket \in Nat
    BY <1>1, <1>2, <1>7, FewerPackets
  <2>3. LaunchesLeft' = ToGo' * PerPacket
    BY <1>4, <2>1, <2>2
  <2> QED BY <1>2, <1>3, <1>5, <2>2, <2>3
<1> QED BY <1>6, <1>7

\* Every launch is one of those that were left.
LEMMA LaunchCounts ==
  ASSUME TransferIInv, TransferIInv', Launch
  PROVE  LaunchesLeft >= 1 /\ LaunchesLeft' < LaunchesLeft
<1>0. TransferTypeOK
  BY DEF TransferIInv
<1>1. /\ stage = "idle" => ToGo = 0
      /\ stage \in {"status", "poll"} => ToGo = 1
      /\ stage = "data" => /\ ToGo = 1 + request.kind.packets - Len(buffer)
                           /\ Len(buffer) \in Nat /\ Len(buffer) < request.kind.packets
      /\ stage = "setup" => ToGo = 2 + request.kind.packets
      /\ request.kind.packets \in Nat
      /\ ToGo \in Nat /\ (stage # "idle" => ToGo >= 1)
  BY PacketsToGo
<1>2. TransferIInv' =>
       (/\ stage = "idle" => ToGo = 0
        /\ stage \in {"status", "poll"} => ToGo = 1
        /\ stage = "data" => /\ ToGo = 1 + request.kind.packets - Len(buffer)
                             /\ Len(buffer) \in Nat /\ Len(buffer) < request.kind.packets
        /\ stage = "setup" => ToGo = 2 + request.kind.packets
        /\ request.kind.packets \in Nat
        /\ ToGo \in Nat /\ (stage # "idle" => ToGo >= 1))'
  BY PacketsToGo, PTL
<1>3. /\ stage' = "idle" => ToGo' = 0
      /\ stage' \in {"status", "poll"} => ToGo' = 1
      /\ stage' = "data" => /\ ToGo' = 1 + request'.kind.packets - Len(buffer')
                            /\ Len(buffer') \in Nat
      /\ stage' = "setup" => ToGo' = 2 + request'.kind.packets
      /\ ToGo' \in Nat
  BY <1>2
\* What a launch without a packet of data leads to.
<1>4. ASSUME NEW code, NEW onward, Dispatched(code, onward), UNCHANGED <<request, buffer>>,
             stage # "idle", onward # stage,
             \/ onward = "idle"
             \/ onward = "status" /\ ToGo > 1
             \/ onward = "data" /\ stage = "setup" /\ buffer = <<>>
      PROVE  LaunchesLeft >= 1 /\ LaunchesLeft' < LaunchesLeft
  <2>1. CASE Again(code)
    <3>1. stage' = stage
      BY <2>1, <1>4, Zenon DEF Dispatched
    <3>2. stage \in {"setup", "data", "status", "poll"}
      BY <1>0, <1>4 DEF TransferTypeOK
    <3>3. ToGo' = ToGo
      BY <1>1, <1>3, <1>4, <3>1, <3>2
    <3> QED BY <1>3, <1>4, <2>1, <3>3, DispatchCounts
  <2>2. CASE ~Again(code)
    <3>1. stage' = IF code = Ok THEN onward ELSE "idle"
      BY <2>2, <1>4, Zenon DEF Dispatched
    <3>2. buffer = <<>> => Len(buffer') = 0
      BY <1>4
    <3>3. ToGo' < ToGo
      BY <1>1, <1>3, <1>4, <3>1, <3>2
    <3> QED BY <1>3, <1>4, <2>2, <3>3, DispatchCounts
  <2> QED BY <2>1, <2>2
<1>5. CASE Setup
  <2> DEFINE onward == IF request.kind.packets > 0 THEN "data" ELSE "status"
  <2>1. PICK code \in {Ok, Lost, Failed} : Dispatched(code, onward)
    BY <1>5 DEF Setup
  <2>2. stage = "setup" /\ UNCHANGED <<request, buffer>> /\ buffer = <<>>
    BY <1>5 DEF Setup, TransferIInv, AnswerInPart
  <2>3. ToGo > 1 /\ onward \in {"data", "status"}
    BY <1>1, <2>2
  <2> QED BY <1>4, <2>1, <2>2, <2>3
<1>6. CASE Status
  <2>1. PICK code \in {Ok, Nak, Lost, Failed} : Dispatched(code, "idle")
    BY <1>6 DEF Status
  <2>2. stage = "status" /\ UNCHANGED <<request, buffer>>
    BY <1>6 DEF Status
  <2> QED BY <1>4, <2>1, <2>2
<1>7. CASE NothingArrives
  <2>1. PICK code \in {Nak, Lost, Failed} : Dispatched(code, "idle")
    BY <1>7 DEF NothingArrives
  <2>2. stage \in {"data", "poll"} /\ UNCHANGED <<request, buffer>>
    BY <1>7 DEF NothingArrives
  <2> QED BY <1>4, <2>1, <2>2
<1>8. CASE ReportArrives
  <2>1. PICK code \in {Ok, Toggled} : Dispatched(code, "idle")
    BY <1>8 DEF ReportArrives
  <2>2. stage = "poll" /\ UNCHANGED <<request, buffer>>
    BY <1>8 DEF ReportArrives
  <2> QED BY <1>4, <2>1, <2>2
<1>9. CASE DataArrives
  <2>1. stage = "data" /\ request' = request
    BY <1>9 DEF DataArrives
  <2>2. CASE dctl.toggle # toggle
    <3>1. Dispatched(Toggled, "idle") /\ UNCHANGED buffer
      BY <1>9, <2>2 DEF DataArrives
    <3> QED BY <1>4, <2>1, <3>1
  <2>3. CASE dctl.toggle = toggle
    <3> DEFINE onward == IF LastPacket(dctl.acked + 1) THEN "status" ELSE "data"
    <3>1. /\ buffer' = Append(buffer, <<dctl.request.number, dctl.acked + 1>>)
          /\ Dispatched(Ok, onward)
      BY <1>9, <2>3 DEF DataArrives
    <3>2. Len(buffer') = Len(buffer) + 1
      <4>1. buffer = Answer(request, Received)
        BY <2>1 DEF TransferIInv, AnswerInPart
      <4>2. Received \in Nat
        BY <1>0, RequestFields DEF Received
      <4>3. buffer \in Seq(Nat \X Nat)
        BY <1>0, <4>1, <4>2, RequestFields DEF Answer
      <4>4. <<dctl.request.number, dctl.acked + 1>> \in Nat \X Nat
        BY <1>0, RequestFields
      <4> QED BY <3>1, <4>3, <4>4
    <3>3. ~Again(Ok) /\ stage' = onward
      BY <3>1, <1>0, DispatchedTo DEF Again, Ok, Nak, Lost
    <3>4. ToGo' < ToGo
      BY <1>1, <1>3, <2>1, <3>2, <3>3
    <3> QED BY <1>3, <2>1, <3>1, <3>3, <3>4, DispatchCounts
  <2> QED BY <2>2, <2>3
<1> QED BY <1>5, <1>6, <1>7, <1>8, <1>9 DEF Launch

(***************************************************************************)
(* For every USB_NAK_LIMIT, USB_RETRY_LIMIT and size of answer: a transfer *)
(* under way has launches left, and every launch of XferDispatchPkt takes  *)
(* one, whatever the device answers and whatever is lost.                  *)
(***************************************************************************)
THEOREM LaunchesAreBounded == TransferSpec => LaunchesAreCounted
<1>1. TransferIInv /\ TransferIInv' /\ [TransferNext]_transferVars =>
        [stage # "idle" => \/ UNCHANGED firmware
                           \/ LaunchesLeft >= 1 /\ LaunchesLeft' < LaunchesLeft]_transferVars
  <2> SUFFICES ASSUME TransferIInv, TransferIInv', [TransferNext]_transferVars, stage # "idle"
               PROVE  \/ UNCHANGED firmware
                      \/ LaunchesLeft >= 1 /\ LaunchesLeft' < LaunchesLeft
    OBVIOUS
  <2>1. CASE UNCHANGED transferVars
    BY <2>1 DEF transferVars
  <2>2. CASE Report
    BY <2>2 DEF Report
  <2>3. ~Request /\ ~Poll
    BY DEF Request, Poll
  <2> QED BY <2>1, <2>2, <2>3, LaunchCounts DEF TransferNext
<1> QED BY <1>1, TransferInvariant, PTL DEF TransferSpec, LaunchesAreCounted

-----------------------------------------------------------------------------
\* HidProbe.
HIDE BytesAssumption DEF BytesAssumption

\* A device the drivers can run, f its first interface.
Runs(f) ==
  /\ FirstInterface(f) /\ conf[f].protocol # "other"
  /\ \E e \in DOMAIN conf : FirstEndpoint(f, e)

\* The loop has not passed the driver of such a device unless a transfer failed.
NotPassed == \A f \in DOMAIN conf :
  Runs(f) /\ failures = 0 => /\ probe # "error"
                             /\ \E d \in driver .. Len(Drivers) : Drivers[d] = conf[f].protocol

\* No walk has passed what it looks for.
WalkedTo ==
  /\ at \in 1 .. Len(conf) + 1
  /\ probe = "begin" => at = 1
  /\ probe = "walk" => /\ Drivers[driver] \in Protocols
                       /\ \A i \in 1 .. at - 1 : conf[i].type # "interface"

\* What has been done so far for the interface f of the driver's class.
DoneFor(f) ==
  /\ FirstInterface(f)
  /\ devclass \in {"mouse", "keyboard"} /\ devclass = conf[f].protocol
  /\ interface = conf[f].number
  /\ probe = "endpoint" => at >= f /\ \A i \in f + 1 .. at - 1 : conf[i].type # "endpoint"
  /\ probe # "endpoint" => \E e \in DOMAIN conf : FirstEndpoint(f, e) /\ polled = conf[e]

Claimed ==
  /\ probe \in {"endpoint", "set_conf", "set_proto", "running"} =>
       \E f \in DOMAIN conf : DoneFor(f)
  /\ probe \in {"set_proto", "running"} => selected
  /\ probe = "running" => interface \in bootproto

ProbeIInv ==
  /\ conf \in Seq(UsbDescr) /\ driver \in DOMAIN Drivers
  /\ probe \in ProbeState /\ failures \in Nat
  /\ NotPassed /\ WalkedTo /\ Claimed

\* Four drivers.
LEMMA FourDrivers ==
  /\ Len(Drivers) = 4 /\ DOMAIN Drivers = 1..4
  /\ Drivers[1] = "MSD" /\ Drivers[2] = "mouse" /\ Drivers[3] = "keyboard" /\ Drivers[4] = "dummy"
BY DEF Drivers

\* A place of a configuration, and what is there.
LEMMA PlaceOf ==
  ASSUME conf \in Seq(UsbDescr)
  PROVE  /\ Len(conf) \in Nat /\ DOMAIN conf = 1 .. Len(conf)
         /\ \A i \in DOMAIN conf :
              /\ conf[i].length \in {0, 1}
              /\ conf[i].type = "interface" => conf[i].protocol \in Protocols /\ conf[i].number \in Nat
<1>1. Len(conf) \in Nat /\ DOMAIN conf = 1 .. Len(conf)
  OBVIOUS
<1>2. ASSUME NEW i \in DOMAIN conf
      PROVE  /\ conf[i].length \in {0, 1}
             /\ conf[i].type = "interface" => conf[i].protocol \in Protocols /\ conf[i].number \in Nat
  <2>1. conf[i] \in UsbDescr
    BY <1>1
  <2> QED BY <2>1 DEF UsbDescr, Lengths
<1> QED BY <1>1, <1>2

\* There is one first interface, and what the others say of it depends on conf alone.
LEMMA OneFirst ==
  ASSUME conf \in Seq(UsbDescr), NEW f, NEW g, FirstInterface(f), FirstInterface(g)
  PROVE  f = g
<1>1. /\ f \in 1 .. Len(conf) /\ g \in 1 .. Len(conf) /\ Len(conf) \in Nat
      /\ conf[f].type = "interface" /\ conf[g].type = "interface"
      /\ \A i \in 1 .. f - 1 : conf[i].type # "interface"
      /\ \A i \in 1 .. g - 1 : conf[i].type # "interface"
  BY PlaceOf DEF FirstInterface
<1>2. ~(f < g) /\ ~(g < f)
  BY <1>1
<1> QED BY <1>1, <1>2

LEMMA SameConf ==
  ASSUME conf' = conf
  PROVE  /\ \A f : FirstInterface(f)' <=> FirstInterface(f)
         /\ \A f : \A e : FirstEndpoint(f, e)' <=> FirstEndpoint(f, e)
         /\ \A f : Runs(f)' <=> Runs(f)
BY DEF FirstInterface, FirstEndpoint, Runs

\* Power-up.
LEMMA ProbeInitInv == ProbeInit => ProbeIInv
<1> SUFFICES ASSUME ProbeInit PROVE ProbeIInv
  OBVIOUS
<1>1. conf \in Seq(UsbDescr) /\ driver = 1 /\ probe = "begin" /\ failures = 0 /\ at = 1
  BY ConfigurationsAssumption DEF ProbeInit
<1>2. ASSUME NEW f \in DOMAIN conf, Runs(f)
      PROVE  \E d \in 1..4 : Drivers[d] = conf[f].protocol
  <2>1. conf[f].protocol \in {"mouse", "keyboard"}
    BY <1>1, <1>2, PlaceOf DEF Runs, FirstInterface, Protocols
  <2> QED BY <2>1, FourDrivers
<1>3. NotPassed
  BY <1>1, <1>2, FourDrivers DEF NotPassed
<1>4. WalkedTo /\ Claimed
  BY <1>1 DEF WalkedTo, Claimed
<1> QED BY <1>1, <1>3, <1>4, FourDrivers DEF ProbeIInv, ProbeState

\* The loop has not passed any driver while it stays with this one.
LEMMA StaysWithDriver ==
  ASSUME ProbeIInv, UNCHANGED <<conf, driver, failures>>, probe' # "error"
  PROVE  NotPassed'
<1>1. \A f \in DOMAIN conf : Runs(f) /\ failures = 0 =>
        \E d \in driver .. Len(Drivers) : Drivers[d] = conf[f].protocol
  BY DEF ProbeIInv, NotPassed
<1>2. \A f \in DOMAIN conf : Runs(f)' /\ failures' = 0 =>
        probe' # "error" /\ \E d \in driver' .. Len(Drivers) : Drivers[d] = conf'[f].protocol
  BY <1>1, SameConf
<1> QED BY <1>2 DEF NotPassed

\* The next driver, because a transfer failed or this one is not the device's.
LEMMA NextDriverKeeps ==
  ASSUME ProbeIInv, NextDriver, UNCHANGED conf, failures' \in Nat,
         failures' = failures => \A f \in DOMAIN conf : Runs(f) => Drivers[driver] # conf[f].protocol,
         failures' # failures => failures' > 0
  PROVE  ProbeIInv'
<1>1. driver \in 1..4 /\ conf' \in Seq(UsbDescr) /\ Len(conf) \in Nat
  BY FourDrivers, PlaceOf DEF ProbeIInv
<1>2. /\ at' = 1
      /\ \/ driver = 4 /\ probe' = "error" /\ driver' = driver
         \/ driver # 4 /\ probe' = "begin" /\ driver' = driver + 1
  BY FourDrivers DEF NextDriver
<1>3. driver' \in 1..4 /\ probe' \in ProbeState
  BY <1>1, <1>2 DEF ProbeState
<1>4. WalkedTo' /\ Claimed'
  BY <1>1, <1>2 DEF WalkedTo, Claimed
<1>5. ASSUME NEW f \in DOMAIN conf, Runs(f), failures' = 0
      PROVE  probe' # "error" /\ \E d \in driver' .. 4 : Drivers[d] = conf[f].protocol
  <2>1. failures = 0 /\ failures' = failures
    BY <1>5 DEF ProbeIInv
  <2>2. Drivers[driver] # conf[f].protocol /\ conf[f].protocol # "dummy"
    BY <1>5, <2>1, PlaceOf DEF Runs, FirstInterface, ProbeIInv, Protocols
  <2>3. PICK d \in driver .. 4 : Drivers[d] = conf[f].protocol
    BY <1>5, <2>1, FourDrivers DEF ProbeIInv, NotPassed
  <2>4. d # driver /\ d # 4
    BY <2>2, <2>3, FourDrivers
  <2>5. d \in driver + 1 .. 4 /\ driver # 4
    BY <1>1, <2>3, <2>4
  <2> QED BY <1>2, <2>3, <2>5
<1>6. NotPassed'
  BY <1>5, SameConf, FourDrivers DEF NotPassed
<1> QED BY <1>1, <1>3, <1>4, <1>6, FourDrivers DEF ProbeIInv

\* A driver that claims nothing.
LEMMA NoProbeInv == ProbeIInv /\ NoProbe => ProbeIInv'
<1> SUFFICES ASSUME ProbeIInv, NoProbe PROVE ProbeIInv'
  OBVIOUS
<1>1. /\ NextDriver /\ UNCHANGED conf /\ failures' = failures
      /\ Drivers[driver] \notin Protocols
  BY DEF NoProbe
<1>2. \A f \in DOMAIN conf : Runs(f) => conf[f].protocol \in Protocols
  BY PlaceOf DEF ProbeIInv, Runs, FirstInterface
<1>3. failures \in Nat
  BY DEF ProbeIInv
<1> QED BY <1>1, <1>2, <1>3, NextDriverKeeps

\* A transfer that fails moves to the next driver.
LEMMA FailedInv ==
  ASSUME ProbeIInv, NextDriver, failures' = failures + 1, UNCHANGED conf
  PROVE  ProbeIInv'
<1>1. failures \in Nat
  BY DEF ProbeIInv
<1>2. failures' \in Nat /\ failures' # failures /\ failures' > 0
  BY <1>1
<1> QED BY <1>2, NextDriverKeeps

\* The configuration is read, or not.
LEMMA GetConfDescrInv == ProbeIInv /\ GetConfDescr => ProbeIInv'
<1> SUFFICES ASSUME ProbeIInv, GetConfDescr PROVE ProbeIInv'
  OBVIOUS
<1>1. UNCHANGED conf /\ Drivers[driver] \in Protocols
  BY DEF GetConfDescr
<1>2. CASE NextDriver /\ failures' = failures + 1
  BY <1>1, <1>2, FailedInv
<1>3. CASE probe' = "walk" /\ at' = at /\ at = 1 /\ UNCHANGED <<driver, failures>>
  <2>1. NotPassed'
    BY <1>1, <1>3, StaysWithDriver
  <2>2. WalkedTo' /\ Claimed'
    BY <1>1, <1>3 DEF ProbeIInv, WalkedTo, Claimed
  <2> QED BY <1>1, <1>3, <2>1, <2>2 DEF ProbeIInv, ProbeState
<1> QED BY <1>2, <1>3 DEF GetConfDescr, Transferred, ProbeIInv, WalkedTo

\* A turn of a walk that goes on: no further than behind the last descriptor.
LEMMA StepOn ==
  ASSUME ProbeIInv, ~AtEnd
  PROVE  /\ at \in DOMAIN conf /\ conf[at].length \in {0, 1}
         /\ at + conf[at].length \in 1 .. Len(conf) + 1
<1>1. at \in DOMAIN conf
  BY PlaceOf DEF ProbeIInv, WalkedTo, AtEnd
<1>2. conf[at].length \in {0, 1} /\ Len(conf) \in Nat /\ at \in 1 .. Len(conf)
  BY <1>1, PlaceOf DEF ProbeIInv
<1> QED BY <1>1, <1>2

\* The outer loop.
LEMMA WalkInv == ProbeIInv /\ Walk => ProbeIInv'
<1> SUFFICES ASSUME ProbeIInv, Walk PROVE ProbeIInv'
  OBVIOUS
<1>1. /\ UNCHANGED <<conf, selected, bootproto, polled, failures>> /\ failures \in Nat
      /\ probe = "walk"
  BY DEF Walk, ProbeIInv
<1>2. /\ Drivers[driver] \in Protocols /\ Len(conf) \in Nat /\ DOMAIN conf = 1 .. Len(conf)
      /\ at \in 1 .. Len(conf) + 1
      /\ \A i \in 1 .. at - 1 : conf[i].type # "interface"
  BY <1>1, PlaceOf DEF ProbeIInv, WalkedTo
<1>3. CASE AtEnd
  <2>1. NextDriver
    BY <1>3 DEF Walk
  <2>2. \A f \in DOMAIN conf : ~Runs(f)
    BY <1>2, <1>3 DEF AtEnd, Runs, FirstInterface
  <2> QED BY <1>1, <2>1, <2>2, NextDriverKeeps
<1>4. CASE ~AtEnd /\ conf[at].type # "interface"
  <2>1. /\ at' = at + conf[at].length /\ UNCHANGED <<probe, driver, devclass, interface>>
        /\ probe' # "error"
    BY <1>1, <1>4 DEF Walk, WalkOn
  <2>2. NotPassed'
    BY <1>1, <2>1, StaysWithDriver
  <2>3. \A i \in 1 .. at' - 1 : conf[i].type # "interface"
    BY <1>2, <1>4, <2>1, StepOn
  <2>4. WalkedTo' /\ Claimed'
    BY <1>1, <1>2, <1>4, <2>1, <2>3, StepOn DEF WalkedTo, Claimed
  <2> QED BY <1>1, <2>1, <2>2, <2>4 DEF ProbeIInv
<1>5. ASSUME ~AtEnd, conf[at].type = "interface"
      PROVE  FirstInterface(at) /\ \A f \in DOMAIN conf : Runs(f) => f = at
  <2>1. FirstInterface(at)
    BY <1>2, <1>5, StepOn DEF FirstInterface
  <2> QED BY <2>1, OneFirst DEF ProbeIInv, Runs
<1>6. CASE ~AtEnd /\ conf[at].type = "interface" /\ conf[at].protocol # Drivers[driver]
  <2>1. NextDriver
    BY <1>6 DEF Walk
  <2> QED BY <1>1, <1>5, <1>6, <2>1, NextDriverKeeps
<1>7. CASE ~AtEnd /\ conf[at].type = "interface" /\ conf[at].protocol = Drivers[driver]
  <2>1. /\ devclass' = conf[at].protocol /\ interface' = conf[at].number
        /\ at' = at + conf[at].length /\ probe' = "endpoint" /\ UNCHANGED driver
    BY <1>7 DEF Walk, ClaimHere
  <2>2. NotPassed'
    BY <1>1, <2>1, StaysWithDriver
  <2>3. WalkedTo'
    BY <1>1, <1>7, <2>1, StepOn DEF WalkedTo
  <2>4. devclass' \in {"mouse", "keyboard"}
    BY <1>2, <1>7, <2>1, FourDrivers DEF ProbeIInv, Protocols
  <2>5. at' >= at /\ \A i \in at + 1 .. at' - 1 : conf[i].type # "endpoint"
    BY <1>2, <1>7, <2>1, StepOn
  <2>6. PICK f \in DOMAIN conf : f = at
    BY <1>7, StepOn
  <2>7. FirstInterface(f)'
    BY <1>1, <1>5, <1>7, <2>6, SameConf
  <2>8. Claimed'
    <3>1. DoneFor(f)'
      BY <1>1, <2>1, <2>4, <2>5, <2>6, <2>7 DEF DoneFor
    <3> QED BY <1>1, <2>1, <2>6, <3>1 DEF Claimed
  <2> QED BY <1>1, <2>1, <2>2, <2>3, <2>8 DEF ProbeIInv, ProbeState
<1> QED BY <1>3, <1>4, <1>6, <1>7

\* The inner loop.
LEMMA FindEndpointInv == ProbeIInv /\ FindEndpoint => ProbeIInv'
<1> SUFFICES ASSUME ProbeIInv, FindEndpoint PROVE ProbeIInv'
  OBVIOUS
<1>1. /\ UNCHANGED <<conf, selected, bootproto, devclass, interface, failures>>
      /\ failures \in Nat /\ probe = "endpoint"
  BY DEF FindEndpoint, ProbeIInv
<1>2. /\ Len(conf) \in Nat /\ DOMAIN conf = 1 .. Len(conf) /\ at \in 1 .. Len(conf) + 1
      /\ \E f \in DOMAIN conf : DoneFor(f)
  BY <1>1, PlaceOf DEF ProbeIInv, WalkedTo, Claimed
<1>3. PICK f \in DOMAIN conf : DoneFor(f)
  BY <1>2
<1>4. /\ FirstInterface(f) /\ devclass \in {"mouse", "keyboard"} /\ devclass = conf[f].protocol
      /\ interface = conf[f].number /\ at >= f
      /\ \A i \in f + 1 .. at - 1 : conf[i].type # "endpoint"
  BY <1>1, <1>3 DEF DoneFor
<1>5. conf[f].type = "interface" /\ FirstInterface(f)'
  BY <1>1, <1>4, SameConf DEF FirstInterface
<1>6. CASE AtEnd
  <2>1. NextDriver
    BY <1>6 DEF FindEndpoint
  <2>2. \A g \in DOMAIN conf : ~Runs(g)
    <3>1. \A e \in DOMAIN conf : ~FirstEndpoint(f, e)
      BY <1>2, <1>4, <1>6 DEF AtEnd, FirstEndpoint
    <3> QED BY <1>4, <3>1, OneFirst DEF Runs, ProbeIInv
  <2> QED BY <1>1, <2>1, <2>2, NextDriverKeeps
<1>7. CASE ~AtEnd /\ conf[at].type # "endpoint"
  <2>1. at' = at + conf[at].length /\ UNCHANGED <<probe, driver, polled>> /\ probe' # "error"
    BY <1>1, <1>7 DEF FindEndpoint, WalkOn
  <2>2. NotPassed'
    BY <1>1, <2>1, StaysWithDriver
  <2>3. at' >= f /\ \A i \in f + 1 .. at' - 1 : conf[i].type # "endpoint"
    BY <1>2, <1>4, <1>7, <2>1, StepOn
  <2>4. DoneFor(f)'
    BY <1>1, <1>4, <1>5, <2>1, <2>3 DEF DoneFor
  <2>5. WalkedTo'
    BY <1>1, <1>7, <2>1, StepOn DEF WalkedTo
  <2>6. Claimed'
    BY <1>1, <2>1, <2>4 DEF Claimed
  <2> QED BY <1>1, <2>1, <2>2, <2>5, <2>6 DEF ProbeIInv
<1>8. CASE ~AtEnd /\ conf[at].type = "endpoint"
  <2>1. polled' = conf[at] /\ probe' = "set_conf" /\ UNCHANGED <<at, driver>>
    BY <1>8 DEF FindEndpoint
  <2>2. NotPassed'
    BY <1>1, <2>1, StaysWithDriver
  <2>3. at \in DOMAIN conf /\ FirstEndpoint(f, at)
    BY <1>2, <1>4, <1>5, <1>8, StepOn DEF FirstEndpoint
  <2>4. \E e \in DOMAIN conf : FirstEndpoint(f, e)' /\ polled' = conf[e]
    BY <1>1, <2>1, <2>3, SameConf
  <2>5. DoneFor(f)'
    BY <1>1, <1>4, <1>5, <2>1, <2>4 DEF DoneFor
  <2>6. WalkedTo'
    BY <1>1, <1>2, <2>1 DEF WalkedTo
  <2>7. Claimed'
    BY <1>1, <2>1, <2>5 DEF Claimed
  <2> QED BY <1>1, <2>1, <2>2, <2>6, <2>7 DEF ProbeIInv, ProbeState
<1> QED BY <1>6, <1>7, <1>8

\* What has been done for an interface stays done while the device is configured.
LEMMA StaysDone ==
  ASSUME ProbeIInv, probe \in {"set_conf", "set_proto"}, probe' \in {"set_proto", "running"},
         UNCHANGED <<conf, devclass, polled, interface>>
  PROVE  \E f \in DOMAIN conf' : DoneFor(f)'
<1>1. PICK f \in DOMAIN conf : DoneFor(f)
  BY DEF ProbeIInv, Claimed
<1>2. PICK e \in DOMAIN conf : FirstEndpoint(f, e) /\ polled = conf[e]
  BY <1>1 DEF DoneFor
<1>3. FirstInterface(f)' /\ FirstEndpoint(f, e)'
  BY <1>1, <1>2, SameConf DEF DoneFor
<1>4. DoneFor(f)'
  BY <1>1, <1>2, <1>3 DEF DoneFor
<1> QED BY <1>4

\* The device is configured, or not.
LEMMA SetConfInv == ProbeIInv /\ SetConf => ProbeIInv'
<1> SUFFICES ASSUME ProbeIInv, SetConf PROVE ProbeIInv'
  OBVIOUS
<1>1. UNCHANGED <<conf, bootproto, devclass, polled, interface>> /\ probe = "set_conf"
  BY DEF SetConf
<1>2. CASE NextDriver /\ failures' = failures + 1
  BY <1>1, <1>2, FailedInv
<1>3. CASE /\ probe' = "set_proto" /\ UNCHANGED <<at, driver, failures>>
           /\ selected' = TRUE
  <2>1. NotPassed'
    BY <1>1, <1>3, StaysWithDriver
  <2>2. WalkedTo'
    BY <1>1, <1>3 DEF ProbeIInv, WalkedTo
  <2>3. Claimed'
    BY <1>1, <1>3, StaysDone DEF Claimed
  <2> QED BY <1>1, <1>3, <2>1, <2>2, <2>3 DEF ProbeIInv, ProbeState
<1> QED BY <1>2, <1>3 DEF SetConf, Transferred

\* The boot protocol is chosen, or not.
LEMMA SetProtoInv == ProbeIInv /\ SetProto => ProbeIInv'
<1> SUFFICES ASSUME ProbeIInv, SetProto PROVE ProbeIInv'
  OBVIOUS
<1>1. UNCHANGED <<conf, selected, devclass, polled, interface>> /\ probe = "set_proto" /\ selected
  BY DEF SetProto, ProbeIInv, Claimed
<1>2. CASE NextDriver /\ failures' = failures + 1
  BY <1>1, <1>2, FailedInv
<1>3. CASE /\ probe' = "running" /\ UNCHANGED <<at, driver, failures>>
           /\ bootproto' = bootproto \cup {interface}
  <2>1. NotPassed'
    BY <1>1, <1>3, StaysWithDriver
  <2>2. WalkedTo'
    BY <1>1, <1>3 DEF ProbeIInv, WalkedTo
  <2>3. Claimed'
    BY <1>1, <1>3, StaysDone DEF Claimed
  <2> QED BY <1>1, <1>3, <2>1, <2>2, <2>3 DEF ProbeIInv, ProbeState
<1> QED BY <1>2, <1>3 DEF SetProto, Transferred

\* No step of the probes leaves ProbeIInv.
LEMMA ProbeNextInv == ProbeIInv /\ [ProbeNext]_probeVars => ProbeIInv'
<1> SUFFICES ASSUME ProbeIInv, [ProbeNext]_probeVars PROVE ProbeIInv'
  OBVIOUS
<1>1. CASE UNCHANGED probeVars
  <2>1. UNCHANGED <<conf, selected, bootproto, driver, probe, at, devclass, polled, interface, failures>>
    BY <1>1 DEF probeVars
  <2>2. NotPassed' <=> NotPassed
    BY <2>1, SameConf DEF NotPassed
  <2>3. WalkedTo' <=> WalkedTo
    BY <2>1 DEF WalkedTo
  <2>4. \A f : DoneFor(f)' <=> DoneFor(f)
    BY <2>1, SameConf DEF DoneFor
  <2>5. Claimed' <=> Claimed
    BY <2>1, <2>4 DEF Claimed
  <2> QED BY <2>1, <2>2, <2>3, <2>5 DEF ProbeIInv
<1> QED BY <1>1, NoProbeInv, GetConfDescrInv, WalkInv, FindEndpointInv, SetConfInv,
           SetProtoInv DEF ProbeNext

(***************************************************************************)
(* For every set of devices, whatever descriptors they have, in whatever   *)
(* order and of whatever length: a device runs as what its first interface *)
(* is, configured, with that interface in the boot protocol and the first  *)
(* endpoint behind it polled, whatever failed before; and a boot device    *)
(* ends in error only when a transfer failed (HID.c, transfer.c).          *)
(***************************************************************************)
THEOREM ProbesAreRight == ProbeSpec => []ProbeIsRight
<1>1. ProbeIInv => ProbeIsRight
  <2> SUFFICES ASSUME ProbeIInv PROVE ProbeIsRight
    OBVIOUS
  <2>1. ASSUME probe = "running"
        PROVE  \E f, e \in DOMAIN conf :
                 /\ FirstInterface(f) /\ FirstEndpoint(f, e)
                 /\ devclass = conf[f].protocol /\ interface = conf[f].number
                 /\ selected /\ interface \in bootproto
                 /\ polled = conf[e]
    <3>1. PICK f \in DOMAIN conf : DoneFor(f)
      BY <2>1 DEF ProbeIInv, Claimed
    <3>2. PICK e \in DOMAIN conf : FirstEndpoint(f, e) /\ polled = conf[e]
      BY <2>1, <3>1 DEF DoneFor
    <3>3. selected /\ interface \in bootproto
      BY <2>1 DEF ProbeIInv, Claimed
    <3> QED BY <3>1, <3>2, <3>3 DEF DoneFor
  <2>2. ASSUME probe = "error", ~(failures > 0), Bootable
        PROVE  FALSE
    <3>1. failures = 0
      BY <2>2 DEF ProbeIInv
    <3>2. PICK f \in DOMAIN conf : Runs(f)
      BY <2>2 DEF Bootable, Runs
    <3> QED BY <2>2, <3>1, <3>2 DEF ProbeIInv, NotPassed
  <2> QED BY <2>1, <2>2 DEF ProbeIsRight
<1> QED BY <1>1, ProbeInitInv, ProbeNextInv, PTL DEF ProbeSpec


\* A class is only written for a device that has it, and stays.
WroteClass == devclass # "none" => \E f \in DOMAIN conf :
  FirstInterface(f) /\ devclass = conf[f].protocol /\ devclass \in {"mouse", "keyboard"}

LEMMA WroteClassNext ==
  ASSUME ProbeIInv, ProbeIInv', WroteClass, [ProbeNext]_probeVars
  PROVE  WroteClass'
<1>1. CASE UNCHANGED <<devclass, conf>>
  BY <1>1, SameConf DEF WroteClass
<1>2. CASE Walk
  <2>1. UNCHANGED <<devclass, conf>> \/ probe' = "endpoint"
    BY <1>2 DEF Walk, ClaimHere
  <2>2. ProbeIInv' => (probe = "endpoint" => \E f \in DOMAIN conf : DoneFor(f))'
    BY DEF ProbeIInv, Claimed
  <2>3. CASE probe' = "endpoint"
    BY <2>2, <2>3 DEF WroteClass, DoneFor
  <2> QED BY <1>1, <2>1, <2>3
<1>3. NoProbe \/ GetConfDescr \/ FindEndpoint \/ SetConf \/ SetProto
        => UNCHANGED <<devclass, conf>>
  BY DEF NoProbe, GetConfDescr, FindEndpoint, SetConf, SetProto
<1> QED BY <1>1, <1>2, <1>3 DEF ProbeNext, probeVars

\* A step of the probes ends them, or changes nothing that the host looks at.
LEMMA ProbeStepEnds ==
  ASSUME ProbeNext
  PROVE  /\ ~Done /\ conf' = conf
         /\ ~Done' \/ devclass' = devclass
<1>1. CASE NoProbe
  BY <1>1 DEF NoProbe, Done
<1>2. CASE GetConfDescr
  BY <1>2 DEF GetConfDescr, Done
<1>3. CASE Walk
  BY <1>3 DEF Walk, WalkOn, ClaimHere, Done
<1>4. CASE FindEndpoint
  BY <1>4 DEF FindEndpoint, Done
<1>5. CASE SetConf
  BY <1>5 DEF SetConf, Done
<1>6. CASE SetProto
  BY <1>6 DEF SetProto, Done
<1> QED BY <1>1, <1>2, <1>3, <1>4, <1>5, <1>6 DEF ProbeNext

\* The kind of a device is what its first interface is, and stays.
LEMMA KindOf ==
  ASSUME conf \in Seq(UsbDescr), NEW f \in DOMAIN conf, FirstInterface(f)
  PROVE  Kind = conf[f].protocol
<1> DEFINE P(p) == \/ \E g \in DOMAIN conf : FirstInterface(g) /\ p = conf[g].protocol
                   \/ p = "other" /\ \A i \in DOMAIN conf : conf[i].type # "interface"
<1>1. conf[f].type = "interface"
  BY DEF FirstInterface
<1>2. conf[f].protocol \in Protocols /\ P(conf[f].protocol)
  BY <1>1, PlaceOf
<1>3. ASSUME NEW p \in Protocols, P(p) PROVE p = conf[f].protocol
  BY <1>1, <1>3, OneFirst
<1>4. Kind = CHOOSE p \in Protocols : P(p)
  BY DEF Kind
<1> HIDE DEF P
<1> QED BY <1>2, <1>3, <1>4

LEMMA KindStays == ASSUME conf' = conf PROVE Kind' = Kind
<1> DEFINE First(c, f) == /\ f \in DOMAIN c /\ c[f].type = "interface"
                          /\ \A i \in 1 .. f - 1 : c[i].type # "interface"
           K(c) == CHOOSE p \in Protocols :
                     \/ \E f \in DOMAIN c : First(c, f) /\ p = c[f].protocol
                     \/ p = "other" /\ \A i \in DOMAIN c : c[i].type # "interface"
<1>1. Kind = K(conf)
  BY DEF Kind, FirstInterface
<1>2. Kind' = K(conf')
  BY DEF Kind, FirstInterface
<1> HIDE DEF K
<1> QED BY <1>1, <1>2

\* The step of the host that the end of the probes is.
LEMMA ProbeEndMaps ==
  ASSUME ProbeIInv, ProbeIInv', WroteClass, ~Done, Done', conf' = conf, devclass' = devclass
  PROVE  Host!Claim \/ Host!NoDriver
<1>1. probe' \in {"running", "error"} /\ ~HasRun
  BY DEF Done, HasRun
<1>2. Host!TaskStep(48)
  <2>1. probe \notin {"running", "error"}
    BY DEF Done
  <2> QED BY <2>1 DEF Host!TaskStep
<1>3. Kind' = Kind
  BY KindStays
<1>4. CASE devclass # "none"
  <2>1. Kind = devclass /\ devclass \in {"mouse", "keyboard"}
    BY <1>4, KindOf DEF WroteClass, ProbeIInv
  <2>2. HasRun'
    BY <1>4 DEF HasRun
  <2>3. Host!Class[Kind] = ClassOf[devclass] /\ ClassOf[devclass] \in {1, 2}
    BY <2>1 DEF Host!Class, Host!HID_K, Host!HID_M, ClassOf
  <2>4. Host!Answers(1)
    BY <2>1 DEF Host!Answers, Host!Kinds
  <2> DEFINE t == [i \in {1} |-> [ep |-> IF HasRun THEN "hid_ep" ELSE "dev0ep",
                                  class |-> IF HasRun THEN ClassOf[devclass] ELSE 0]]
  <2>5. t' = [t EXCEPT ![1] = [ep |-> "hid_ep", class |-> Host!Class[Kind]]]
    <3>1. t' = [i \in {1} |-> [ep |-> "hid_ep", class |-> ClassOf[devclass]]]
      BY <2>2
    <3> QED BY <2>3, <3>1
  <2>6. Host!Claim
    BY <1>1, <1>2, <1>3, <2>2, <2>3, <2>4, <2>5
       DEF Host!Claim, Host!chip, Host!bus, Host!Configuring, Host!Running, Host!Error,
           Host!HID_K, Host!HID_M
  <2> QED BY <2>6
<1>5. CASE devclass = "none"
  <2>1. ~HasRun'
    BY <1>5 DEF HasRun
  <2>2. probe' = "error"
    <3>1. ProbeIInv' => (probe = "running" => \E f \in DOMAIN conf : DoneFor(f))'
      BY DEF ProbeIInv, Claimed
    <3> QED BY <1>1, <1>5, <3>1 DEF DoneFor
  <2>3. Host!NoDriver
    BY <1>1, <1>2, <1>3, <2>1, <2>2
       DEF Host!NoDriver, Host!chip, Host!bus, Host!Configuring, Host!Error
  <2> QED BY <2>3
<1> QED BY <1>4, <1>5

\* The steps of the drivers behind d, n the number of descriptors.
OfOthers(n, d) == (n + 4) * (4 - d)

LEMMA OthersOf ==
  ASSUME NEW n \in Nat, NEW d \in 1..4
  PROVE  /\ OfOthers(n, d) \in Nat
         /\ d # 4 => OfOthers(n, d) = OfOthers(n, d + 1) + n + 4
<1>1. /\ OfOthers(n, 1) = 3 * n + 12 /\ OfOthers(n, 2) = 2 * n + 8
      /\ OfOthers(n, 3) = n + 4 /\ OfOthers(n, 4) = 0
  BY DEF OfOthers
<1>2. 1 + 1 = 2 /\ 2 + 1 = 3 /\ 3 + 1 = 4
  OBVIOUS
<1>3. CASE d = 1
  BY <1>1, <1>2, <1>3
<1>4. CASE d = 2
  BY <1>1, <1>2, <1>4
<1>5. CASE d = 3
  BY <1>1, <1>2, <1>5
<1>6. CASE d = 4
  BY <1>1, <1>6
<1> QED BY <1>3, <1>4, <1>5, <1>6

\* ProbeStepsLeft, place by place.
ProbeDue ==
  /\ driver \in 1..4 /\ probe \in ProbeState
  /\ Len(conf) \in Nat /\ at \in 1 .. Len(conf) + 1
  /\ Done => ProbeStepsLeft = 0
  /\ probe = "begin"     => ProbeStepsLeft = OfOthers(Len(conf), driver) + (Len(conf) + 4)
  /\ probe = "walk"      => ProbeStepsLeft = OfOthers(Len(conf), driver) + (Len(conf) + 4 - at)
  /\ probe = "endpoint"  => ProbeStepsLeft = OfOthers(Len(conf), driver) + (Len(conf) + 3 - at)
  /\ probe = "set_conf"  => ProbeStepsLeft = OfOthers(Len(conf), driver) + 2
  /\ probe = "set_proto" => ProbeStepsLeft = OfOthers(Len(conf), driver) + 1

LEMMA ProbeDueHolds == ProbeIInv => ProbeDue
<1> SUFFICES ASSUME ProbeIInv PROVE ProbeDue
  OBVIOUS
<1>1. /\ Len(Drivers) = 4 /\ driver \in 1..4 /\ probe \in ProbeState
      /\ Len(conf) \in Nat /\ at \in 1 .. Len(conf) + 1
  BY PlaceOf, FourDrivers DEF ProbeIInv, WalkedTo
<1>2. CASE Done
  BY <1>1, <1>2 DEF ProbeDue, ProbeStepsLeft, Done
<1>3. CASE ~Done
  <2> DEFINE base == OfOthers(Len(conf), driver)
             steps == [begin    |-> DriverSteps, walk      |-> ToWalk + 3,
                       endpoint |-> ToWalk + 2,  set_conf  |-> 2, set_proto |-> 1]
  <2>1. ProbeStepsLeft = base + steps[probe]
    BY <1>1, <1>3 DEF ProbeStepsLeft, OfOthers, DriverSteps
  <2>2. /\ steps["begin"] = DriverSteps /\ steps["set_conf"] = 2 /\ steps["set_proto"] = 1
        /\ steps["walk"] = ToWalk + 3 /\ steps["endpoint"] = ToWalk + 2
    OBVIOUS
  <2>3. /\ DriverSteps = Len(conf) + 4
        /\ ToWalk + 3 = Len(conf) + 4 - at /\ ToWalk + 2 = Len(conf) + 3 - at
    BY <1>1 DEF DriverSteps, ToWalk
  <2> HIDE DEF steps, base
  <2>4. /\ probe = "begin" => ProbeStepsLeft = base + (Len(conf) + 4)
        /\ probe = "walk" => ProbeStepsLeft = base + (Len(conf) + 4 - at)
        /\ probe = "endpoint" => ProbeStepsLeft = base + (Len(conf) + 3 - at)
        /\ probe = "set_conf" => ProbeStepsLeft = base + 2
        /\ probe = "set_proto" => ProbeStepsLeft = base + 1
    BY <2>1, <2>2, <2>3
  <2> QED BY <1>1, <1>3, <2>4 DEF ProbeDue, base
<1> QED BY <1>2, <1>3

ProbeNearer == ProbeStepsLeft' \in 0 .. ProbeStepsLeft - 1

\* A driver that gives up leaves the next one as many steps as it had.
LEMMA NextDriverIsNearer ==
  ASSUME ProbeDue, ProbeDue', NextDriver, ~Done, conf' = conf
  PROVE  ProbeNearer
<1> DEFINE n     == Len(conf)
           base  == OfOthers(n, driver)
           left  == ProbeStepsLeft
           after == ProbeStepsLeft'
<1>1. /\ Len(Drivers) = 4 /\ driver \in 1..4 /\ n \in Nat /\ base \in Nat
      /\ driver # 4 => base = OfOthers(n, driver + 1) + n + 4
  BY FourDrivers, OthersOf DEF ProbeDue
<1>2. left \in Nat /\ left >= base + 1
  <2>1. probe \in {"begin", "walk", "endpoint", "set_conf", "set_proto"}
    BY DEF ProbeDue, ProbeState, Done
  <2>2. at \in 1 .. n + 1
    BY DEF ProbeDue
  <2>3. left \in {base + (n + 4), base + (n + 4 - at), base + (n + 3 - at), base + 2, base + 1}
    BY <2>1 DEF ProbeDue
  <2> HIDE DEF base, left, n
  <2> QED BY <1>1, <2>2, <2>3
<1>3. CASE driver = 4
  <2>1. probe' = "error"
    BY <1>1, <1>3 DEF NextDriver
  <2>2. after = 0
    BY <2>1 DEF ProbeDue, Done
  <2> HIDE DEF base, left, after
  <2>3. after \in 0 .. left - 1
    BY <1>1, <1>2, <2>2
  <2> QED BY <2>3 DEF ProbeNearer, left, after
<1>4. CASE driver # 4
  <2>1. probe' = "begin" /\ driver' = driver + 1
    BY <1>1, <1>4 DEF NextDriver
  <2>2. after = OfOthers(Len(conf'), driver') + (Len(conf') + 4)
    BY <2>1 DEF ProbeDue
  <2>3. after = OfOthers(n, driver + 1) + (n + 4)
    BY <2>1, <2>2
  <2>4. OfOthers(n, driver + 1) \in Nat
    <3>1. driver + 1 \in 1..4
      BY <1>1, <1>4
    <3> QED BY <1>1, <3>1, OthersOf
  <2> DEFINE rest == OfOthers(n, driver + 1)
  <2> HIDE DEF base, left, after, n, rest
  <2>5. after \in 0 .. left - 1
    BY <1>1, <1>2, <1>4, <2>3, <2>4 DEF rest
  <2> QED BY <2>5 DEF ProbeNearer, left, after
<1> QED BY <1>3, <1>4

\* A step that stays with its driver.
LEMMA StaysIsNearer ==
  ASSUME ProbeIInv, ProbeDue, ProbeDue', ProbeNext, ~NextDriver, ~UNCHANGED probeVars
  PROVE  ProbeNearer
<1> DEFINE n     == Len(conf)
           base  == OfOthers(n, driver)
           left  == ProbeStepsLeft
           after == ProbeStepsLeft'
<1>1. n \in Nat /\ base \in Nat /\ at \in 1 .. n + 1
  BY OthersOf DEF ProbeDue
<1>2. ASSUME NEW a \in Nat, NEW b \in Nat, a > b, left = base + a, after = base + b
      PROVE  ProbeNearer
  <2> HIDE DEF base, left, after
  <2>1. after \in 0 .. left - 1
    BY <1>1, <1>2
  <2> QED BY <2>1 DEF ProbeNearer, left, after
<1>3. CASE GetConfDescr
  <2>1. probe = "begin" /\ probe' = "walk" /\ at' = at /\ at = 1 /\ UNCHANGED <<conf, driver>>
    BY <1>3 DEF GetConfDescr, Transferred, ProbeIInv, WalkedTo
  <2>2. left = base + (n + 4) /\ after = base + (n + 3)
    BY <1>1, <2>1 DEF ProbeDue
  <2> QED BY <1>1, <1>2, <2>2
<1>4. CASE Walk /\ ~AtEnd
  <2>1. /\ at \in 1 .. n /\ conf[at].length \in {0, 1}
        /\ at' = at + conf[at].length /\ UNCHANGED <<conf, driver>> /\ probe = "walk"
        /\ left = base + (n + 4 - at)
    BY <1>4, StepOn, PlaceOf DEF Walk, WalkOn, ClaimHere, ProbeDue, ProbeIInv
  <2>2. CASE conf[at].type # "interface"
    <3>1. probe' = "walk"
      BY <1>4, <2>1, <2>2 DEF Walk, WalkOn
    <3>2. conf[at].length # 0
      <4>1. UNCHANGED <<conf, selected, bootproto, driver, probe, devclass, polled, interface, failures>>
        BY <1>4, <2>2 DEF Walk, WalkOn
      <4> QED BY <2>1, <4>1 DEF probeVars
    <3>3. at' = at + 1
      BY <2>1, <3>2
    <3>4. after = base + (n + 4 - at')
      BY <2>1, <3>1 DEF ProbeDue
    <3> QED BY <1>1, <1>2, <2>1, <3>3, <3>4
  <2>3. CASE conf[at].type = "interface"
    <3>1. probe' = "endpoint"
      BY <1>4, <2>3 DEF Walk, ClaimHere
    <3>2. after = base + (n + 3 - at') /\ at' \in {at, at + 1}
      BY <2>1, <3>1 DEF ProbeDue
    <3> QED BY <1>1, <1>2, <2>1, <3>2
  <2> QED BY <2>2, <2>3
<1>5. CASE FindEndpoint /\ ~AtEnd
  <2>1. /\ at \in 1 .. n /\ conf[at].length \in {0, 1}
        /\ UNCHANGED <<conf, driver>> /\ probe = "endpoint" /\ left = base + (n + 3 - at)
    BY <1>5, StepOn, PlaceOf DEF FindEndpoint, WalkOn, ProbeDue, ProbeIInv
  <2>2. CASE conf[at].type # "endpoint"
    <3>1. probe' = "endpoint" /\ at' = at + conf[at].length
      BY <1>5, <2>1, <2>2 DEF FindEndpoint, WalkOn
    <3>2. conf[at].length # 0
      <4>1. UNCHANGED <<conf, selected, bootproto, driver, probe, devclass, polled, interface, failures>>
        BY <1>5, <2>2 DEF FindEndpoint, WalkOn
      <4> QED BY <2>1, <3>1, <4>1 DEF probeVars
    <3>3. at' = at + 1
      BY <2>1, <3>1, <3>2
    <3>4. after = base + (n + 3 - at')
      BY <2>1, <3>1 DEF ProbeDue
    <3> QED BY <1>1, <1>2, <2>1, <3>3, <3>4
  <2>3. CASE conf[at].type = "endpoint"
    <3>1. probe' = "set_conf"
      BY <1>5, <2>3 DEF FindEndpoint
    <3>2. after = base + 2
      BY <2>1, <3>1 DEF ProbeDue
    <3> QED BY <1>1, <1>2, <2>1, <3>2
  <2> QED BY <2>2, <2>3
<1>6. CASE SetConf
  <2>1. probe = "set_conf" /\ probe' = "set_proto" /\ UNCHANGED <<conf, driver>>
    BY <1>6 DEF SetConf, Transferred
  <2>2. left = base + 2 /\ after = base + 1
    BY <2>1 DEF ProbeDue
  <2> QED BY <1>2, <2>2
<1>7. CASE SetProto
  <2>1. probe = "set_proto" /\ probe' = "running"
    BY <1>7 DEF SetProto, Transferred
  <2>2. left = base + 1 /\ after = 0
    BY <2>1 DEF ProbeDue, Done
  <2> HIDE DEF base, left, after
  <2>3. after \in 0 .. left - 1
    BY <1>1, <2>2
  <2> QED BY <2>3 DEF ProbeNearer, left, after
<1>8. (NoProbe \/ Walk \/ FindEndpoint) /\ AtEnd => NextDriver
  BY DEF NoProbe, Walk, FindEndpoint
<1> QED BY <1>3, <1>4, <1>5, <1>6, <1>7, <1>8 DEF ProbeNext, NoProbe

(***************************************************************************)
(* For every set of devices, whatever descriptors they have and whatever   *)
(* lengths these give themselves: the probes of HID.c, transfer by         *)
(* transfer and descriptor by descriptor, are the one step that UsbHost    *)
(* takes for them, Claim or NoDriver, and before it each driver of the     *)
(* table takes no more steps than there are descriptors, and four more.    *)
(* A driver may take fewer and never be done: a descriptor of length 0 is  *)
(* where its walk stays, and no step is taken any more.                    *)
(***************************************************************************)
THEOREM ProbesAreOneStep == ProbeSpec => ProbeIsOneStep
<1>1. ProbeInit => WroteClass
  BY DEF ProbeInit, WroteClass
<1>2. ProbeIInv /\ ProbeIInv' /\ WroteClass /\ [ProbeNext]_probeVars => WroteClass'
  BY WroteClassNext
<1>3. ProbeIInv /\ ProbeIInv' /\ WroteClass /\ [ProbeNext]_probeVars
        => [Host!Claim \/ Host!NoDriver]_(Host!vars)
  <2> SUFFICES ASSUME ProbeIInv, ProbeIInv', WroteClass, [ProbeNext]_probeVars
               PROVE  Host!Claim \/ Host!NoDriver \/ UNCHANGED Host!vars
    OBVIOUS
  <2>1. Kind' = Kind
    BY ProbeStepEnds, KindStays DEF probeVars
  <2>2. CASE UNCHANGED probeVars
    BY <2>1, <2>2 DEF probeVars, Host!vars, Host!host, Host!chip, Host!bus, Done, HasRun
  <2>3. CASE ProbeNext /\ ~Done'
    <3>1. ~Done
      BY <2>3, ProbeStepEnds
    <3>2. ~HasRun /\ ~HasRun'
      BY <2>3, <3>1 DEF HasRun
    <3>3. probe \notin {"running", "error"} /\ probe' \notin {"running", "error"}
      BY <2>3, <3>1 DEF Done
    <3> QED BY <2>1, <2>3, <3>1, <3>2, <3>3 DEF Host!vars, Host!host, Host!chip, Host!bus
  <2>4. CASE ProbeNext /\ Done'
    BY <2>4, ProbeStepEnds, ProbeEndMaps
  <2> QED BY <2>2, <2>3, <2>4
<1>4. ProbeIInv /\ ProbeDue /\ ProbeDue' /\ [ProbeNext]_probeVars => [ProbeNearer]_probeVars
  BY NextDriverIsNearer, StaysIsNearer, ProbeStepEnds
<1> QED BY <1>1, <1>2, <1>3, <1>4, ProbeDueHolds, ProbeInitInv, ProbeNextInv, PTL
        DEF ProbeSpec, ProbeIsOneStep, ProbeNearer

-----------------------------------------------------------------------------
\* MCServices: the types of all the parts.

\* The indices below hold what SpiIInv bounds.
LEMMA SpiTypes == SpiIInv => SpiTypeOK
<1> SUFFICES ASSUME SpiIInv PROVE SpiTypeOK
  OBVIOUS
<1>1. /\ {towrite, write_zeros, read_ignore, toread, second} \subseteq 0..MaxBytes
      /\ place \in Nat /\ MaxBytes \in Nat
      /\ place + ToSend + (IF merge THEN second ELSE 0) <= MaxBytes + 1
  BY BytesAssumption DEF BytesAssumption, SpiIInv, SpiCounters
<1>2. ToSend \in Nat /\ (IF merge THEN second ELSE 0) \in Nat
  BY <1>1 DEF ToSend
<1>3. place \in 0 .. MaxBytes + 1
  BY <1>1, <1>2
<1>4. Quiet \/ OnItsWay
  BY DEF SpiIInv
<1>5. /\ {txdata, shift, rxdata, heard} \subseteq 0 .. MaxBytes + 1
      /\ awaited \in 1 .. MaxBytes + 2
  <2>1. CASE Quiet
    BY <1>1, <1>3, <2>1 DEF Quiet
  <2>2. CASE OnItsWay
    BY <1>1, <1>3, <2>2 DEF OnItsWay
  <2> QED BY <1>4, <2>1, <2>2
<1>6. credits \in {0, 1} /\ spi \in {"idle", "status", "send", "receive", "finish"}
  BY DEF SpiIInv
<1>7. merge \in BOOLEAN /\ sso \in BOOLEAN /\ garbled \in BOOLEAN
  BY DEF SpiIInv
<1>8. status \in [trdy : BOOLEAN, rrdy : BOOLEAN]
  BY DEF SpiIInv
<1> QED BY <1>1, <1>3, <1>5, <1>6, <1>7, <1>8 DEF SpiTypeOK

\* What the probes keep besides ProbeIInv and WroteClass: each driver has had one
\* transfer that failed at most.
ProbeTypes ==
  /\ selected \in BOOLEAN /\ bootproto \subseteq Nat /\ interface \in Nat
  /\ polled.type \in {"nothing", "endpoint"}
  /\ failures \in Nat /\ failures <= IF probe = "error" THEN driver ELSE driver - 1

LEMMA ProbeTypesInit == ProbeInit => ProbeTypes
<1> SUFFICES ASSUME ProbeInit PROVE ProbeTypes
  OBVIOUS
<1>1. /\ selected = FALSE /\ bootproto = {} /\ interface = 0
      /\ driver = 1 /\ probe = "begin" /\ failures = 0
  BY Zenon DEF ProbeInit
<1>2. polled.type = "nothing"
  BY DEF ProbeInit, Nothing
<1>3. failures \in Nat /\ failures <= IF probe = "error" THEN driver ELSE driver - 1
  BY <1>1
<1>4. selected \in BOOLEAN
  BY <1>1, Zenon
<1>5. bootproto \subseteq Nat /\ interface \in Nat /\ polled.type \in {"nothing", "endpoint"}
  BY <1>1, <1>2
<1> QED BY <1>3, <1>4, <1>5, Zenon DEF ProbeTypes

\* A driver that gives up, with a transfer that failed or without.
LEMMA GivenUp ==
  ASSUME ProbeIInv, ProbeTypes, NextDriver, probe \notin {"running", "error"},
         failures' \in {failures, failures + 1}
  PROVE  failures' \in Nat /\ failures' <= IF probe' = "error" THEN driver' ELSE driver' - 1
<1>1. driver \in 1..4 /\ failures \in Nat /\ failures <= driver - 1
  BY FourDrivers DEF ProbeIInv, ProbeTypes
<1>2. \/ probe' = "error" /\ driver' = driver
      \/ probe' = "begin" /\ driver' = driver + 1
  BY DEF NextDriver
<1> QED BY <1>1, <1>2

LEMMA ProbeTypesStep ==
  ASSUME ProbeIInv, ProbeIInv', ProbeTypes, [ProbeNext]_probeVars
  PROVE  ProbeTypes'
<1>1. /\ selected \in BOOLEAN /\ bootproto \subseteq Nat /\ interface \in Nat
      /\ polled.type \in {"nothing", "endpoint"}
      /\ failures \in Nat /\ failures <= IF probe = "error" THEN driver ELSE driver - 1
  BY DEF ProbeTypes
<1>2. CASE UNCHANGED probeVars
  BY <1>1, <1>2 DEF probeVars, ProbeTypes
<1>3. CASE ProbeNext
  <2>1. conf' = conf /\ probe \notin {"running", "error"}
    BY <1>3, ProbeStepEnds DEF Done
  <2>2. \/ NextDriver /\ failures' \in {failures, failures + 1}
        \/ UNCHANGED <<driver, failures>> /\ probe' # "error"
    BY <1>3, <2>1 DEF ProbeNext, NoProbe, GetConfDescr, Walk, FindEndpoint, SetConf, SetProto,
                Transferred, WalkOn, ClaimHere
  <2>3. failures' \in Nat /\ failures' <= IF probe' = "error" THEN driver' ELSE driver' - 1
    <3>1. CASE NextDriver /\ failures' \in {failures, failures + 1}
      BY <2>1, <3>1, GivenUp
    <3>2. CASE UNCHANGED <<driver, failures>> /\ probe' # "error"
      BY <1>1, <2>1, <3>2
    <3> QED BY <2>2, <3>1, <3>2
  <2>4. selected' \in BOOLEAN
    BY <1>1, <1>3 DEF ProbeNext, NoProbe, GetConfDescr, Walk, FindEndpoint, SetConf, SetProto
  <2>5. polled'.type \in {"nothing", "endpoint"}
    BY <1>1, <1>3 DEF ProbeNext, NoProbe, GetConfDescr, Walk, FindEndpoint, SetConf, SetProto
  <2>6. interface' \in Nat
    <3>1. CASE Walk
      <4>1. \/ interface' = interface
            \/ ~AtEnd /\ conf[at].type = "interface" /\ interface' = conf[at].number
        BY <3>1 DEF Walk, ClaimHere
      <4> QED BY <1>1, <4>1, StepOn, PlaceOf DEF ProbeIInv
    <3>2. CASE ~Walk
      BY <1>1, <1>3, <3>2 DEF ProbeNext, NoProbe, GetConfDescr, FindEndpoint, SetConf, SetProto
    <3> QED BY <3>1, <3>2
  <2>7. bootproto' \subseteq Nat
    <3>1. CASE SetProto
      BY <1>1, <3>1 DEF SetProto
    <3>2. CASE ~SetProto
      BY <1>1, <1>3, <3>2 DEF ProbeNext, NoProbe, GetConfDescr, Walk, FindEndpoint, SetConf
    <3> QED BY <3>1, <3>2
  <2> QED BY <2>3, <2>4, <2>5, <2>6, <2>7 DEF ProbeTypes
<1> QED BY <1>2, <1>3

LEMMA ProbeTypesFollow == ProbeIInv /\ WroteClass /\ ProbeTypes => ProbeTypeOK
<1> SUFFICES ASSUME ProbeIInv, WroteClass, ProbeTypes PROVE ProbeTypeOK
  OBVIOUS
<1>1. /\ conf \in Seq(UsbDescr) /\ driver \in 1..4 /\ probe \in ProbeState
      /\ at \in 1 .. Len(conf) + 1
  BY FourDrivers DEF ProbeIInv, WalkedTo
<1>2. devclass \in {"none", "mouse", "keyboard"}
  BY DEF WroteClass
<1>3. failures \in 0..4
  BY <1>1 DEF ProbeTypes
<1>4. /\ selected \in BOOLEAN /\ bootproto \subseteq Nat /\ interface \in Nat
      /\ polled.type \in {"nothing", "endpoint"}
  BY DEF ProbeTypes
<1> QED BY <1>1, <1>2, <1>3, <1>4, FourDrivers DEF ProbeTypeOK

-----------------------------------------------------------------------------
\* A step of the composition is a step of each part, or leaves it as it is.
LEMMA PartsStep ==
  ASSUME [MCNext]_<<part, jtagVars, alarmVars, llistVars, fileVars, spiVars, transferVars,
                    probeVars>>
  PROVE  /\ [JtagNext]_jtagVars /\ [AlarmsNext]_alarmVars /\ [LListNext]_llistVars
         /\ [FilesNext]_fileVars /\ [SpiNext]_spiVars /\ [TransferNext]_transferVars
         /\ [ProbeNext]_probeVars
BY DEF MCNext, On, Others

\* What every part keeps.
PartsIInv ==
  /\ StreamsIInv /\ JtagTypes /\ AlarmsTypeOK /\ FilesIInv /\ SpiIInv /\ TransferIInv
  /\ ProbeIInv /\ WroteClass /\ ProbeTypes

(***************************************************************************)
(* The composition that TLC checks takes no part out of its specification: *)
(* what is proved of each part holds there.                                *)
(***************************************************************************)
THEOREM PartsRunAsSpecified ==
  MCSpec => /\ JtagInit /\ [][JtagNext]_jtagVars
            /\ AlarmsSpec /\ LListSpec /\ FilesSpec
            /\ SpiInit /\ [][SpiNext]_spiVars
            /\ TransferSpec
            /\ ProbeInit /\ [][ProbeNext]_probeVars
<1>1. MCInit => /\ JtagInit /\ AlarmsInit /\ LListInit /\ FilesInit /\ SpiInit /\ TransferInit
                /\ ProbeInit
  BY DEF MCInit
<1> QED BY <1>1, PartsStep, PTL DEF MCSpec, AlarmsSpec, LListSpec, FilesSpec, TransferSpec

(***************************************************************************)
(* Types, for all the parts that the firmware stands on and every value of *)
(* their constants: no ring index leaves its ring, no counter its range,   *)
(* no pointer the descriptors of a configuration.                          *)
(***************************************************************************)
THEOREM PartsKeepTheirTypes == MCSpec => []ServicesTypeOK
<1>1. MCInit => PartsIInv
  BY StreamsInitInv, JtagTypesInit, InitInv, FilesInitInv, SpiInitInv, TransferInitInv,
     ProbeInitInv, ProbeTypesInit DEF MCInit, PartsIInv, AlarmsIInv, ProbeInit, WroteClass
<1>2. PartsIInv /\ [MCNext]_<<part, jtagVars, alarmVars, llistVars, fileVars, spiVars,
                              transferVars, probeVars>> => PartsIInv'
  <2> SUFFICES ASSUME PartsIInv,
                      [MCNext]_<<part, jtagVars, alarmVars, llistVars, fileVars, spiVars,
                                 transferVars, probeVars>>
               PROVE  PartsIInv'
    OBVIOUS
  <2>1. /\ [JtagNext]_jtagVars /\ [AlarmsNext]_alarmVars /\ [FilesNext]_fileVars
        /\ [SpiNext]_spiVars /\ [TransferNext]_transferVars /\ [ProbeNext]_probeVars
    BY PartsStep
  <2>2. StreamsIInv' /\ JtagTypes'
    BY <2>1, JtagStep DEF PartsIInv
  <2>3. AlarmsTypeOK' /\ FilesIInv' /\ SpiIInv' /\ TransferIInv'
    BY <2>1, AlarmsTypes, FilesStep, SpiNextInv, TransferStep DEF PartsIInv
  <2>4. ProbeIInv' /\ WroteClass' /\ ProbeTypes'
    BY <2>1, ProbeNextInv, WroteClassNext, ProbeTypesStep DEF PartsIInv
  <2> QED BY <2>2, <2>3, <2>4 DEF PartsIInv
<1>3. PartsIInv => ServicesTypeOK
  <2> SUFFICES ASSUME PartsIInv PROVE ServicesTypeOK
    OBVIOUS
  <2>1. AlarmsTypeOK /\ FilesTypeOK /\ TransferTypeOK
    BY DEF PartsIInv, FilesIInv, TransferIInv
  <2> QED BY <2>1, JtagTypesFollow, SpiTypes, ProbeTypesFollow DEF PartsIInv, ServicesTypeOK
<1> QED BY <1>1, <1>2, <1>3, PTL DEF MCSpec
=============================================================================
