------------------------------ MODULE JtagUart ------------------------------
(***************************************************************************)
(* The interrupt-driven driver of the JTAG UART, which carries what the    *)
(* firmware prints.  A transmit and a receive ring buffer are shared,      *)
(* without locks, by the program (write, read, close: the steps named      *)
(* after them) and the interrupt handler (the steps Isr...).  The program  *)
(* does not run while the handler does; the host at the other end of the   *)
(* cable, the device's FIFOs and the one-second alarm go on at any time.   *)
(*                                                                         *)
(* A step of the program ends at each access to a variable the handler     *)
(* also touches.  A character is its number in the stream, modulo M.       *)
(***************************************************************************)
EXTENDS Integers, Sequences, FiniteSetsExt

CONSTANTS
  BufLen,     \* ALTERA_AVALON_JTAG_UART_BUF_LEN
  Depth,      \* of the device's two FIFOs
  Low,        \* a FIFO interrupts when it has at most Low to go
  Timeout,    \* seconds without activity after which the host is given up
  MaxCount,   \* what is read or written by one call
  M           \* characters are numbered modulo M

ASSUME JtagAssumption ==
  /\ BufLen \in Nat /\ BufLen >= 2
  /\ Depth \in Nat /\ Low \in Nat /\ Low < Depth
  /\ Timeout \in Nat /\ Timeout >= 2
  /\ MaxCount \in Nat /\ MaxCount >= 1
  /\ M \in Nat /\ M > BufLen + Depth

VARIABLES
  tx_buf, tx_in, tx_out,    \* the transmit ring
  rx_buf, rx_in, rx_out,    \* the receive ring
  re, we,                   \* irq_enable: RE and WE, of driver and device
  host_inactive,            \* seconds since the host was last seen
  wfifo, rfifo,             \* the device's FIFOs
  ac, pause_irq,            \* the device: activity seen, input is waiting
  isr, control,             \* where the handler is; the control word it read
  call,                     \* where the program is in the driver
  count, chunk, seen,       \* its locals: characters to go, n, old index
  moved, nonblock,          \* ptr # start; O_NONBLOCK
  sent, got,                \* program to host: number of the next character
  hsent, hgot               \* host to program

transmit == <<tx_buf, tx_in, tx_out, sent>>
receive  == <<rx_buf, rx_in, rx_out, hgot>>
device   == <<wfifo, rfifo, ac, pause_irq>>
local    == <<count, chunk, seen, moved, nonblock>>
jtagVars == <<transmit, receive, device, re, we, host_inactive, isr, control,
              call, local, got, hsent>>

-----------------------------------------------------------------------------
Index     == 0 .. BufLen - 1
Char      == 0 .. M - 1
NoControl == [ri |-> FALSE, wi |-> FALSE, space |-> 0]

\* The characters of a ring from index i on, k of them.
Chars(buf, i, k) == [j \in 1..k |-> buf[(i + j - 1) % BufLen]]

\* A stream whose reader expects x and receives the characters s expects this
\* next; M, which is no character, when s is out of order.
Expect(x, s) == IF \A j \in DOMAIN s : s[j] = (x + j - 1) % M
                  THEN (x + Len(s)) % M ELSE M

JtagInit ==
  /\ tx_buf = [i \in Index |-> 0] /\ tx_in = 0 /\ tx_out = 0
  /\ rx_buf = [i \in Index |-> 0] /\ rx_in = 0 /\ rx_out = 0
  /\ re = TRUE /\ we = FALSE /\ host_inactive = 0
  /\ wfifo = <<>> /\ rfifo = <<>> /\ ac = FALSE /\ pause_irq = FALSE
  /\ isr = "off" /\ control = NoControl
  /\ call = "none" /\ count = 0 /\ chunk = 0 /\ seen = 0
  /\ moved = FALSE /\ nonblock = FALSE
  /\ sent = 0 /\ got = 0 /\ hsent = 0 /\ hgot = 0

GiveUp == host_inactive >= Timeout

\* The driver returns: its locals are gone.
Return ==
  /\ call' = "none" /\ count' = 0 /\ chunk' = 0 /\ seen' = 0
  /\ moved' = FALSE /\ nonblock' = FALSE

Goto(c) == call' = c /\ UNCHANGED local

Called(c, k, nb) ==
  /\ call = "none"
  /\ call' = c /\ count' = k /\ nonblock' = nb
  /\ UNCHANGED <<chunk, seen, moved>>

-----------------------------------------------------------------------------
\* altera_avalon_jtag_uart_write
\* Mutant of WriteRoom: the ring is filled to the last place.
WriteRoom_FullRing ==
  IF tx_in < tx_out THEN tx_out - tx_in
  ELSE IF tx_out > 0 THEN BufLen - tx_in
  ELSE BufLen - 1 - tx_in

\* What fits from tx_in to the end of the ring or to just before tx_out.
WriteRoom ==
  IF tx_in < tx_out THEN tx_out - 1 - tx_in
  ELSE IF tx_out > 0 THEN BufLen - tx_in
  ELSE BufLen - 1 - tx_in

WriteSpace ==
  /\ call = "space"
  /\ IF count = 0 THEN Goto("kick")
     ELSE /\ seen' = tx_out
          /\ chunk' = Min({WriteRoom, count})
          /\ call' = IF WriteRoom = 0 THEN "kick" ELSE "copy"
          /\ UNCHANGED <<count, moved, nonblock>>
  /\ UNCHANGED <<transmit, receive, re, we>>

WriteCopy ==
  /\ call = "copy"
  /\ tx_buf' = [i \in Index |-> IF i \in tx_in .. tx_in + chunk - 1
                                  THEN (sent + i - tx_in) % M ELSE tx_buf[i]]
  /\ count' = count - chunk
  /\ moved' = TRUE
  /\ call' = "put"
  /\ UNCHANGED <<tx_in, tx_out, sent, receive, re, we, chunk, seen, nonblock>>

WritePut ==
  /\ call = "put"
  /\ tx_in' = (tx_in + chunk) % BufLen
  /\ sent' = (sent + chunk) % M
  /\ chunk' = 0
  /\ call' = "space"
  /\ UNCHANGED <<tx_buf, tx_out, receive, re, we, count, seen, moved, nonblock>>

\* Mutant of WriteKick: WE is turned on only when the ring is full.
WriteKick_OnlyWhenFull ==
  /\ call = "kick"
  /\ we' = (we \/ count > 0)
  /\ IF count = 0 \/ nonblock THEN Return ELSE Goto("wait")
  /\ UNCHANGED <<transmit, receive, re>>

WriteKick ==
  /\ call = "kick"
  /\ we' = TRUE
  /\ IF count = 0 \/ nonblock THEN Return ELSE Goto("wait")
  /\ UNCHANGED <<transmit, receive, re>>

\* Mutant of WriteWait: the host is never given up.
WriteWait_NoTimeout ==
  /\ call = "wait"
  /\ seen # tx_out
  /\ Goto("check")
  /\ UNCHANGED <<transmit, receive, re, we>>

WriteWait ==
  /\ call = "wait"
  /\ seen # tx_out \/ GiveUp
  /\ Goto("check")
  /\ UNCHANGED <<transmit, receive, re, we>>

WriteCheck ==
  /\ call = "check"
  /\ IF host_inactive # 0 THEN Return ELSE Goto("space")
  /\ UNCHANGED <<transmit, receive, re, we>>

\* altera_avalon_jtag_uart_close
CloseWait ==
  /\ call = "drain"
  /\ tx_out = tx_in \/ GiveUp \/ nonblock
  /\ Return
  /\ UNCHANGED <<transmit, receive, re, we>>

-----------------------------------------------------------------------------
\* altera_avalon_jtag_uart_read
ReadReady == IF rx_in >= rx_out THEN rx_in - rx_out ELSE BufLen - rx_out

ReadLook ==
  /\ call = "look"
  /\ IF ReadReady = 0 /\ ~moved /\ nonblock THEN Return
     ELSE /\ seen' = rx_in
          /\ chunk' = Min({ReadReady, count})
          /\ call' = IF ReadReady > 0 THEN "take"
                     ELSE IF moved THEN "rearm" ELSE "spin"
          /\ UNCHANGED <<count, moved, nonblock>>
  /\ UNCHANGED <<transmit, receive, re, we>>

ReadTake ==
  /\ call = "take"
  /\ hgot' = Expect(hgot, Chars(rx_buf, rx_out, chunk))
  /\ count' = count - chunk
  /\ moved' = TRUE
  /\ call' = "free"
  /\ UNCHANGED <<transmit, rx_buf, rx_in, rx_out, re, we, chunk, seen, nonblock>>

ReadFree ==
  /\ call = "free"
  /\ rx_out' = (rx_out + chunk) % BufLen
  /\ chunk' = 0
  /\ call' = IF count > 0 THEN "look" ELSE "rearm"
  /\ UNCHANGED <<transmit, rx_buf, rx_in, hgot, re, we, count, seen, moved, nonblock>>

ReadSpin ==
  /\ call = "spin"
  /\ seen # rx_in \/ GiveUp
  /\ Goto("spun")
  /\ UNCHANGED <<transmit, receive, re, we>>

\* Mutant of ReadSpun: a read that has given up looks again.
ReadSpun_Again ==
  /\ call = "spun"
  /\ Goto("look")
  /\ UNCHANGED <<transmit, receive, re, we>>

ReadSpun ==
  /\ call = "spun"
  /\ IF seen = rx_in THEN Return ELSE Goto("look")
  /\ UNCHANGED <<transmit, receive, re, we>>

ReadRearm ==
  /\ call = "rearm"
  /\ re' = TRUE
  /\ Return
  /\ UNCHANGED <<transmit, receive, we>>

-----------------------------------------------------------------------------
\* altera_avalon_jtag_uart_irq.  RI and WI are the device's two requests.
RI == re /\ (pause_irq \/ Depth - Len(rfifo) <= Low)
WI == we /\ Len(wfifo) <= Low

IsrControl ==
  /\ isr = "control" \/ (isr = "off" /\ (RI \/ WI))
  /\ IF RI \/ WI
       THEN /\ isr' = "rx"
            /\ control' = [ri |-> RI, wi |-> WI, space |-> Depth - Len(wfifo)]
       ELSE isr' = "off" /\ control' = NoControl
  /\ UNCHANGED <<transmit, receive, device, re, we, got>>

\* Free places of the receive ring; one is always left empty.
ReadRoom == (rx_out - rx_in - 1) % BufLen

\* The inner loop, then RE off if characters were seen to remain: with no room
\* at all nothing is read and `data` still has its first value, which says so.
IsrReceive ==
  /\ isr = "rx"
  /\ isr' = "tx"
  /\ LET k    == Min({ReadRoom, Len(rfifo)})
         left == ReadRoom = 0 \/ (ReadRoom <= Len(rfifo) /\ Len(rfifo) > k)
     IN  IF control.ri
           THEN /\ rx_buf' = [i \in Index |-> LET j == ((i - rx_in) % BufLen) + 1
                                IN  IF j <= k THEN rfifo[j] ELSE rx_buf[i]]
                /\ rx_in' = (rx_in + k) % BufLen
                /\ rfifo' = SubSeq(rfifo, k + 1, Len(rfifo))
                /\ pause_irq' = (pause_irq /\ ReadRoom = 0)
                /\ re' = (re /\ ~left)
           ELSE UNCHANGED <<rx_buf, rx_in, rfifo, pause_irq, re>>
  /\ UNCHANGED <<transmit, rx_out, hgot, wfifo, ac, we, control, got>>

IsrTransmit ==
  /\ isr = "tx"
  /\ isr' = "control"
  /\ control' = NoControl
  /\ LET k == Min({control.space, (tx_in - tx_out) % BufLen})
     IN  IF control.wi
           THEN /\ wfifo' = wfifo \o Chars(tx_buf, tx_out, k)
                /\ tx_out' = (tx_out + k) % BufLen
                /\ we' = (we /\ k = control.space)
           ELSE UNCHANGED <<wfifo, tx_out, we>>
  /\ UNCHANGED <<tx_buf, tx_in, sent, receive, rfifo, ac, pause_irq, re, got>>

\* altera_avalon_jtag_uart_timeout, called by alt_tick every second.  The count
\* stops below INT_MAX; beyond Timeout its value makes no difference.
Second ==
  /\ isr = "off"
  /\ ac' = FALSE
  /\ host_inactive' = IF ac THEN 0 ELSE Min({host_inactive + 1, Timeout})
  /\ UNCHANGED <<transmit, receive, wfifo, rfifo, pause_irq, re, we, isr, control,
                 call, local, got, hsent>>

-----------------------------------------------------------------------------
\* The host polls the device: it takes a character if there is one, may send
\* one, and the device may notice that its input is not being read.
HostPoll ==
  /\ ac' = TRUE
  /\ wfifo' = IF wfifo = <<>> THEN wfifo ELSE Tail(wfifo)
  /\ got' = IF wfifo = <<>> THEN got ELSE Expect(got, <<Head(wfifo)>>)
  /\ \/ UNCHANGED <<rfifo, hsent>>
     \/ /\ Len(rfifo) < Depth
        /\ rfifo' = Append(rfifo, hsent)
        /\ hsent' = (hsent + 1) % M
  /\ pause_irq' \in {pause_irq, pause_irq \/ rfifo # <<>>}
  /\ UNCHANGED <<transmit, receive, re, we, host_inactive, isr, control, call, local>>

-----------------------------------------------------------------------------
Call ==
  /\ \E nb \in BOOLEAN, k \in 1..MaxCount :
       Called("space", k, nb) \/ Called("look", k, nb) \/ Called("drain", 0, nb)
  /\ UNCHANGED <<transmit, receive, re, we>>

Write == WriteSpace \/ WriteCopy \/ WritePut \/ WriteKick \/ WriteWait \/ WriteCheck
Read  == ReadLook \/ ReadTake \/ ReadFree \/ ReadSpin \/ ReadSpun \/ ReadRearm

\* The program runs only when the handler does not.
Program(step) ==
  /\ isr = "off"
  /\ step
  /\ UNCHANGED <<device, host_inactive, isr, control, got, hsent>>

Driver  == Program(Write \/ Read \/ CloseWait)
Handler ==
  /\ IsrControl \/ IsrReceive \/ IsrTransmit
  /\ UNCHANGED <<host_inactive, call, local, hsent>>

JtagNext == Program(Call) \/ Driver \/ Handler \/ Second \/ HostPoll

\* The processor runs, interrupts are taken and the timer ticks.  Nothing is
\* assumed of the host, or of when the program calls the driver.
JtagSpec == JtagInit /\ [][JtagNext]_jtagVars
              /\ WF_jtagVars(Driver) /\ WF_jtagVars(Handler) /\ WF_jtagVars(Second)

-----------------------------------------------------------------------------
JtagTypeOK ==
  /\ tx_buf \in [Index -> Char] /\ tx_in \in Index /\ tx_out \in Index
  /\ rx_buf \in [Index -> Char] /\ rx_in \in Index /\ rx_out \in Index
  /\ {re, we, ac, pause_irq, moved, nonblock} \subseteq BOOLEAN
  /\ host_inactive \in 0..Timeout
  /\ Len(wfifo) <= Depth /\ Len(rfifo) <= Depth
  /\ isr \in {"off", "control", "rx", "tx"}
  /\ control \in [ri : BOOLEAN, wi : BOOLEAN, space : 0..Depth]
  /\ call \in {"none", "space", "copy", "put", "kick", "wait", "check", "drain",
               "look", "take", "free", "spin", "spun", "rearm"}
  /\ count \in 0..MaxCount /\ chunk \in 0..MaxCount /\ seen \in Index
  /\ {sent, got, hsent, hgot} \subseteq Char

(***************************************************************************)
(* What the program writes reaches the host, and what the host sends       *)
(* reaches the program: each character once and in order, though ring and  *)
(* FIFO are filled and emptied by two sides that share no lock.            *)
(***************************************************************************)
TxStream == INSTANCE Stream WITH Room <- BufLen - 1 + Depth, sent <- sent, got <- got
RxStream == INSTANCE Stream WITH Room <- BufLen - 1 + Depth, sent <- hsent, got <- hgot

JtagStreams == TxStream!Spec /\ RxStream!Spec

(***************************************************************************)
(* No wakeup is lost: an interrupt is off only while the handler has       *)
(* nothing to do, or the program is on its way to turning it on again.     *)
(***************************************************************************)
InterruptsArmed ==
  /\ ~we => tx_in = tx_out \/ call \in {"space", "copy", "put", "kick"}
  /\ ~re => ReadRoom = 0 \/ call \in {"look", "take", "free", "rearm"}

\* The program's steps to the end of a call that need not wait again: seven for a
\* character to be written, three for one to be read.
CallStepsLeft ==
  [none  |-> 0,             rearm |-> 1,              drain |-> 1,
   wait  |-> 7 * count + 4, check |-> 7 * count + 3,
   copy  |-> 7 * count + 1, put   |-> 7 * count + 7,
   space |-> 7 * count + (IF count > 0 /\ WriteRoom = 0 THEN 6 ELSE 2),
   kick  |-> IF count = 0 THEN 1 ELSE 7 * count + 5,
   spin  |-> 3 * count + 3, spun  |-> 3 * count + 2,
   take  |-> 3 * count,     free  |-> 3 * count + 2,
   look  |-> 3 * count + (IF ReadReady = 0 /\ ~moved THEN 4 ELSE 1)][call]

\* The handler's: what there may be to move, and two interrupts to turn off.
Movable ==
  ((tx_in - tx_out) % BufLen) + ReadRoom + (IF we THEN 1 ELSE 0) + (IF re THEN 1 ELSE 0)

HandlerStepsLeft ==
  [off |-> 0, control |-> 3 * Movable + 1, rx |-> 3 * Movable,
   tx  |-> IF control.wi THEN 3 * Movable - 1 ELSE 3 * Movable + 2][isr]

(***************************************************************************)
(* No call waits for the same thing twice: a wait that ends finds room, or *)
(* a character, however much the handler has moved meanwhile, and nothing  *)
(* takes it away; but for a write that gives up a host that is back before *)
(* it looks again.  And every turn of the handler's loop moves a character *)
(* or turns an interrupt off, however fast the host types.                 *)
(***************************************************************************)
CallsComeNearer ==
  /\ [][call # "none" => \/ CallStepsLeft' \in 0 .. CallStepsLeft - 1
                         \/ UNCHANGED <<call, local>> /\ CallStepsLeft' <= CallStepsLeft
                         \/ call = "check" /\ tx_out = seen]_jtagVars
  /\ [][isr # "off" => \/ HandlerStepsLeft' \in 0 .. HandlerStepsLeft - 1
                       \/ UNCHANGED <<isr, HandlerStepsLeft>>]_jtagVars

(***************************************************************************)
(* write and close come back, also when the cable is pulled out: either    *)
(* the host takes what fills the ring, or the seconds are counted.  And    *)
(* the handler, which loops until the device is silent, ends.              *)
(***************************************************************************)
JtagReturns ==
  /\ call \in {"space", "copy", "put", "kick", "wait", "check", "drain"} ~> call = "none"
  /\ isr # "off" ~> isr = "off"
=============================================================================
