----------------------------- MODULE JtagProofs -----------------------------
(***************************************************************************)
(* The driver of the JTAG UART, for every length of its rings and of the   *)
(* device's FIFOs: no wakeup is lost, under the inductive invariant        *)
(* ArmedIInv, and both directions implement module Stream, under           *)
(* StreamsIInv, whatever the interleaving of the program, the interrupt    *)
(* handler and the host.  Then the types of all of it; and the last        *)
(* section counts the steps left of a call, and of the handler's loop.     *)
(***************************************************************************)
EXTENDS JtagUart, TLAPS

-----------------------------------------------------------------------------
\* Counting modulo N, within one turn: numbers of characters and places of a ring.
LEMMA WrapPlus ==
  ASSUME NEW N \in Nat, N >= 1, NEW x \in 0 .. N - 1, NEW a \in 0 .. N
  PROVE  (x + a) % N = IF x + a < N THEN x + a ELSE x + a - N
OBVIOUS

LEMMA WrapMinus ==
  ASSUME NEW N \in Nat, N >= 1, NEW x \in 0 .. N - 1, NEW y \in 0 .. N - 1
  PROVE  (x - y) % N = IF x >= y THEN x - y ELSE x - y + N
OBVIOUS

LEMMA WrapOne ==
  ASSUME NEW N \in Nat, N >= 1, NEW y \in Int, -N < y, y < N
  PROVE  (y - 1) % N = IF y >= 1 THEN y - 1 ELSE N + y - 1
OBVIOUS

LEMMA WrapNone ==
  ASSUME NEW N \in Nat, N >= 1, NEW x \in 0 .. N - 1
  PROVE  x % N = x
OBVIOUS

\* Two steps are one.
LEMMA WrapAdd ==
  ASSUME NEW N \in Nat, N >= 1, NEW x \in 0 .. N - 1, NEW a \in Nat, NEW b \in Nat,
         a + b <= N
  PROVE  (((x + a) % N) + b) % N = (x + (a + b)) % N
<1>1. (x + a) % N = IF x + a < N THEN x + a ELSE x + a - N
  OBVIOUS
<1>2. (x + (a + b)) % N = IF x + (a + b) < N THEN x + (a + b) ELSE x + (a + b) - N
  OBVIOUS
<1> DEFINE y == (x + a) % N
<1>3. y \in 0 .. N - 1
  BY <1>1
<1>4. (y + b) % N = IF y + b < N THEN y + b ELSE y + b - N
  <2> HIDE DEF y
  <2> QED BY <1>3
<1> QED BY <1>1, <1>2, <1>4

\* The distance of two places is the difference of their steps from a third.
LEMMA WrapApart ==
  ASSUME NEW N \in Nat, N >= 1, NEW x \in 0 .. N - 1, NEW a \in 0 .. N - 1, NEW b \in 0 .. N - 1
  PROVE  (((x + b) % N) - ((x + a) % N)) % N = IF b >= a THEN b - a ELSE b - a + N
<1> DEFINE y == (x + a) % N
           z == (x + b) % N
<1>1. y = IF x + a < N THEN x + a ELSE x + a - N
  OBVIOUS
<1>2. z = IF x + b < N THEN x + b ELSE x + b - N
  OBVIOUS
<1> HIDE DEF y, z
<1>3. y \in 0 .. N - 1 /\ z \in 0 .. N - 1
  BY <1>1, <1>2
<1>4. (z - y) % N = IF z >= y THEN z - y ELSE z - y + N
  BY <1>3
<1>5. (z - y) % N = IF b >= a THEN b - a ELSE b - a + N
  BY <1>1, <1>2, <1>4
<1> QED BY <1>5 DEF y, z

LEMMA WrapBack ==
  ASSUME NEW N \in Nat, N >= 1, NEW x \in 0 .. N - 1, NEW b \in 0 .. N - 1
  PROVE  (((x + b) % N) - x) % N = b
<1>1. (x + 0) % N = x
  OBVIOUS
<1> QED BY <1>1, WrapApart

\* The steps from one place to another lead there.
LEMMA WrapThere ==
  ASSUME NEW N \in Nat, N >= 1, NEW x \in 0 .. N - 1, NEW y \in 0 .. N - 1
  PROVE  (y - x) % N \in 0 .. N - 1 /\ (x + ((y - x) % N)) % N = y
<1> DEFINE d == (y - x) % N
<1>1. d = IF y >= x THEN y - x ELSE y - x + N
  OBVIOUS
<1> HIDE DEF d
<1>2. d \in 0 .. N - 1
  BY <1>1
<1>3. (x + d) % N = IF x + d < N THEN x + d ELSE x + d - N
  BY <1>2
<1>4. (x + d) % N = y
  BY <1>1, <1>3
<1> QED BY <1>2, <1>4 DEF d

\* One sequence behind another.
LEMMA Behind ==
  ASSUME NEW S, NEW s \in Seq(S), NEW t \in Seq(S)
  PROVE  /\ s \o t \in Seq(S)
         /\ Len(s \o t) = Len(s) + Len(t)
         /\ \A j \in 1 .. Len(s) : (s \o t)[j] = s[j]
         /\ \A j \in 1 .. Len(t) : (s \o t)[Len(s) + j] = t[j]
OBVIOUS

-----------------------------------------------------------------------------
\* JtagUart.
USE JtagAssumption DEF JtagAssumption

\* The inductive invariant of the wakeups: InterruptsArmed, with the calls that
\* are on their way to turning RE on again told apart from those that found the
\* ring full, and the types it needs.
ArmedIInv ==
  /\ {tx_in, tx_out, rx_in, rx_out} \subseteq Index
  /\ tx_buf \in [Index -> Char] /\ hsent \in Char /\ sent \in Char
  /\ wfifo \in Seq(Char) /\ rfifo \in Seq(Char)
  /\ control.space \in Int
  /\ re \in BOOLEAN /\ we \in BOOLEAN
  /\ count \in Int /\ chunk \in Int
  /\ ~we => tx_in = tx_out \/ call \in {"space", "copy", "put", "kick"}
  /\ ~re => \/ ReadRoom = 0
            \/ call \in {"free", "rearm"}
            \/ call \in {"look", "take"} /\ moved
  /\ call = "free" => moved
  /\ control.wi => we

(***************************************************************************)
(* The inductive invariant behind JtagStreams: going back from the end     *)
(* that reads to the end that writes, FIFO and ring hold the characters    *)
(* between got and sent, numbered one by one, and what the program has     *)
(* copied, or taken, without having moved its index yet keeps its place.   *)
(***************************************************************************)
TxHeld == (tx_in - tx_out) % BufLen
RxHeld == (rx_in - rx_out) % BufLen

\* Characters read whose places are still to be given back.
RxRead == IF call = "free" THEN chunk ELSE 0

TxInOrder ==
  /\ \A j \in 1 .. Len(wfifo) : wfifo[j] = (got + (j - 1)) % M
  /\ \A j \in 0 .. TxHeld - 1 :
       tx_buf[(tx_out + j) % BufLen] = (got + (Len(wfifo) + j)) % M
  /\ sent = (got + (Len(wfifo) + TxHeld)) % M
  /\ control.space >= 0 /\ Len(wfifo) + control.space <= Depth
  /\ call \in {"copy", "put"} =>
       chunk >= 1 /\ tx_in + chunk <= BufLen /\ TxHeld + chunk <= BufLen - 1
  /\ call = "put" =>
       \A j \in 0 .. chunk - 1 : tx_buf[tx_in + j] = (sent + j) % M

RxInOrder ==
  /\ \A j \in RxRead .. RxHeld - 1 :
       rx_buf[(rx_out + j) % BufLen] = (hgot + (j - RxRead)) % M
  /\ \A j \in 1 .. Len(rfifo) :
       rfifo[j] = (hgot + (RxHeld - RxRead + (j - 1))) % M
  /\ hsent = (hgot + (RxHeld - RxRead + Len(rfifo))) % M
  /\ Len(rfifo) <= Depth
  /\ call \in {"take", "free"} => chunk >= 1 /\ chunk <= RxHeld

CallInOrder ==
  /\ count >= 0
  /\ call \in {"copy", "take"} => chunk <= count
  /\ call \in {"look", "spin", "spun"} => count >= 1

StreamsIInv ==
  ArmedIInv /\ got \in Char /\ hgot \in Char /\ TxInOrder /\ RxInOrder /\ CallInOrder

\* The smaller of two integers.
LEMMA MinOfTwo ==
  ASSUME NEW a \in Int, NEW b \in Int
  PROVE  Min({a, b}) = IF a <= b THEN a ELSE b
<1>1. PICK m \in {a, b} : \A y \in {a, b} : m <= y
  BY DEF Min
<1>2. Min({a, b}) \in {a, b} /\ \A y \in {a, b} : Min({a, b}) <= y
  BY <1>1 DEF Min
<1> QED BY <1>2

\* What % leaves is an index of a ring, or a character.
LEMMA RingIndex ==
  ASSUME NEW x \in Int
  PROVE  x % BufLen \in Index
BY DEF Index

LEMMA CharNumber ==
  ASSUME NEW x \in Int
  PROVE  x % M \in Char
<1>1. M \in Nat /\ M > 0
  OBVIOUS
<1> QED BY <1>1 DEF Char

\* Moving an index of a ring to the other, or to just before it.
LEMMA RingMoved ==
  ASSUME NEW i \in Index, NEW j \in Index
  PROVE  /\ (i - j) % BufLen \in Index
         /\ (j + ((i - j) % BufLen)) % BufLen = i
         /\ (i - ((j + ((i - j - 1) % BufLen)) % BufLen) - 1) % BufLen = 0
         /\ (i - j - 1) % BufLen \in Index
         /\ i = j => (i - j - 1) % BufLen = BufLen - 1
<1>1. i \in Nat /\ j \in Nat /\ i < BufLen /\ j < BufLen /\ BufLen \in Nat /\ BufLen >= 2
  BY DEF Index
<1>2. CASE i > j
  <2>1. (i - j) % BufLen = i - j /\ (i - j - 1) % BufLen = i - j - 1
    BY <1>1, <1>2
  <2>2. (j + (i - j)) % BufLen = i /\ (j + (i - j - 1)) % BufLen = i - 1
    BY <1>1, <1>2
  <2>3. (i - (i - 1) - 1) % BufLen = 0
    BY <1>1
  <2> QED BY <1>1, <1>2, <2>1, <2>2, <2>3 DEF Index
<1>3. CASE i = j
  <2>1. (i - j) % BufLen = 0 /\ (i - j - 1) % BufLen = BufLen - 1
    BY <1>1, <1>3
  <2>2. (j + 0) % BufLen = j
    BY <1>1
  <2>3. (j + (BufLen - 1)) % BufLen = IF j = 0 THEN BufLen - 1 ELSE j - 1
    BY <1>1
  <2>4. (0 - (BufLen - 1) - 1) % BufLen = 0 /\ (j - (j - 1) - 1) % BufLen = 0
    BY <1>1
  <2> QED BY <1>1, <1>3, <2>1, <2>2, <2>3, <2>4 DEF Index
<1>4. CASE i < j
  <2>1. (i - j) % BufLen = i - j + BufLen /\ (i - j - 1) % BufLen = i - j - 1 + BufLen
    BY <1>1, <1>4
  <2>2. (j + (i - j + BufLen)) % BufLen = i
    BY <1>1
  <2>3. (j + (i - j - 1 + BufLen)) % BufLen = IF i = 0 THEN BufLen - 1 ELSE i - 1
    BY <1>1
  <2>4. (0 - (BufLen - 1) - 1) % BufLen = 0 /\ (i - (i - 1) - 1) % BufLen = 0
    BY <1>1
  <2> QED BY <1>1, <1>4, <2>1, <2>2, <2>3, <2>4 DEF Index
<1> QED BY <1>1, <1>2, <1>3, <1>4

\* Taking all there is moves one index to the other.
LEMMA RingEmptied ==
  ASSUME NEW i \in Index, NEW j \in Index, NEW k \in Int, k = (i - j) % BufLen
  PROVE  (j + k) % BufLen = i
<1>1. (i - j) % BufLen \in Int
  BY RingMoved DEF Index
<1> QED BY <1>1, RingMoved DEF Index

LEMMA JtagInitInv == JtagInit => ArmedIInv
<1> SUFFICES ASSUME JtagInit PROVE ArmedIInv
  OBVIOUS
<1>1. tx_buf \in [Index -> Char] /\ 0 \in Index /\ 0 \in Char
  BY DEF JtagInit, Index, Char
<1>2. wfifo \in Seq(Char) /\ rfifo \in Seq(Char) /\ control.space \in Int
  BY DEF JtagInit, NoControl
<1>3. /\ tx_in = 0 /\ tx_out = 0 /\ rx_in = 0 /\ rx_out = 0 /\ hsent = 0 /\ sent = 0
      /\ count = 0 /\ chunk = 0 /\ call = "none"
  BY DEF JtagInit
<1>4. re = TRUE /\ we = FALSE
  BY Zenon DEF JtagInit
<1>5. ~control.wi
  BY DEF JtagInit, NoControl
<1> QED BY <1>1, <1>2, <1>3, <1>4, <1>5 DEF ArmedIInv

-----------------------------------------------------------------------------
\* The program: each of its steps, while the handler rests.
LEMMA CallStep ==
  ASSUME ArmedIInv, Program(Call)
  PROVE  ArmedIInv'
<1>1. /\ call = "none" /\ call' \in {"space", "look", "drain"}
      /\ count' \in Int /\ UNCHANGED <<chunk, moved>>
      /\ UNCHANGED <<tx_buf, tx_in, tx_out, sent, rx_in, rx_out, re, we, wfifo, rfifo,
                     control, hsent>>
  BY DEF Program, Call, Called, transmit, receive, device
<1> QED BY <1>1 DEF ArmedIInv, ReadRoom

LEMMA WriteStep ==
  ASSUME ArmedIInv, Program(Write \/ CloseWait)
  PROVE  ArmedIInv'
<1>1. UNCHANGED <<wfifo, rfifo, control, hsent>>
  BY DEF Program, device
<1>2. CASE WriteSpace
  <2>1. /\ call = "space" /\ call' \in {"kick", "copy"}
        /\ UNCHANGED <<tx_buf, tx_in, tx_out, sent, rx_in, rx_out, re, we>>
    BY <1>2 DEF WriteSpace, Goto, transmit, receive
  <2>2. count' \in Int /\ chunk' \in Int
    <3>1. count \in Int /\ chunk \in Int /\ WriteRoom \in Int
      BY DEF ArmedIInv, WriteRoom, Index
    <3>2. Min({WriteRoom, count}) \in Int
      BY <3>1, MinOfTwo
    <3> QED BY <1>2, <3>1, <3>2 DEF WriteSpace, Goto, local
  <2> QED BY <1>1, <2>1, <2>2 DEF ArmedIInv, ReadRoom
<1>3. CASE WriteCopy
  <2>1. /\ call = "copy" /\ call' = "put" /\ count' = count - chunk
        /\ UNCHANGED <<tx_in, tx_out, sent, rx_in, rx_out, re, we, chunk>>
    BY <1>3 DEF WriteCopy, receive
  <2>2. tx_buf' \in [Index -> Char]
    <3>1. \A i \in Index : sent + i - tx_in \in Int
      BY DEF ArmedIInv, Index, Char
    <3>2. \A i \in Index : (sent + i - tx_in) % M \in Char
      BY <3>1, CharNumber
    <3> QED BY <1>3, <3>2 DEF WriteCopy, ArmedIInv
  <2> QED BY <1>1, <2>1, <2>2 DEF ArmedIInv, ReadRoom
<1>4. CASE WritePut
  <2>1. /\ call = "put" /\ call' = "space" /\ chunk' = 0
        /\ tx_in' = (tx_in + chunk) % BufLen /\ sent' = (sent + chunk) % M
        /\ UNCHANGED <<tx_buf, tx_out, rx_in, rx_out, re, we, count>>
    BY <1>4 DEF WritePut, receive
  <2>2. tx_in' \in Index /\ sent' \in Char
    <3>0. tx_in \in Int /\ chunk \in Int /\ sent \in Int
      BY DEF ArmedIInv, Index, Char
    <3>1. tx_in + chunk \in Int /\ sent + chunk \in Int
      BY <3>0
    <3> QED BY <2>1, <3>1, RingIndex, CharNumber
  <2> QED BY <1>1, <2>1, <2>2 DEF ArmedIInv, ReadRoom
<1>5. CASE WriteKick
  <2>1. /\ call = "kick" /\ call' \in {"none", "wait"} /\ we' = TRUE
        /\ count' \in {count, 0} /\ chunk' \in {chunk, 0}
        /\ UNCHANGED <<tx_buf, tx_in, tx_out, sent, rx_in, rx_out, re>>
    BY <1>5 DEF WriteKick, Goto, Return, local, transmit, receive
  <2> QED BY <1>1, <2>1 DEF ArmedIInv, ReadRoom
<1>6. CASE WriteWait \/ WriteCheck \/ CloseWait
  <2>1. /\ call \in {"wait", "check", "drain"} /\ call' \in {"check", "none", "space"}
        /\ count' \in {count, 0} /\ chunk' \in {chunk, 0}
        /\ UNCHANGED <<tx_buf, tx_in, tx_out, sent, rx_in, rx_out, re, we>>
    BY <1>6 DEF WriteWait, WriteCheck, CloseWait, Goto, Return, local, transmit, receive
  <2> QED BY <1>1, <2>1 DEF ArmedIInv, ReadRoom
<1> QED BY <1>2, <1>3, <1>4, <1>5, <1>6 DEF Program, Write

\* A read that found nothing had RE on; one that took something turns it on.
LEMMA ReadStep ==
  ASSUME ArmedIInv, Program(Read)
  PROVE  ArmedIInv'
<1>1. UNCHANGED <<wfifo, rfifo, control, hsent>>
  BY DEF Program, device
<1>2. CASE ReadLook
  <2>1. /\ call = "look"
        /\ UNCHANGED <<tx_buf, tx_in, tx_out, sent, rx_in, rx_out, re, we>>
    BY <1>2 DEF ReadLook, transmit, receive
  <2>2. count' \in Int /\ chunk' \in Int
    <3>1. count \in Int /\ ReadReady \in Int
      BY DEF ArmedIInv, ReadReady, Index
    <3>2. Min({ReadReady, count}) \in Int
      BY <3>1, MinOfTwo
    <3> QED BY <1>2, <3>1, <3>2 DEF ReadLook, Return
  <2>3. \/ call' \in {"none", "spin"} /\ ~moved
        \/ call' \in {"take", "rearm"} /\ moved' = moved /\ (call' = "rearm" => moved)
    BY <1>2, Zenon DEF ReadLook, Return
  <2>4. ~re => ReadRoom = 0 \/ moved
    BY <2>1 DEF ArmedIInv
  <2> QED BY <1>1, <2>1, <2>2, <2>3, <2>4 DEF ArmedIInv, ReadRoom
<1>3. CASE ReadTake
  <2>1. /\ call = "take" /\ call' = "free" /\ count' = count - chunk /\ moved' = TRUE
        /\ UNCHANGED <<tx_buf, tx_in, tx_out, sent, rx_in, rx_out, re, we, chunk>>
    BY <1>3 DEF ReadTake, transmit
  <2> QED BY <1>1, <2>1 DEF ArmedIInv, ReadRoom
<1>4. CASE ReadFree
  <2>1. /\ call = "free" /\ chunk' = 0 /\ call' = IF count > 0 THEN "look" ELSE "rearm"
        /\ rx_out' = (rx_out + chunk) % BufLen
        /\ UNCHANGED <<tx_buf, tx_in, tx_out, sent, rx_in, re, we, count, moved>>
    BY <1>4 DEF ReadFree, transmit
  <2>2. rx_out' \in Index
    <3>1. rx_out + chunk \in Int
      BY DEF ArmedIInv, Index
    <3> QED BY <2>1, <3>1, RingIndex
  <2>3. call = "free" => moved
    BY DEF ArmedIInv
  <2> QED BY <1>1, <2>1, <2>2 DEF ArmedIInv, ReadRoom
<1>5. CASE ReadSpin \/ ReadSpun
  <2>1. /\ call \in {"spin", "spun"} /\ call' \in {"spun", "none", "look"}
        /\ count' \in {count, 0} /\ chunk' \in {chunk, 0}
        /\ UNCHANGED <<tx_buf, tx_in, tx_out, sent, rx_in, rx_out, re, we>>
    BY <1>5 DEF ReadSpin, ReadSpun, Goto, Return, local, transmit, receive
  <2> QED BY <1>1, <2>1 DEF ArmedIInv, ReadRoom
<1>6. CASE ReadRearm
  <2>1. /\ call = "rearm" /\ call' = "none" /\ re' = TRUE
        /\ count' = 0 /\ chunk' = 0
        /\ UNCHANGED <<tx_buf, tx_in, tx_out, sent, rx_in, rx_out, we>>
    BY <1>6 DEF ReadRearm, Return, transmit, receive
  <2> QED BY <1>1, <2>1 DEF ArmedIInv, ReadRoom
<1> QED BY <1>2, <1>3, <1>4, <1>5, <1>6 DEF Program, Read

-----------------------------------------------------------------------------
\* The handler turns RE off when it has filled its ring, WE when it has emptied its.
LEMMA HandlerStep ==
  ASSUME ArmedIInv, Handler
  PROVE  ArmedIInv'
<1>1. UNCHANGED <<call, count, chunk, moved, hsent>>
  BY DEF Handler, local
<1>2. CASE IsrControl
  <2>1. UNCHANGED <<tx_buf, tx_in, tx_out, sent, rx_in, rx_out, re, we, wfifo, rfifo>>
    BY <1>2 DEF IsrControl, transmit, receive, device
  <2>2. control'.space \in Int
    <3>1. Len(wfifo) \in Int
      BY DEF ArmedIInv
    <3>2. control' = [ri |-> RI, wi |-> WI, space |-> Depth - Len(wfifo)] \/ control' = NoControl
      BY <1>2 DEF IsrControl
    <3> QED BY <3>1, <3>2 DEF NoControl
  <2>3. control'.wi => we
    <3>1. control' = [ri |-> RI, wi |-> WI, space |-> Depth - Len(wfifo)] \/ control' = NoControl
      BY <1>2 DEF IsrControl
    <3>2. WI => we
      BY DEF WI
    <3>3. WI \in BOOLEAN
      BY DEF WI, ArmedIInv
    <3> HIDE DEF WI
    <3> QED BY <3>1, <3>2, <3>3 DEF NoControl
  <2> QED BY <1>1, <2>1, <2>2, <2>3 DEF ArmedIInv, ReadRoom
<1>3. CASE IsrReceive
  <2> DEFINE k == Min({ReadRoom, Len(rfifo)})
             left == ReadRoom = 0 \/ (ReadRoom <= Len(rfifo) /\ Len(rfifo) > k)
  <2>1. UNCHANGED <<tx_buf, tx_in, tx_out, sent, rx_out, wfifo, we, control>>
    BY <1>3 DEF IsrReceive, transmit
  <2>2. CASE ~control.ri
    <3>1. UNCHANGED <<rx_in, rfifo, re>>
      BY <1>3, <2>2 DEF IsrReceive
    <3> QED BY <1>1, <2>1, <3>1 DEF ArmedIInv, ReadRoom
  <2>3. CASE control.ri
    <3>1. /\ rx_in' = (rx_in + k) % BufLen
          /\ rfifo' = SubSeq(rfifo, k + 1, Len(rfifo))
      BY <1>3, <2>3, Zenon DEF IsrReceive
    <3>2. re' <=> re /\ ~left
      BY <1>3, <2>3, Zenon DEF IsrReceive
    <3>3. re' \in BOOLEAN
      <4>1. (re /\ ~left) \in BOOLEAN
        OBVIOUS
      <4>2. re' = (re /\ ~left)
        BY <1>3, <2>3, Zenon DEF IsrReceive
      <4> QED BY <4>1, <4>2, Zenon
    <3>4. /\ rx_in \in Index /\ rx_out \in Index /\ rfifo \in Seq(Char) /\ Len(rfifo) \in Nat
          /\ ReadRoom \in Index
      BY RingMoved DEF ArmedIInv, ReadRoom
    <3>5. k = IF ReadRoom <= Len(rfifo) THEN ReadRoom ELSE Len(rfifo)
      BY <3>4, MinOfTwo DEF Index
    <3>6. k \in Nat /\ k <= Len(rfifo)
      BY <3>4, <3>5 DEF Index
    <3>7. rx_in' \in Index
      <4>1. rx_in + k \in Int
        BY <3>4, <3>6 DEF Index
      <4> QED BY <3>1, <4>1, RingIndex
    <3>0. rfifo' \in Seq(Char)
      <4> HIDE DEF k
      <4> QED BY <3>1, <3>4, <3>6
    <3>8. left => ReadRoom' = 0
      <4>1. left => k = ReadRoom
        BY <3>4, <3>5 DEF Index
      <4>2. (rx_out - ((rx_in + ((rx_out - rx_in - 1) % BufLen)) % BufLen) - 1) % BufLen = 0
        BY <3>4, RingMoved
      <4> HIDE DEF k, left
      <4>3. left => rx_in' = (rx_in + ReadRoom) % BufLen
        BY <3>1, <4>1
      <4>4. rx_out' = rx_out
        BY <2>1
      <4>5. left => (rx_out' - rx_in' - 1) % BufLen = 0
        <5> SUFFICES ASSUME left PROVE (rx_out' - rx_in' - 1) % BufLen = 0
          OBVIOUS
        <5>1. rx_in' = (rx_in + ((rx_out - rx_in - 1) % BufLen)) % BufLen
          BY <3>4, <4>3 DEF ReadRoom, Index
        <5>2. rx_in' \in Int /\ rx_out' \in Int
          BY <3>4, <3>7, <4>4 DEF Index
        <5> QED BY <3>4, <4>2, <4>4, <5>1, <5>2 DEF Index
      <4> QED BY <4>5 DEF ReadRoom
    <3>9. left \/ re' = re
      <4>1. re \in BOOLEAN
        BY DEF ArmedIInv
      <4> QED BY <3>2, <3>3, <4>1
    <3> HIDE DEF k, left
    <3>10. ~re' => \/ ReadRoom' = 0
                   \/ call' \in {"free", "rearm"}
                   \/ call' \in {"look", "take"} /\ moved'
      <4>1. CASE left
        BY <3>8, <4>1
      <4>2. CASE re' = re /\ ~re
        <5>1. ReadRoom = 0 \/ call \in {"free", "rearm"} \/ (call \in {"look", "take"} /\ moved)
          BY <4>2 DEF ArmedIInv
        <5>2. ReadRoom = 0 => left
          BY DEF left
        <5> QED BY <1>1, <3>8, <5>1, <5>2
      <4> QED BY <3>9, <4>1, <4>2
    <3> QED BY <1>1, <2>1, <3>3, <3>0, <3>7, <3>10 DEF ArmedIInv
  <2> QED BY <2>2, <2>3
<1>4. CASE IsrTransmit
  <2> DEFINE k == Min({control.space, (tx_in - tx_out) % BufLen})
  <2>1. /\ UNCHANGED <<tx_buf, tx_in, sent, rx_in, rx_out, rfifo, re>>
        /\ control' = NoControl
    BY <1>4 DEF IsrTransmit, receive
  <2>2. control'.space \in Int
    BY <2>1 DEF NoControl
  <2>3. CASE ~control.wi
    <3>1. UNCHANGED <<wfifo, tx_out, we>>
      BY <1>4, <2>3 DEF IsrTransmit
    <3>2. ~control'.wi
      BY <2>1 DEF NoControl
    <3> QED BY <1>1, <2>1, <2>2, <3>1, <3>2 DEF ArmedIInv, ReadRoom
  <2>4. CASE control.wi
    <3>1. /\ wfifo' = wfifo \o Chars(tx_buf, tx_out, k)
          /\ tx_out' = (tx_out + k) % BufLen
      BY <1>4, <2>4, Zenon DEF IsrTransmit
    <3>2. we' = (we /\ k = control.space)
      BY <1>4, <2>4, Zenon DEF IsrTransmit
    <3>3. /\ tx_in \in Index /\ tx_out \in Index /\ control.space \in Int /\ we \in BOOLEAN
          /\ (tx_in - tx_out) % BufLen \in Index
      BY RingMoved DEF ArmedIInv
    <3>4. k = IF control.space <= (tx_in - tx_out) % BufLen
                THEN control.space ELSE (tx_in - tx_out) % BufLen
      BY <3>3, MinOfTwo DEF Index
    <3>5. k \in Int
      BY <3>3, <3>4 DEF Index
    <3>6. tx_out' \in Index
      <4>1. tx_out + k \in Int
        BY <3>3, <3>5 DEF Index
      <4> QED BY <3>1, <4>1, RingIndex
    <3> HIDE DEF k
    <3>8. Chars(tx_buf, tx_out, k) \in Seq(Char)
      <4>0. \A j \in 1..k : tx_out + j - 1 \in Int
        BY <3>3, <3>5 DEF Index
      <4>1. \A j \in 1..k : tx_buf[(tx_out + j - 1) % BufLen] \in Char
        BY <4>0, RingIndex DEF ArmedIInv
      <4>2. CASE k >= 0
        BY <3>5, <4>1, <4>2 DEF Chars
      <4>3. CASE k < 0
        <5>1. 1..k = {}
          BY <3>5, <4>3
        <5>2. Chars(tx_buf, tx_out, k) = <<>>
          BY <5>1 DEF Chars
        <5> QED BY <5>2
      <4> QED BY <3>5, <4>2, <4>3
    <3>9. wfifo' \in Seq(Char)
      BY <3>1, <3>8 DEF ArmedIInv
    <3>10. we' \in BOOLEAN
      BY <3>2, <3>3
    <3>11. we
      BY <2>4 DEF ArmedIInv
    <3>12. ~we' => tx_out' = tx_in
      <4>1. k # control.space => k = (tx_in - tx_out) % BufLen
        BY <3>4
      <4>2. ASSUME k = (tx_in - tx_out) % BufLen
            PROVE  tx_out' = tx_in
        <5>1. (tx_out + k) % BufLen = tx_in
          BY <3>3, <3>5, <4>2, RingEmptied
        <5> QED BY <3>1, <5>1
      <4> QED BY <3>2, <3>11, <4>1, <4>2
    <3> QED BY <1>1, <2>1, <2>2, <3>6, <3>9, <3>10, <3>12 DEF NoControl, ArmedIInv, ReadRoom
  <2> QED BY <2>3, <2>4
<1> QED BY <1>2, <1>3, <1>4 DEF Handler

LEMMA OutsideStep ==
  ASSUME ArmedIInv, Second \/ HostPoll
  PROVE  ArmedIInv'
<1>1. UNCHANGED <<tx_buf, tx_in, tx_out, sent, rx_in, rx_out, re, we, control, call, count,
                  chunk, moved>>
  BY DEF Second, HostPoll, transmit, receive, local
<1>2. wfifo \in Seq(Char) /\ rfifo \in Seq(Char) /\ hsent \in Char
  BY DEF ArmedIInv
<1>3. wfifo' \in Seq(Char)
  <2>1. wfifo # <<>> => Tail(wfifo) \in Seq(Char)
    BY <1>2
  <2> QED BY <1>2, <2>1 DEF Second, HostPoll
<1>4. rfifo' \in Seq(Char) /\ hsent' \in Char
  <2>1. Append(rfifo, hsent) \in Seq(Char) /\ (hsent + 1) % M \in Char
    BY <1>2 DEF Char
  <2> QED BY <1>2, <2>1 DEF Second, HostPoll
<1> QED BY <1>1, <1>3, <1>4 DEF ArmedIInv, ReadRoom

(***************************************************************************)
(* No wakeup is lost, whatever the lengths of rings and FIFOs: an          *)
(* interrupt of the JTAG UART that is off has nothing to do, or the        *)
(* program is about to turn it on.                                         *)
(***************************************************************************)
THEOREM InterruptsAreArmed == JtagSpec => []InterruptsArmed
<1>1. ArmedIInv /\ UNCHANGED jtagVars => ArmedIInv'
  BY DEF jtagVars, transmit, receive, device, local, ArmedIInv, ReadRoom
<1>2. Driver => Program(Write \/ CloseWait) \/ Program(Read)
  BY DEF Driver, Program
<1>3. ArmedIInv /\ [JtagNext]_jtagVars => ArmedIInv'
  BY <1>1, <1>2, CallStep, WriteStep, ReadStep, HandlerStep, OutsideStep DEF JtagNext
<1>4. ArmedIInv => InterruptsArmed
  BY DEF ArmedIInv, InterruptsArmed
<1> QED BY <1>3, <1>4, JtagInitInv, PTL DEF JtagSpec

-----------------------------------------------------------------------------
\* The streams.
HIDE JtagAssumption

\* The sizes.
LEMMA JtagSizes ==
  /\ BufLen \in Nat /\ BufLen >= 1 /\ M \in Nat /\ M >= 1 /\ Depth \in Nat
  /\ BufLen + Depth < M
BY JtagAssumption DEF JtagAssumption

LEMMA RingPlace ==
  ASSUME NEW x \in 0 .. BufLen - 1, NEW a \in 0 .. BufLen - 1
  PROVE  (x + a) % BufLen \in Index
BY JtagSizes, WrapPlus DEF Index

\* What StreamsIInv says of the way out, in numbers.
LEMMA TxNumbers ==
  ASSUME StreamsIInv
  PROVE  /\ tx_in \in 0 .. BufLen - 1 /\ tx_out \in 0 .. BufLen - 1
         /\ sent \in 0 .. M - 1 /\ got \in 0 .. M - 1
         /\ wfifo \in Seq(Char) /\ Len(wfifo) \in Nat /\ Len(wfifo) <= Depth
         /\ TxHeld \in 0 .. BufLen - 1 /\ tx_in = (tx_out + TxHeld) % BufLen
         /\ Len(wfifo) + TxHeld < M
         /\ count \in Nat /\ chunk \in Int
<1>1. /\ tx_in \in 0 .. BufLen - 1 /\ tx_out \in 0 .. BufLen - 1
      /\ sent \in 0 .. M - 1 /\ got \in 0 .. M - 1
      /\ wfifo \in Seq(Char) /\ Len(wfifo) \in Nat
      /\ count \in Nat /\ chunk \in Int
  BY DEF StreamsIInv, ArmedIInv, Index, Char, CallInOrder
<1>2. TxHeld \in 0 .. BufLen - 1 /\ tx_in = (tx_out + TxHeld) % BufLen
  BY <1>1, JtagSizes, WrapThere DEF TxHeld
<1>3. Len(wfifo) <= Depth
  <2> DEFINE s == control.space
  <2>1. s \in Int /\ s >= 0 /\ Len(wfifo) + s <= Depth
    BY DEF StreamsIInv, ArmedIInv, TxInOrder
  <2> HIDE DEF s
  <2> QED BY <1>1, <2>1, JtagSizes
<1>4. Len(wfifo) + TxHeld < M
  BY <1>1, <1>2, <1>3, JtagSizes
<1> QED BY <1>1, <1>2, <1>3, <1>4

\* What the handler knew to fit.
LEMMA TxFits ==
  ASSUME StreamsIInv
  PROVE  control.space \in Nat /\ Len(wfifo) + control.space <= Depth
BY DEF StreamsIInv, ArmedIInv, TxInOrder

\* Nothing happens on the way out.
LEMMA TxRests ==
  ASSUME StreamsIInv, UNCHANGED <<tx_buf, tx_in, tx_out, sent, wfifo, got>>,
         control'.space >= 0, Len(wfifo) + control'.space <= Depth,
         call' \in {"copy", "put"} => call' = call /\ chunk' = chunk
  PROVE  TxInOrder'
<1>1. TxHeld' = TxHeld
  BY DEF TxHeld
<1> QED BY <1>1 DEF StreamsIInv, TxInOrder

\* The host takes the first character of the FIFO.
LEMMA TxTaken ==
  ASSUME StreamsIInv, HostPoll
  PROVE  TxInOrder' /\ got' \in Char /\ [TxStream!Put \/ TxStream!Take]_<<sent, got>>
<1>1. UNCHANGED <<tx_buf, tx_in, tx_out, sent, call, chunk, control>>
  BY DEF HostPoll, transmit, local
<1>2. TxHeld' = TxHeld
  BY <1>1 DEF TxHeld
<1>3. CASE wfifo = <<>>
  <2>1. wfifo' = wfifo /\ got' = got
    BY <1>3 DEF HostPoll
  <2>2. TxInOrder'
    BY <1>1, <1>2, <2>1 DEF StreamsIInv, TxInOrder
  <2> QED BY <1>1, <2>1, <2>2 DEF StreamsIInv
<1>4. CASE wfifo # <<>>
  <2> DEFINE w == Len(wfifo)
  <2>1. wfifo' = Tail(wfifo) /\ got' = Expect(got, <<Head(wfifo)>>)
    BY <1>4 DEF HostPoll
  <2>2. w >= 1 /\ w \in Nat /\ Len(wfifo') = w - 1 /\ \A j \in 1 .. w - 1 : wfifo'[j] = wfifo[j + 1]
    BY <1>4, <2>1, TxNumbers, JtagSizes
  <2>3. \A j \in 1 .. w : wfifo[j] = (got + (j - 1)) % M
    BY DEF StreamsIInv, TxInOrder
  <2>0. got % M = got /\ got + 0 = got /\ got + 1 - 1 = got
    <3>1. M \in Nat /\ M >= 1 /\ got \in 0 .. M - 1
      BY TxNumbers, JtagSizes
    <3>2. got % M = got
      BY <3>1, WrapNone
    <3> QED BY <3>1, <3>2
  <2>4. Head(wfifo) = got
    <3>1. Head(wfifo) = wfifo[1]
      BY <1>4, TxNumbers, JtagSizes
    <3>2. wfifo[1] = (got + 0) % M
      <4>1. 1 \in 1 .. w /\ 1 - 1 = 0
        BY <2>2
      <4> QED BY <2>3, <4>1
    <3> QED BY <2>0, <3>1, <3>2
  <2>5. got' = (got + 1) % M
    <3> DEFINE s == <<Head(wfifo)>>
    <3>1. Len(s) = 1 /\ DOMAIN s = {1} /\ s[1] = got
      BY <2>4
    <3>2. (got + 1 - 1) % M = got
      BY <2>0
    <3> HIDE DEF s
    <3>3. \A j \in DOMAIN s : s[j] = (got + j - 1) % M
      BY <3>1, <3>2
    <3>4. got' = IF \A j \in DOMAIN s : s[j] = (got + j - 1) % M THEN (got + Len(s)) % M ELSE M
      BY <2>1 DEF Expect, s
    <3> QED BY <3>1, <3>3, <3>4
  <2>6. \A a \in Nat : a < M => (got' + a) % M = (got + (1 + a)) % M
    <3> SUFFICES ASSUME NEW a \in Nat, a < M
                 PROVE  (got' + a) % M = (got + (1 + a)) % M
      OBVIOUS
    <3>1. /\ M \in Nat /\ M >= 1 /\ got \in 0 .. M - 1 /\ 1 \in Nat /\ 1 + a <= M
      BY TxNumbers, JtagSizes
    <3> QED BY <2>5, <3>1, WrapAdd
  <2> HIDE DEF w
  <2>7. w + TxHeld < M /\ TxHeld \in Nat
    BY TxNumbers, JtagSizes DEF w
  <2>8. \A j \in 1 .. Len(wfifo') : wfifo'[j] = (got' + (j - 1)) % M
    <3> TAKE j \in 1 .. Len(wfifo')
    <3>1. wfifo'[j] = (got + j) % M
      <4>1. j + 1 \in 1 .. w /\ j \in 1 .. w - 1 /\ (j + 1) - 1 = j
        BY <2>2
      <4>2. wfifo[j + 1] = (got + ((j + 1) - 1)) % M
        BY <2>3, <4>1
      <4> QED BY <2>2, <4>1, <4>2
    <3>2. (got' + (j - 1)) % M = (got + (1 + (j - 1))) % M
      BY <2>2, <2>6, <2>7, JtagSizes
    <3> QED BY <3>1, <3>2
  <2>9. \A j \in 0 .. TxHeld' - 1 :
          tx_buf'[(tx_out' + j) % BufLen] = (got' + (Len(wfifo') + j)) % M
    <3> TAKE j \in 0 .. TxHeld' - 1
    <3>1. tx_buf[(tx_out + j) % BufLen] = (got + (w + j)) % M
      BY <1>2 DEF StreamsIInv, TxInOrder, w
    <3>2. (got' + (w - 1 + j)) % M = (got + (1 + (w - 1 + j))) % M
      BY <1>2, <2>2, <2>6, <2>7, JtagSizes
    <3>3. 1 + (w - 1 + j) = w + j
      BY <1>2, <2>2, <2>7
    <3> QED BY <1>1, <2>2, <3>1, <3>2, <3>3
  <2>10. sent' = (got' + (Len(wfifo') + TxHeld')) % M
    <3>1. sent = (got + (w + TxHeld)) % M
      BY DEF StreamsIInv, TxInOrder, w
    <3>2. (got' + (w - 1 + TxHeld)) % M = (got + (1 + (w - 1 + TxHeld))) % M
      BY <2>2, <2>6, <2>7, JtagSizes
    <3>3. 1 + (w - 1 + TxHeld) = w + TxHeld
      BY <2>2, <2>7
    <3> QED BY <1>1, <1>2, <2>2, <3>1, <3>2, <3>3
  <2>11. control'.space >= 0 /\ Len(wfifo') + control'.space <= Depth
    <3>1. control.space >= 0 /\ w + control.space <= Depth
      BY DEF StreamsIInv, TxInOrder, w
    <3>2. control'.space = control.space
      BY <1>1
    <3>3. control.space \in Nat /\ Depth \in Nat
      BY TxFits, JtagSizes
    <3>4. (w - 1) + control.space <= Depth
      BY <2>2, <3>1, <3>3
    <3> QED BY <2>2, <3>1, <3>2, <3>4
  <2>12. TxInOrder'
    BY <1>1, <1>2, <2>8, <2>9, <2>10, <2>11 DEF StreamsIInv, TxInOrder
  <2>13. TxStream!Take
    <3>1. (sent - got) % M = w + TxHeld
      <4>1. sent = (got + (w + TxHeld)) % M
        BY DEF StreamsIInv, TxInOrder, w
      <4>2. w + TxHeld \in 0 .. M - 1 /\ M \in Nat /\ M >= 1 /\ got \in 0 .. M - 1
        BY <2>2, <2>7, TxNumbers, JtagSizes
      <4> QED BY <4>1, <4>2, WrapBack
    <3>2. 1 \in 1 .. (BufLen - 1 + Depth) /\ 1 <= w + TxHeld
      <4>1. w \in Nat /\ w >= 1 /\ w <= Depth /\ TxHeld \in Nat
        BY <2>2, <2>7, TxNumbers DEF w
      <4> HIDE DEF w
      <4> QED BY <4>1, JtagSizes
    <3> QED BY <1>1, <2>5, <3>1, <3>2 DEF TxStream!Take, TxStream!UnderWay
  <2>14. got' \in Char
    BY <2>5, CharNumber, TxNumbers, JtagSizes
  <2> QED BY <2>12, <2>13, <2>14
<1> QED BY <1>3, <1>4

\* The handler moves characters from the ring to the FIFO, as many as it knew
\* to fit when it read the control word; the host has only made more room.
LEMMA TxMoved ==
  ASSUME StreamsIInv, IsrTransmit, UNCHANGED <<call, chunk>>
  PROVE  TxInOrder' /\ UNCHANGED <<sent, got>>
<1> DEFINE w == Len(wfifo)
           k == Min({control.space, TxHeld})
<1>0. UNCHANGED <<tx_buf, tx_in, sent, got, call, chunk>> /\ control' = NoControl
  BY DEF IsrTransmit
<1>1. control'.space = 0
  BY <1>0 DEF NoControl
<1>2. CASE ~control.wi
  <2>1. UNCHANGED <<wfifo, tx_out>>
    BY <1>2 DEF IsrTransmit
  <2>2. w <= Depth /\ w \in Nat
    BY TxNumbers, JtagSizes
  <2>3. control'.space >= 0 /\ w + control'.space <= Depth
    BY <1>1, <2>2
  <2> QED BY <1>0, <2>1, <2>3, TxRests
<1>3. CASE control.wi
  <2>1. wfifo' = wfifo \o Chars(tx_buf, tx_out, k) /\ tx_out' = (tx_out + k) % BufLen
    BY <1>3, Zenon DEF IsrTransmit, TxHeld
  <2>2. /\ k \in Nat /\ k <= TxHeld /\ k <= control.space
        /\ w \in Nat /\ TxHeld \in Nat /\ TxHeld < BufLen /\ w + TxHeld < M
        /\ BufLen \in Nat /\ BufLen >= 1 /\ tx_out \in 0 .. BufLen - 1
    <3> DEFINE s == control.space
    <3>1. s \in Nat /\ TxHeld \in Nat
      BY TxNumbers, TxFits, JtagSizes
    <3>2. k = IF s <= TxHeld THEN s ELSE TxHeld
      <4> HIDE DEF s
      <4>1. Min({s, TxHeld}) = IF s <= TxHeld THEN s ELSE TxHeld
        BY <3>1, MinOfTwo
      <4> QED BY <4>1 DEF s
    <3> HIDE DEF k, s
    <3>3. k \in Nat /\ k <= TxHeld /\ k <= s
      BY <3>1, <3>2
    <3>4. /\ w \in Nat /\ TxHeld < BufLen /\ w + TxHeld < M
          /\ BufLen \in Nat /\ BufLen >= 1 /\ tx_out \in 0 .. BufLen - 1
      BY TxNumbers, JtagSizes
    <3> QED BY <3>1, <3>3, <3>4 DEF s
  <2>3. w + control.space <= Depth
    BY DEF StreamsIInv, TxInOrder
  <2> HIDE DEF k
  <2> DEFINE c == Chars(tx_buf, tx_out, k)
  <2>4. DOMAIN c = 1 .. k /\ \A j \in 1 .. k : c[j] = tx_buf[(tx_out + j - 1) % BufLen]
    BY DEF Chars
  <2>5. \A j \in 1 .. k : c[j] = (got + (w + (j - 1))) % M
    <3> SUFFICES ASSUME NEW j \in 1 .. k PROVE c[j] = (got + (w + (j - 1))) % M
      OBVIOUS
    <3>1. j - 1 \in 0 .. TxHeld - 1 /\ tx_out + j - 1 = tx_out + (j - 1)
      BY <2>2
    <3>2. tx_buf[(tx_out + (j - 1)) % BufLen] = (got + (w + (j - 1))) % M
      BY <3>1 DEF StreamsIInv, TxInOrder
    <3> QED BY <2>4, <3>1, <3>2
  <2>6. c \in Seq(Char) /\ Len(c) = k
    <3>1. \A j \in 1 .. k : c[j] \in Char
      <4> SUFFICES ASSUME NEW j \in 1 .. k PROVE c[j] \in Char
        OBVIOUS
      <4>1. got + (w + (j - 1)) \in Int
        BY <2>2, TxNumbers, JtagSizes
      <4> QED BY <2>5, <4>1, CharNumber
    <3>2. c = [j \in 1 .. k |-> c[j]]
      BY <2>4 DEF Chars
    <3> HIDE DEF c
    <3>3. k \in Nat
      BY <2>2
    <3> QED BY <2>4, <3>1, <3>2, <3>3
  <2> HIDE DEF c
  <2>7. /\ Len(wfifo') = w + k
        /\ \A j \in 1 .. w : wfifo'[j] = wfifo[j]
        /\ \A j \in w + 1 .. w + k : wfifo'[j] = c[j - w]
    <3>1. wfifo \in Seq(Char) /\ w \in Nat /\ k \in Nat /\ wfifo' = wfifo \o c
      BY <2>1, <2>2, TxNumbers, JtagSizes DEF c
    <3>2. /\ Len(wfifo \o c) = Len(wfifo) + Len(c)
          /\ \A j \in 1 .. Len(wfifo) : (wfifo \o c)[j] = wfifo[j]
          /\ \A j \in 1 .. Len(c) : (wfifo \o c)[Len(wfifo) + j] = c[j]
      <4>1. wfifo \in Seq(Char) /\ c \in Seq(Char)
        BY <2>6, <3>1
      <4> QED BY <4>1, Behind
    <3>3. \A j \in w + 1 .. w + k : wfifo'[j] = c[j - w]
      <4> SUFFICES ASSUME NEW j \in w + 1 .. w + k PROVE wfifo'[j] = c[j - w]
        OBVIOUS
      <4>1. j - w \in 1 .. k /\ w + (j - w) = j
        BY <3>1
      <4> QED BY <2>6, <3>1, <3>2, <4>1
    <3> QED BY <2>6, <3>1, <3>2, <3>3
  <2>8. TxHeld' = TxHeld - k
    <3>1. /\ TxHeld \in 0 .. BufLen - 1 /\ k \in 0 .. BufLen - 1
          /\ tx_in = (tx_out + TxHeld) % BufLen
      BY <2>2, TxNumbers, JtagSizes
    <3>2. (((tx_out + TxHeld) % BufLen) - ((tx_out + k) % BufLen)) % BufLen = TxHeld - k
      BY <2>2, <3>1, WrapApart
    <3> QED BY <1>0, <2>1, <3>1, <3>2 DEF TxHeld
  <2>9. \A j \in 1 .. Len(wfifo') : wfifo'[j] = (got' + (j - 1)) % M
    <3> SUFFICES ASSUME NEW j \in 1 .. w + k PROVE wfifo'[j] = (got + (j - 1)) % M
      BY <1>0, <2>7
    <3>1. CASE j <= w
      BY <2>2, <2>7, <3>1 DEF StreamsIInv, TxInOrder
    <3>2. CASE j > w
      <4>1. j - w \in 1 .. k /\ j \in w + 1 .. w + k /\ w + ((j - w) - 1) = j - 1
        BY <2>2, <3>2
      <4>2. c[j - w] = (got + (w + ((j - w) - 1))) % M
        BY <2>5, <4>1
      <4> QED BY <2>7, <4>1, <4>2
    <3> QED BY <2>2, <3>1, <3>2
  <2>10. \A j \in 0 .. TxHeld' - 1 :
           tx_buf'[(tx_out' + j) % BufLen] = (got' + (Len(wfifo') + j)) % M
    <3> SUFFICES ASSUME NEW j \in 0 .. TxHeld - k - 1
                 PROVE  tx_buf[(((tx_out + k) % BufLen) + j) % BufLen] = (got + (w + k + j)) % M
      BY <1>0, <2>1, <2>7, <2>8
    <3>1. k + j \in 0 .. TxHeld - 1 /\ j \in Nat /\ k + j <= BufLen /\ w + (k + j) = w + k + j
      BY <2>2
    <3>2. (((tx_out + k) % BufLen) + j) % BufLen = (tx_out + (k + j)) % BufLen
      BY <2>2, <3>1, WrapAdd
    <3>3. tx_buf[(tx_out + (k + j)) % BufLen] = (got + (w + (k + j))) % M
      BY <3>1 DEF StreamsIInv, TxInOrder
    <3> QED BY <3>1, <3>2, <3>3
  <2>11. sent' = (got' + (Len(wfifo') + TxHeld')) % M
    <3>1. sent = (got + (w + TxHeld)) % M
      BY DEF StreamsIInv, TxInOrder
    <3>2. w + k + (TxHeld - k) = w + TxHeld
      BY <2>2
    <3> QED BY <1>0, <2>7, <2>8, <3>1, <3>2
  <2>12. control'.space >= 0 /\ Len(wfifo') + control'.space <= Depth
    <3>1. w + k <= Depth
      <4> DEFINE s == control.space
      <4>1. s \in Nat /\ Depth \in Nat /\ k <= s /\ w + s <= Depth /\ w \in Nat /\ k \in Nat
        BY <2>2, <2>3, TxFits, JtagSizes
      <4> HIDE DEF s, w
      <4> QED BY <4>1
    <3> HIDE DEF w
    <3> QED BY <1>1, <2>2, <2>7, <3>1
  <2>13. call' \in {"copy", "put"} =>
           chunk' >= 1 /\ tx_in' + chunk' <= BufLen /\ TxHeld' + chunk' <= BufLen - 1
    <3>1. call \in {"copy", "put"} =>
            chunk >= 1 /\ tx_in + chunk <= BufLen /\ TxHeld + chunk <= BufLen - 1
      BY DEF StreamsIInv, TxInOrder
    <3>2. call \in {"copy", "put"} => TxHeld - k + chunk <= BufLen - 1
      <4>1. chunk \in Int
        BY TxNumbers, JtagSizes
      <4> QED BY <2>2, <3>1, <4>1
    <3> QED BY <1>0, <2>8, <3>1, <3>2
  <2>14. call' = "put" => \A j \in 0 .. chunk' - 1 : tx_buf'[tx_in' + j] = (sent' + j) % M
    BY <1>0 DEF StreamsIInv, TxInOrder
  <2> QED BY <1>0, <2>9, <2>10, <2>11, <2>12, <2>13, <2>14 DEF TxInOrder
<1> QED BY <1>2, <1>3

\* A look at the control word.
LEMMA TxLooked ==
  ASSUME StreamsIInv, IsrControl, UNCHANGED <<call, chunk>>
  PROVE  TxInOrder' /\ UNCHANGED <<sent, got>>
<1>1. UNCHANGED <<tx_buf, tx_in, tx_out, sent, wfifo, got>>
  BY DEF IsrControl, transmit, device
<1>2. control'.space = Depth - Len(wfifo) \/ control'.space = 0
  <2>1. control' = [ri |-> RI, wi |-> WI, space |-> Depth - Len(wfifo)] \/ control' = NoControl
    BY DEF IsrControl
  <2> QED BY <2>1 DEF NoControl
<1>3. Depth - Len(wfifo) >= 0 /\ Len(wfifo) + (Depth - Len(wfifo)) = Depth /\ Len(wfifo) <= Depth
      /\ Len(wfifo) + 0 = Len(wfifo)
  BY TxNumbers, JtagSizes
<1>4. control'.space >= 0 /\ Len(wfifo) + control'.space <= Depth
  <2>1. CASE control'.space = 0
    BY <1>3, <2>1, TxNumbers, JtagSizes
  <2>2. CASE control'.space = Depth - Len(wfifo)
    <3>1. Len(wfifo) + control'.space = Depth /\ control'.space >= 0
      BY <1>3, <2>2
    <3> QED BY <3>1, JtagSizes
  <2> QED BY <1>2, <2>1, <2>2
<1> QED BY <1>1, <1>4, TxRests

-----------------------------------------------------------------------------
\* The room found ends before the end of the ring and before tx_out.
LEMMA TxRoom ==
  ASSUME StreamsIInv
  PROVE  /\ WriteRoom \in Nat
         /\ tx_in + WriteRoom <= BufLen
         /\ TxHeld + WriteRoom <= BufLen - 1
<1>1. /\ BufLen \in Nat /\ BufLen >= 1 /\ tx_in \in 0 .. BufLen - 1 /\ tx_out \in 0 .. BufLen - 1
  BY TxNumbers, JtagSizes
<1>2. TxHeld = IF tx_in >= tx_out THEN tx_in - tx_out ELSE tx_in - tx_out + BufLen
  BY <1>1, JtagSizes, WrapMinus DEF TxHeld
<1> QED BY <1>1, <1>2 DEF WriteRoom

LEMMA TxSpace ==
  ASSUME StreamsIInv, WriteSpace, UNCHANGED <<wfifo, got, control>>
  PROVE  /\ TxInOrder'
         /\ count' \in Nat /\ (call' = "copy" => chunk' <= count') /\ call' \in {"kick", "copy"}
         /\ UNCHANGED <<sent, got>>
<1>1. UNCHANGED <<tx_buf, tx_in, tx_out, sent>> /\ call = "space"
  BY DEF WriteSpace, transmit
<1>2. TxHeld' = TxHeld
  BY <1>1 DEF TxHeld
<1>3. /\ \A j \in 1 .. Len(wfifo') : wfifo'[j] = (got' + (j - 1)) % M
      /\ \A j \in 0 .. TxHeld' - 1 :
           tx_buf'[(tx_out' + j) % BufLen] = (got' + (Len(wfifo') + j)) % M
      /\ sent' = (got' + (Len(wfifo') + TxHeld')) % M
      /\ control'.space >= 0 /\ Len(wfifo') + control'.space <= Depth
  BY <1>1, <1>2 DEF StreamsIInv, TxInOrder
<1>4. CASE count = 0
  <2>1. call' = "kick" /\ count' = count
    BY <1>4 DEF WriteSpace, Goto, local
  <2> QED BY <1>1, <1>3, <1>4, <2>1 DEF TxInOrder
<1>5. CASE count # 0
  <2>1. /\ chunk' = Min({WriteRoom, count}) /\ count' = count
        /\ call' = IF WriteRoom = 0 THEN "kick" ELSE "copy"
    BY <1>5 DEF WriteSpace
  <2>2. count \in Nat /\ WriteRoom \in Nat
    BY TxNumbers, JtagSizes, TxRoom
  <2>3. chunk' = IF WriteRoom <= count THEN WriteRoom ELSE count
    BY <2>1, <2>2, MinOfTwo
  <2>4. CASE WriteRoom = 0
    BY <1>1, <1>3, <2>1, <2>2, <2>4 DEF TxInOrder
  <2>5. CASE WriteRoom # 0
    <3>1. chunk' \in Nat /\ chunk' >= 1 /\ chunk' <= count /\ chunk' <= WriteRoom
      BY <1>5, <2>2, <2>3, <2>5
    <3>2. tx_in + chunk' <= BufLen /\ TxHeld + chunk' <= BufLen - 1
      <4>1. tx_in \in Nat /\ TxHeld \in Nat /\ BufLen \in Nat
        BY TxNumbers, JtagSizes
      <4>2. tx_in + WriteRoom <= BufLen /\ TxHeld + WriteRoom <= BufLen - 1
        BY TxRoom
      <4>3. chunk' \in Nat /\ WriteRoom \in Nat /\ chunk' <= WriteRoom
        BY <2>2, <3>1
      <4> DEFINE r == WriteRoom
                 c == chunk'
                 h == TxHeld
      <4>4. /\ tx_in \in Nat /\ h \in Nat /\ r \in Nat /\ c \in Nat /\ BufLen \in Nat
            /\ c <= r /\ tx_in + r <= BufLen /\ h + r <= BufLen - 1
        BY <4>1, <4>2, <4>3
      <4> HIDE DEF r, c, h
      <4>5. tx_in + c <= BufLen /\ h + c <= BufLen - 1
        BY <4>4
      <4> QED BY <4>5 DEF c, h
    <3> QED BY <1>1, <1>2, <1>3, <2>1, <2>2, <2>5, <3>1, <3>2 DEF TxInOrder
  <2> QED BY <2>4, <2>5
<1> QED BY <1>4, <1>5

\* Copying touches no place that holds a character.
LEMMA TxCopied ==
  ASSUME StreamsIInv, WriteCopy, UNCHANGED <<wfifo, got, control>>
  PROVE  TxInOrder' /\ count' \in Nat /\ call' = "put" /\ UNCHANGED <<sent, got>>
<1>1. /\ UNCHANGED <<tx_in, tx_out, sent, chunk>> /\ call = "copy" /\ call' = "put"
      /\ count' = count - chunk
      /\ tx_buf' = [i \in Index |-> IF i \in tx_in .. tx_in + chunk - 1
                                      THEN (sent + i - tx_in) % M ELSE tx_buf[i]]
  BY DEF WriteCopy
<1>2. TxHeld' = TxHeld
  BY <1>1 DEF TxHeld
<1>3. /\ BufLen \in Nat /\ BufLen >= 1 /\ tx_in \in 0 .. BufLen - 1 /\ tx_out \in 0 .. BufLen - 1
      /\ TxHeld \in 0 .. BufLen - 1 /\ tx_in = (tx_out + TxHeld) % BufLen
  BY TxNumbers, JtagSizes
<1>4. chunk \in Nat /\ chunk >= 1 /\ tx_in + chunk <= BufLen /\ TxHeld + chunk <= BufLen - 1
  <2>1. chunk \in Int
    BY TxNumbers, JtagSizes
  <2> QED BY <1>1, <2>1 DEF StreamsIInv, TxInOrder
<1>5. \A j \in 0 .. TxHeld' - 1 :
        tx_buf'[(tx_out' + j) % BufLen] = (got' + (Len(wfifo') + j)) % M
  <2> SUFFICES ASSUME NEW j \in 0 .. TxHeld - 1
               PROVE  tx_buf'[(tx_out + j) % BufLen] = (got + (Len(wfifo) + j)) % M
    BY <1>1, <1>2
  <2> DEFINE p == (tx_out + j) % BufLen
  <2>1. p = IF tx_out + j < BufLen THEN tx_out + j ELSE tx_out + j - BufLen
    <3>1. tx_out \in 0 .. BufLen - 1 /\ j \in 0 .. BufLen
      BY <1>3
    <3> QED BY <3>1, JtagSizes, WrapPlus
  <2>2. tx_in = IF tx_out + TxHeld < BufLen THEN tx_out + TxHeld ELSE tx_out + TxHeld - BufLen
    <3>1. tx_out \in 0 .. BufLen - 1 /\ TxHeld \in 0 .. BufLen
      BY <1>3
    <3>2. (tx_out + TxHeld) % BufLen =
             IF tx_out + TxHeld < BufLen THEN tx_out + TxHeld ELSE tx_out + TxHeld - BufLen
      BY <3>1, JtagSizes, WrapPlus
    <3> QED BY <1>3, <3>2
  <2> HIDE DEF p
  <2>3. p \in 0 .. BufLen - 1 /\ ~(p >= tx_in /\ p <= tx_in + chunk - 1)
    BY <1>3, <1>4, <2>1, <2>2
  <2>4. tx_buf'[p] = tx_buf[p]
    BY <1>1, <1>3, <1>4, <2>3 DEF Index
  <2> QED BY <2>4 DEF p, StreamsIInv, TxInOrder
<1>6. \A j \in 0 .. chunk' - 1 : tx_buf'[tx_in' + j] = (sent' + j) % M
  <2> SUFFICES ASSUME NEW j \in 0 .. chunk - 1
               PROVE  tx_buf'[tx_in + j] = (sent + j) % M
    BY <1>1
  <2>1. tx_in + j \in 0 .. BufLen - 1 /\ tx_in + j \in tx_in .. tx_in + chunk - 1
    BY <1>3, <1>4
  <2>2. sent + (tx_in + j) - tx_in = sent + j
    BY <1>3, TxNumbers, JtagSizes
  <2> QED BY <1>1, <2>1, <2>2 DEF Index
<1>7. count' \in Nat
  <2>1. count \in Nat /\ chunk <= count
    BY <1>1 DEF StreamsIInv, CallInOrder, ArmedIInv
  <2> QED BY <1>1, <1>4, <2>1
<1>8. /\ \A j \in 1 .. Len(wfifo') : wfifo'[j] = (got' + (j - 1)) % M
      /\ sent' = (got' + (Len(wfifo') + TxHeld')) % M
      /\ control'.space >= 0 /\ Len(wfifo') + control'.space <= Depth
  BY <1>1, <1>2 DEF StreamsIInv, TxInOrder
<1> QED BY <1>1, <1>2, <1>4, <1>5, <1>6, <1>7, <1>8 DEF TxInOrder

\* Moving tx_in puts what was copied behind what the ring holds.
LEMMA TxPut ==
  ASSUME StreamsIInv, WritePut, UNCHANGED <<wfifo, got, control>>
  PROVE  TxInOrder' /\ call' = "space" /\ count' = count /\ TxStream!Put
<1> DEFINE w == Len(wfifo)
<1>1. /\ UNCHANGED <<tx_buf, tx_out, count>> /\ call = "put" /\ call' = "space"
      /\ tx_in' = (tx_in + chunk) % BufLen
      /\ sent' = (sent + chunk) % M
  BY DEF WritePut
<1>2. /\ BufLen \in Nat /\ BufLen >= 1 /\ tx_in \in 0 .. BufLen - 1 /\ tx_out \in 0 .. BufLen - 1
      /\ TxHeld \in 0 .. BufLen - 1 /\ tx_in = (tx_out + TxHeld) % BufLen
      /\ M \in Nat /\ M >= 1 /\ got \in 0 .. M - 1 /\ w \in Nat /\ Depth \in Nat /\ w <= Depth
      /\ w + BufLen - 1 < M
  BY TxNumbers, JtagSizes
<1>3. chunk \in Nat /\ chunk >= 1 /\ tx_in + chunk <= BufLen /\ TxHeld + chunk <= BufLen - 1
  <2>1. chunk \in Int
    BY TxNumbers, JtagSizes
  <2> QED BY <1>1, <2>1 DEF StreamsIInv, TxInOrder
<1>4. sent = (got + (w + TxHeld)) % M
  BY DEF StreamsIInv, TxInOrder
<1> HIDE DEF w
<1>5. TxHeld' = TxHeld + chunk
  <2>1. tx_in' = (tx_out + (TxHeld + chunk)) % BufLen
    BY <1>1, <1>2, <1>3, JtagSizes, WrapAdd
  <2>2. TxHeld + chunk \in 0 .. BufLen - 1
    BY <1>2, <1>3
  <2>3. (((tx_out + (TxHeld + chunk)) % BufLen) - tx_out) % BufLen = TxHeld + chunk
    BY <1>2, <2>2, JtagSizes, WrapBack
  <2> QED BY <1>1, <2>1, <2>3 DEF TxHeld
<1>6. \A d \in 0 .. chunk : (sent + d) % M = (got + (w + TxHeld + d)) % M
  <2> SUFFICES ASSUME NEW d \in 0 .. chunk
               PROVE  (sent + d) % M = (got + (w + TxHeld + d)) % M
    OBVIOUS
  <2>1. w + TxHeld \in Nat /\ d \in Nat /\ (w + TxHeld) + d <= M
    BY <1>2, <1>3
  <2>2. (((got + (w + TxHeld)) % M) + d) % M = (got + ((w + TxHeld) + d)) % M
    BY <1>2, <2>1, WrapAdd
  <2> QED BY <1>4, <2>2
<1>7. \A j \in 0 .. TxHeld' - 1 : tx_buf'[(tx_out' + j) % BufLen] = (got' + (Len(wfifo') + j)) % M
  <2> SUFFICES ASSUME NEW j \in 0 .. TxHeld + chunk - 1
               PROVE  tx_buf[(tx_out + j) % BufLen] = (got + (w + j)) % M
    <3>1. TxHeld' - 1 = TxHeld + chunk - 1
      BY <1>2, <1>3, <1>5
    <3> QED BY <1>1, <3>1 DEF w
  <2>1. CASE j < TxHeld
    <3>1. j \in 0 .. TxHeld - 1
      BY <1>2, <1>3, <2>1
    <3> QED BY <3>1 DEF StreamsIInv, TxInOrder, w
  <2>2. CASE j >= TxHeld
    <3> DEFINE d == j - TxHeld
    <3>1. d \in 0 .. chunk - 1 /\ j = TxHeld + d
      BY <1>2, <1>3, <2>2
    <3> HIDE DEF d
    <3>2. tx_buf[tx_in + d] = (sent + d) % M
      BY <1>1, <3>1 DEF StreamsIInv, TxInOrder
    <3>3. (tx_out + j) % BufLen = tx_in + d
      <4>1. (tx_out + (TxHeld + d)) % BufLen = (tx_in + d) % BufLen
        BY <1>2, <1>3, <3>1, JtagSizes, WrapAdd
      <4>2. tx_in + d \in 0 .. BufLen - 1
        BY <1>2, <1>3, <3>1
      <4> QED BY <1>2, <3>1, <4>1, <4>2, JtagSizes, WrapNone
    <3>4. (sent + d) % M = (got + (w + TxHeld + d)) % M
      BY <1>3, <1>6, <3>1
    <3>5. w + TxHeld + d = w + j
      BY <1>2, <1>3, <3>1
    <3> QED BY <3>2, <3>3, <3>4, <3>5
  <2> QED BY <1>2, <1>3, <2>1, <2>2
<1>8. sent' = (got' + (Len(wfifo') + TxHeld')) % M
  <2>1. (sent + chunk) % M = (got + (w + TxHeld + chunk)) % M
    BY <1>3, <1>6
  <2>2. w + TxHeld + chunk = w + (TxHeld + chunk)
    BY <1>2, <1>3
  <2> QED BY <1>1, <1>5, <2>1, <2>2 DEF w
<1>9. /\ \A j \in 1 .. Len(wfifo') : wfifo'[j] = (got' + (j - 1)) % M
      /\ control'.space >= 0 /\ Len(wfifo') + control'.space <= Depth
  BY DEF StreamsIInv, TxInOrder
<1>10. TxStream!Put
  <2>1. w + TxHeld \in 0 .. M - 1
    BY <1>2
  <2>2. (sent - got) % M = w + TxHeld
    BY <1>2, <1>4, <2>1, WrapBack
  <2>3. chunk \in 1 .. (BufLen - 1 + Depth) /\ (w + TxHeld) + chunk <= BufLen - 1 + Depth
    BY <1>2, <1>3
  <2> QED BY <1>1, <2>2, <2>3 DEF TxStream!Put, TxStream!UnderWay
<1> QED BY <1>1, <1>7, <1>8, <1>9, <1>10 DEF TxInOrder

-----------------------------------------------------------------------------
\* The same of the way in.
LEMMA RxNumbers ==
  ASSUME StreamsIInv
  PROVE  /\ rx_in \in 0 .. BufLen - 1 /\ rx_out \in 0 .. BufLen - 1
         /\ hsent \in 0 .. M - 1 /\ hgot \in 0 .. M - 1
         /\ rfifo \in Seq(Char) /\ Len(rfifo) \in Nat /\ Len(rfifo) <= Depth
         /\ RxHeld \in 0 .. BufLen - 1 /\ rx_in = (rx_out + RxHeld) % BufLen
         /\ RxRead \in 0 .. RxHeld
         /\ RxHeld + Len(rfifo) < M
         /\ count \in Nat /\ chunk \in Int
<1>1. /\ rx_in \in 0 .. BufLen - 1 /\ rx_out \in 0 .. BufLen - 1
      /\ hsent \in 0 .. M - 1 /\ hgot \in 0 .. M - 1
      /\ rfifo \in Seq(Char) /\ Len(rfifo) \in Nat
      /\ count \in Nat /\ chunk \in Int
  BY DEF StreamsIInv, ArmedIInv, Index, Char, CallInOrder
<1>2. RxHeld \in 0 .. BufLen - 1 /\ rx_in = (rx_out + RxHeld) % BufLen
  BY <1>1, JtagSizes, WrapThere DEF RxHeld
<1>3. Len(rfifo) <= Depth
  BY DEF StreamsIInv, RxInOrder
<1>4. RxHeld + Len(rfifo) < M
  BY <1>1, <1>2, <1>3, JtagSizes
<1>5. RxRead \in 0 .. RxHeld
  <2>1. call = "free" => chunk >= 1 /\ chunk <= RxHeld
    BY DEF StreamsIInv, RxInOrder
  <2> QED BY <1>1, <1>2, <2>1 DEF RxRead
<1> QED BY <1>1, <1>2, <1>3, <1>4, <1>5

\* Nothing happens on the way in.
LEMMA RxRests ==
  ASSUME StreamsIInv, UNCHANGED <<rx_buf, rx_in, rx_out, hsent, hgot, rfifo>>,
         RxRead' = RxRead,
         call' \in {"take", "free"} => chunk' >= 1 /\ chunk' <= RxHeld
  PROVE  RxInOrder'
<1>1. RxHeld' = RxHeld
  BY DEF RxHeld
<1> QED BY <1>1 DEF StreamsIInv, RxInOrder

\* The host types a character into the FIFO.
LEMMA RxTyped ==
  ASSUME StreamsIInv, HostPoll
  PROVE  RxInOrder' /\ [RxStream!Put \/ RxStream!Take]_<<hsent, hgot>>
<1>1. UNCHANGED <<rx_buf, rx_in, rx_out, hgot, call, chunk>>
  BY DEF HostPoll, receive, local
<1>2. RxHeld' = RxHeld /\ RxRead' = RxRead
  BY <1>1 DEF RxHeld, RxRead
<1>3. CASE UNCHANGED <<rfifo, hsent>>
  <2>1. call' \in {"take", "free"} => chunk' >= 1 /\ chunk' <= RxHeld
    BY <1>1 DEF StreamsIInv, RxInOrder
  <2> QED BY <1>1, <1>2, <1>3, <2>1, RxRests
<1>4. CASE Len(rfifo) < Depth /\ rfifo' = Append(rfifo, hsent) /\ hsent' = (hsent + 1) % M
  <2> DEFINE f == Len(rfifo)
             h == RxHeld - RxRead
  <2>1. /\ f \in Nat /\ f < Depth /\ rfifo \in Seq(Char) /\ hsent \in Char
        /\ h \in 0 .. BufLen - 1 /\ h + f < M /\ hgot \in 0 .. M - 1
    <3>1. hsent \in Char
      BY DEF StreamsIInv, ArmedIInv
    <3>2. /\ RxHeld \in 0 .. BufLen - 1 /\ RxRead \in 0 .. RxHeld /\ RxHeld + f < M
          /\ f \in Nat /\ rfifo \in Seq(Char) /\ hgot \in 0 .. M - 1
      BY RxNumbers
    <3>3. f < Depth
      BY <1>4
    <3> HIDE DEF f
    <3> QED BY <3>1, <3>2, <3>3, JtagSizes
  <2>2. hsent = (hgot + (h + f)) % M
    BY DEF StreamsIInv, RxInOrder
  <2>3. /\ Len(rfifo') = f + 1 /\ rfifo'[f + 1] = hsent
        /\ \A j \in 1 .. f : rfifo'[j] = rfifo[j]
    BY <1>4, <2>1
  <2>4. \A j \in 1 .. f : rfifo[j] = (hgot + (h + (j - 1))) % M
    BY DEF StreamsIInv, RxInOrder
  <2> HIDE DEF f, h
  <2>5. \A j \in 1 .. f + 1 : rfifo'[j] = (hgot + (h + (j - 1))) % M
    <3> SUFFICES ASSUME NEW j \in 1 .. f + 1
                 PROVE  rfifo'[j] = (hgot + (h + (j - 1))) % M
      OBVIOUS
    <3>1. CASE j \in 1 .. f
      BY <2>3, <2>4, <3>1
    <3>2. CASE j = f + 1
      <4>1. j - 1 = f
        BY <2>1, <3>2
      <4> QED BY <2>2, <2>3, <3>2, <4>1
    <3> QED BY <2>1, <3>1, <3>2
  <2>6. hsent' = (hgot + (h + (f + 1))) % M
    <3>1. h + f \in Nat /\ (h + f) + 1 <= M /\ 1 \in Nat
      BY <2>1, JtagSizes
    <3>2. (((hgot + (h + f)) % M) + 1) % M = (hgot + ((h + f) + 1)) % M
      BY <2>1, <3>1, JtagSizes, WrapAdd
    <3>3. (h + f) + 1 = h + (f + 1)
      BY <2>1
    <3> QED BY <1>4, <2>2, <3>2, <3>3
  <2>7. f + 1 <= Depth
    BY <2>1, JtagSizes
  <2>8. RxInOrder'
    BY <1>1, <1>2, <2>3, <2>5, <2>6, <2>7 DEF StreamsIInv, RxInOrder, h
  <2>9. RxStream!Put
    <3>1. h + f \in 0 .. M - 1
      BY <2>1, JtagSizes
    <3>2. (hsent - hgot) % M = h + f
      BY <2>1, <2>2, <3>1, JtagSizes, WrapBack
    <3>3. 1 \in 1 .. (BufLen - 1 + Depth) /\ (h + f) + 1 <= BufLen - 1 + Depth
      BY <2>1, JtagSizes
    <3> QED BY <1>1, <1>4, <3>2, <3>3 DEF RxStream!Put, RxStream!UnderWay
  <2> QED BY <2>8, <2>9
<1> QED BY <1>3, <1>4 DEF HostPoll

\* The room of the ring is what it does not hold, but for one place.
LEMMA RxRoom ==
  ASSUME StreamsIInv
  PROVE  ReadRoom = BufLen - 1 - RxHeld
<1>1. rx_in \in 0 .. BufLen - 1 /\ rx_out \in 0 .. BufLen - 1
  BY RxNumbers
<1>2. RxHeld = IF rx_in >= rx_out THEN rx_in - rx_out ELSE rx_in - rx_out + BufLen
  BY <1>1, JtagSizes, WrapMinus DEF RxHeld
<1> DEFINE y == rx_out - rx_in
<1>3. y \in Int /\ -BufLen < y /\ y < BufLen
  BY <1>1, JtagSizes
<1>4. RxHeld = IF y <= 0 THEN -y ELSE BufLen - y
  BY <1>1, <1>2, JtagSizes
<1> HIDE DEF y
<1>5. (y - 1) % BufLen = IF y >= 1 THEN y - 1 ELSE BufLen + y - 1
  BY <1>3, JtagSizes, WrapOne
<1>6. (y - 1) % BufLen = BufLen - 1 - RxHeld
  BY <1>3, <1>4, <1>5, JtagSizes
<1> QED BY <1>6 DEF y, ReadRoom

\* The handler moves characters from the FIFO to the ring, as many as it has
\* room for, and touches no place that holds a character.
LEMMA RxMoved ==
  ASSUME StreamsIInv, IsrReceive, UNCHANGED <<call, chunk, hsent>>
  PROVE  RxInOrder' /\ UNCHANGED <<hsent, hgot>>
<1>1. UNCHANGED <<rx_out, hgot>>
  BY DEF IsrReceive
<1>2. RxRead' = RxRead
  BY DEF RxRead
<1>3. CASE ~control.ri
  <2>1. UNCHANGED <<rx_buf, rx_in, rfifo>>
    BY <1>3 DEF IsrReceive
  <2>2. call' \in {"take", "free"} => chunk' >= 1 /\ chunk' <= RxHeld
    BY DEF StreamsIInv, RxInOrder
  <2> QED BY <1>1, <1>2, <2>1, <2>2, RxRests
<1>4. CASE control.ri
  <2> DEFINE f == Len(rfifo)
             k == Min({ReadRoom, f})
             q == RxHeld
             b == RxRead
  <2>1. /\ rx_buf' = [i \in Index |-> LET j == ((i - rx_in) % BufLen) + 1
                           IN  IF j <= k THEN rfifo[j] ELSE rx_buf[i]]
        /\ rx_in' = (rx_in + k) % BufLen
        /\ rfifo' = SubSeq(rfifo, k + 1, f)
    BY <1>4, Zenon DEF IsrReceive
  <2>2. /\ rx_in \in 0 .. BufLen - 1 /\ rx_out \in 0 .. BufLen - 1
        /\ hgot \in 0 .. M - 1 /\ rfifo \in Seq(Char)
        /\ rx_in = (rx_out + q) % BufLen
    BY RxNumbers
  <2>3. q \in 0 .. BufLen - 1 /\ b \in 0 .. q /\ f \in Nat /\ f <= Depth /\ q + f < M
    BY RxNumbers
  <2>4. k \in Nat /\ k <= f /\ q + k <= BufLen - 1
    <3> DEFINE r == ReadRoom
    <3>1. r = BufLen - 1 - q
      BY RxRoom
    <3>2. Min({r, f}) = IF r <= f THEN r ELSE f
      <4>1. r \in Int /\ f \in Int
        BY <2>3, <3>1, JtagSizes
      <4> HIDE DEF r, f
      <4> QED BY <4>1, MinOfTwo
    <3> HIDE DEF r, f
    <3>3. k = IF r <= f THEN r ELSE f
      BY <3>2 DEF r, f
    <3> HIDE DEF k, q
    <3> QED BY <2>3, <3>1, <3>3, JtagSizes
  <2>5. /\ \A j \in 1 .. f : rfifo[j] = (hgot + (q - b + (j - 1))) % M
        /\ \A j \in b .. q - 1 : rx_buf[(rx_out + j) % BufLen] = (hgot + (j - b)) % M
        /\ hsent = (hgot + (q - b + f)) % M
    BY DEF StreamsIInv, RxInOrder
  <2> HIDE DEF k, q, b
  <2>6. Len(rfifo') = f - k /\ \A j \in 1 .. f - k : rfifo'[j] = rfifo[k + j]
    BY <2>1, <2>2, <2>3, <2>4
  <2> HIDE DEF f
  <2>7. RxHeld' = q + k
    <3>1. rx_in' = (rx_out + (q + k)) % BufLen
      <4>1. q \in Nat /\ k \in Nat /\ q + k <= BufLen
        BY <2>3, <2>4, JtagSizes
      <4>2. (((rx_out + q) % BufLen) + k) % BufLen = (rx_out + (q + k)) % BufLen
        BY <2>2, <4>1, JtagSizes, WrapAdd
      <4> QED BY <2>1, <2>2, <4>2
    <3>2. q + k \in 0 .. BufLen - 1
      BY <2>3, <2>4, JtagSizes
    <3>3. (((rx_out + (q + k)) % BufLen) - rx_out) % BufLen = q + k
      BY <2>2, <3>2, JtagSizes, WrapBack
    <3> QED BY <1>1, <3>1, <3>3 DEF RxHeld
  <2>8. \A j \in b .. q + k - 1 : rx_buf'[(rx_out + j) % BufLen] = (hgot + (j - b)) % M
    <3> SUFFICES ASSUME NEW j \in b .. q + k - 1
                 PROVE  rx_buf'[(rx_out + j) % BufLen] = (hgot + (j - b)) % M
      OBVIOUS
    <3> DEFINE p == (rx_out + j) % BufLen
               e == ((p - rx_in) % BufLen) + 1
    <3>1. j \in 0 .. BufLen - 1
      BY <2>3, <2>4, JtagSizes
    <3>2. p \in Index
      BY <2>2, <3>1, RingPlace
    <3>3. (p - rx_in) % BufLen = IF j >= q THEN j - q ELSE j - q + BufLen
      <4>1. (((rx_out + j) % BufLen) - ((rx_out + q) % BufLen)) % BufLen =
               IF j >= q THEN j - q ELSE j - q + BufLen
        BY <2>2, <2>3, <3>1, JtagSizes, WrapApart
      <4> QED BY <2>2, <4>1
    <3>4. rx_buf'[p] = IF e <= k THEN rfifo[e] ELSE rx_buf[p]
      <4> HIDE DEF p
      <4> QED BY <2>1, <3>2
    <3>5. CASE j < q
      <4>1. ~(e <= k)
        BY <2>3, <2>4, <3>1, <3>3, <3>5, JtagSizes
      <4>2. rx_buf[p] = (hgot + (j - b)) % M
        BY <2>3, <2>5, <3>5
      <4> QED BY <3>4, <4>1, <4>2
    <3>6. CASE j >= q
      <4>1. e = j - q + 1 /\ e <= k /\ e \in 1 .. f /\ q - b + (e - 1) = j - b
        BY <2>3, <2>4, <3>1, <3>3, <3>6, JtagSizes
      <4> HIDE DEF e
      <4>2. rfifo[e] = (hgot + (q - b + (e - 1))) % M
        BY <2>5, <4>1
      <4> QED BY <3>4, <4>1, <4>2
    <3> QED BY <2>3, <3>1, <3>5, <3>6
  <2>9. \A j \in 1 .. f - k : rfifo'[j] = (hgot + (q + k - b + (j - 1))) % M
    <3> SUFFICES ASSUME NEW j \in 1 .. f - k
                 PROVE  rfifo'[j] = (hgot + (q + k - b + (j - 1))) % M
      OBVIOUS
    <3>1. k + j \in 1 .. f /\ q - b + ((k + j) - 1) = q + k - b + (j - 1)
      BY <2>3, <2>4
    <3> QED BY <2>5, <2>6, <3>1
  <2>10. q - b + f = q + k - b + (f - k)
    BY <2>3, <2>4
  <2>11. f - k <= Depth
    BY <2>3, <2>4, JtagSizes
  <2>12. call' \in {"take", "free"} => chunk' >= 1 /\ chunk' <= q + k
    <3>1. call \in {"take", "free"} => chunk >= 1 /\ chunk <= q
      BY DEF StreamsIInv, RxInOrder, q
    <3>2. chunk \in Int
      BY RxNumbers
    <3> QED BY <2>3, <2>4, <3>1, <3>2
  <2>13. RxRead' = b /\ hgot' = hgot /\ rx_out' = rx_out /\ hsent' = hsent
    BY <1>1, <1>2 DEF b
  <2> DEFINE h == RxHeld'
             d == RxRead'
  <2>0. h = q + k /\ d = b
    BY <2>7, <2>13
  <2>19. q \in Int /\ k \in Int /\ b \in Int /\ f \in Int /\ hgot \in Int /\ rx_out \in Int
    BY <2>2, <2>3, <2>4, JtagSizes
  <2> HIDE DEF h, d
  <2>14. hsent' = (hgot' + (h - d + Len(rfifo'))) % M
    <3>1. hsent = (hgot + (q - b + f)) % M /\ Len(rfifo') = f - k
      BY <2>5, <2>6
    <3> QED BY <2>0, <2>10, <2>13, <2>19, <3>1, JtagSizes
  <2>15. \A j \in d .. h - 1 :
           rx_buf'[(rx_out' + j) % BufLen] = (hgot' + (j - d)) % M
    BY <2>0, <2>8, <2>13, <2>19, JtagSizes
  <2>16. \A j \in 1 .. Len(rfifo') :
           rfifo'[j] = (hgot' + (h - d + (j - 1))) % M
    <3>1. Len(rfifo') = f - k
      BY <2>6
    <3> QED BY <2>0, <2>9, <2>13, <2>19, <3>1, JtagSizes
  <2>17. call' \in {"take", "free"} => chunk' >= 1 /\ chunk' <= h
    BY <2>0, <2>12
  <2>18. Len(rfifo') <= Depth
    BY <2>6, <2>11
  <2> QED BY <1>1, <2>14, <2>15, <2>16, <2>17, <2>18 DEF RxInOrder, h, d
<1> QED BY <1>3, <1>4

-----------------------------------------------------------------------------
\* What is ready ends before the end of the ring and is in it.
LEMMA RxReady ==
  ASSUME StreamsIInv
  PROVE  ReadReady \in Nat /\ ReadReady <= RxHeld
<1>1. rx_in \in 0 .. BufLen - 1 /\ rx_out \in 0 .. BufLen - 1
  BY RxNumbers
<1>2. RxHeld = IF rx_in >= rx_out THEN rx_in - rx_out ELSE rx_in - rx_out + BufLen
  BY <1>1, JtagSizes, WrapMinus DEF RxHeld
<1> QED BY <1>1, <1>2, JtagSizes DEF ReadReady

LEMMA RxLooked ==
  ASSUME StreamsIInv, ReadLook, UNCHANGED <<rfifo, hsent>>
  PROVE  RxInOrder' /\ CallInOrder' /\ UNCHANGED <<hsent, hgot>> /\ call' \notin {"copy", "put"}
<1>1. UNCHANGED <<rx_buf, rx_in, rx_out, hgot>> /\ call = "look"
  BY DEF ReadLook, receive
<1>2. count \in Nat /\ count >= 1
  BY <1>1, RxNumbers DEF StreamsIInv, CallInOrder
<1>3. CASE ReadReady = 0 /\ ~moved /\ nonblock
  <2>1. call' = "none" /\ count' = 0
    BY <1>3 DEF ReadLook, Return
  <2>2. RxRead' = RxRead
    BY <1>1, <2>1 DEF RxRead
  <2> QED BY <1>1, <2>1, <2>2, RxRests DEF CallInOrder
<1>4. CASE ~(ReadReady = 0 /\ ~moved /\ nonblock)
  <2>1. /\ chunk' = Min({ReadReady, count}) /\ count' = count
        /\ call' = IF ReadReady > 0 THEN "take" ELSE IF moved THEN "rearm" ELSE "spin"
    BY <1>4 DEF ReadLook
  <2>2. RxRead' = RxRead
    BY <1>1, <2>1 DEF RxRead
  <2>3. call' = "take" => chunk' >= 1 /\ chunk' <= RxHeld /\ chunk' <= count
    <3> SUFFICES ASSUME call' = "take" PROVE chunk' >= 1 /\ chunk' <= RxHeld /\ chunk' <= count
      OBVIOUS
    <3> DEFINE r == ReadReady
               h == RxHeld
    <3>1. r \in Nat /\ r <= h /\ h \in Nat
      BY RxReady, RxNumbers, JtagSizes
    <3>2. r > 0
      BY <2>1
    <3> HIDE DEF r, h
    <3>3. Min({r, count}) = IF r <= count THEN r ELSE count
      BY <1>2, <3>1, MinOfTwo
    <3>4. Min({r, count}) >= 1 /\ Min({r, count}) <= h /\ Min({r, count}) <= count
      BY <1>2, <3>1, <3>2, <3>3
    <3> QED BY <2>1, <3>4 DEF r, h
  <2>4. RxInOrder'
    <3>1. call' # "free"
      BY <2>1
    <3> QED BY <1>1, <2>2, <2>3, <3>1, RxRests
  <2> QED BY <1>1, <1>2, <2>1, <2>3, <2>4 DEF CallInOrder
<1> QED BY <1>3, <1>4

\* The program takes the next characters; their places are still theirs.
LEMMA RxTaken ==
  ASSUME StreamsIInv, ReadTake, UNCHANGED <<rfifo, hsent>>
  PROVE  RxInOrder' /\ CallInOrder' /\ hgot' \in Char /\ RxStream!Take /\ call' = "free"
<1> DEFINE f == Len(rfifo)
           q == RxHeld
<1>1. /\ UNCHANGED <<rx_buf, rx_in, rx_out, chunk>> /\ call = "take" /\ call' = "free"
      /\ hgot' = Expect(hgot, Chars(rx_buf, rx_out, chunk)) /\ count' = count - chunk
  BY DEF ReadTake
<1>2. /\ chunk \in Nat /\ chunk >= 1 /\ chunk <= q /\ q \in 0 .. BufLen - 1
      /\ f \in Nat /\ f <= Depth /\ q + f < M /\ hgot \in 0 .. M - 1
      /\ rx_out \in 0 .. BufLen - 1 /\ count \in Nat /\ chunk <= count
  <2>1. chunk \in Int /\ chunk >= 1 /\ chunk <= q
    BY <1>1, RxNumbers DEF StreamsIInv, RxInOrder
  <2>2. chunk <= count
    BY <1>1 DEF StreamsIInv, CallInOrder
  <2>3. /\ q \in 0 .. BufLen - 1 /\ f \in Nat /\ f <= Depth /\ q + f < M /\ hgot \in 0 .. M - 1
        /\ rx_out \in 0 .. BufLen - 1 /\ count \in Nat
    BY RxNumbers
  <2> HIDE DEF q, f
  <2> QED BY <2>1, <2>2, <2>3
<1>3. RxRead = 0 /\ RxRead' = chunk /\ RxHeld' = q
  BY <1>1 DEF RxRead, RxHeld
<1>4. /\ \A j \in 1 .. f : rfifo[j] = (hgot + (q - 0 + (j - 1))) % M
      /\ \A j \in 0 .. q - 1 : rx_buf[(rx_out + j) % BufLen] = (hgot + (j - 0)) % M
      /\ hsent = (hgot + (q - 0 + f)) % M
  BY <1>3 DEF StreamsIInv, RxInOrder
<1> HIDE DEF q
<1>5. hgot' = (hgot + chunk) % M
  <2> DEFINE c == Chars(rx_buf, rx_out, chunk)
  <2>1. /\ DOMAIN c = 1 .. chunk /\ Len(c) = chunk
        /\ \A j \in 1 .. chunk : c[j] = rx_buf[(rx_out + j - 1) % BufLen]
    BY <1>2 DEF Chars
  <2> HIDE DEF c
  <2>2. \A j \in 1 .. chunk : c[j] = (hgot + j - 1) % M
    <3> SUFFICES ASSUME NEW j \in 1 .. chunk PROVE c[j] = (hgot + j - 1) % M
      OBVIOUS
    <3>1. j - 1 \in 0 .. q - 1 /\ rx_out + j - 1 = rx_out + (j - 1)
          /\ hgot + ((j - 1) - 0) = hgot + j - 1
      BY <1>2
    <3>2. rx_buf[(rx_out + (j - 1)) % BufLen] = (hgot + ((j - 1) - 0)) % M
      BY <1>4, <3>1
    <3> QED BY <2>1, <3>1, <3>2
  <2>3. hgot' = Expect(hgot, c)
    BY <1>1 DEF c
  <2> QED BY <2>1, <2>2, <2>3 DEF Expect
<1>6. \A a \in Nat : chunk + a <= M => (hgot' + a) % M = (hgot + (chunk + a)) % M
  <2> SUFFICES ASSUME NEW a \in Nat, chunk + a <= M
               PROVE  (hgot' + a) % M = (hgot + (chunk + a)) % M
    OBVIOUS
  <2>0. chunk \in Nat /\ hgot \in 0 .. M - 1
    BY <1>2
  <2>1. (((hgot + chunk) % M) + a) % M = (hgot + (chunk + a)) % M
    BY <2>0, JtagSizes, WrapAdd
  <2> QED BY <1>5, <2>1
<1>7. \A j \in chunk .. q - 1 : rx_buf[(rx_out + j) % BufLen] = (hgot' + (j - chunk)) % M
  <2> SUFFICES ASSUME NEW j \in chunk .. q - 1
               PROVE  rx_buf[(rx_out + j) % BufLen] = (hgot' + (j - chunk)) % M
    OBVIOUS
  <2>1. j - chunk \in Nat /\ chunk + (j - chunk) = j - 0 /\ chunk + (j - chunk) <= M
        /\ j \in 0 .. q - 1
    BY <1>2, JtagSizes
  <2> QED BY <1>4, <1>6, <2>1
<1>8. \A j \in 1 .. f : rfifo[j] = (hgot' + (q - chunk + (j - 1))) % M
  <2> SUFFICES ASSUME NEW j \in 1 .. f
               PROVE  rfifo[j] = (hgot' + (q - chunk + (j - 1))) % M
    OBVIOUS
  <2> DEFINE a == q - chunk + (j - 1)
  <2> HIDE DEF f
  <2>1. a \in Nat /\ chunk + a = q - 0 + (j - 1) /\ chunk + a <= M
    BY <1>2, JtagSizes
  <2> HIDE DEF a
  <2>2. (hgot' + a) % M = (hgot + (chunk + a)) % M
    BY <1>6, <2>1
  <2> QED BY <1>4, <2>1, <2>2 DEF a
<1> HIDE DEF f
<1>9. hsent = (hgot' + (q - chunk + f)) % M
  <2> DEFINE a == q - chunk + f
  <2>1. a \in Nat /\ chunk + a = q - 0 + f /\ chunk + a <= M
    BY <1>2, JtagSizes
  <2> HIDE DEF a
  <2>2. (hgot' + a) % M = (hgot + (chunk + a)) % M
    BY <1>6, <2>1
  <2> QED BY <1>4, <2>1, <2>2 DEF a
<1>10. RxInOrder'
  BY <1>1, <1>2, <1>3, <1>7, <1>8, <1>9 DEF RxInOrder, f
<1>11. CallInOrder' /\ hgot' \in Char
  <2>1. hgot + chunk \in Int /\ count - chunk >= 0
    BY <1>2, JtagSizes
  <2>2. (hgot + chunk) % M \in Char
    BY <2>1, CharNumber
  <2> QED BY <1>1, <1>5, <2>1, <2>2 DEF CallInOrder
<1>12. RxStream!Take
  <2>1. q + f \in 0 .. M - 1 /\ q - 0 + f = q + f
    BY <1>2, JtagSizes
  <2>2. (hsent - hgot) % M = q + f
    BY <1>2, <1>4, <2>1, JtagSizes, WrapBack DEF f
  <2>3. chunk \in 1 .. (BufLen - 1 + Depth) /\ chunk <= q + f
    BY <1>2, JtagSizes
  <2> QED BY <1>5, <2>2, <2>3 DEF RxStream!Take, RxStream!UnderWay
<1> QED BY <1>1, <1>10, <1>11, <1>12

\* Moving rx_out gives back the places of what was taken.
LEMMA RxFreed ==
  ASSUME StreamsIInv, ReadFree, UNCHANGED <<rfifo, hsent>>
  PROVE  RxInOrder' /\ CallInOrder' /\ UNCHANGED <<hsent, hgot>> /\ call' \in {"look", "rearm"}
<1> DEFINE q == RxHeld
<1>1. /\ UNCHANGED <<rx_buf, rx_in, hgot, count>> /\ call = "free"
      /\ rx_out' = (rx_out + chunk) % BufLen
      /\ call' = IF count > 0 THEN "look" ELSE "rearm"
  BY DEF ReadFree
<1>2. /\ chunk \in Nat /\ chunk >= 1 /\ chunk <= q /\ q \in 0 .. BufLen - 1
      /\ rx_out \in 0 .. BufLen - 1 /\ rx_in = (rx_out + q) % BufLen
  <2>1. chunk \in Int /\ chunk >= 1 /\ chunk <= q
    BY <1>1, RxNumbers DEF StreamsIInv, RxInOrder
  <2>2. q \in 0 .. BufLen - 1 /\ rx_out \in 0 .. BufLen - 1 /\ rx_in = (rx_out + q) % BufLen
    BY RxNumbers
  <2> QED BY <2>1, <2>2
<1>3. RxRead = chunk /\ RxRead' = 0
  BY <1>1 DEF RxRead
<1>4. /\ \A j \in 1 .. Len(rfifo) : rfifo[j] = (hgot + (q - chunk + (j - 1))) % M
      /\ \A j \in chunk .. q - 1 : rx_buf[(rx_out + j) % BufLen] = (hgot + (j - chunk)) % M
      /\ hsent = (hgot + (q - chunk + Len(rfifo))) % M
      /\ Len(rfifo) <= Depth
  BY <1>3 DEF StreamsIInv, RxInOrder
<1> HIDE DEF q
<1>5. RxHeld' = q - chunk
  <2>1. chunk \in 0 .. BufLen - 1
    BY <1>2, JtagSizes
  <2>2. (((rx_out + q) % BufLen) - ((rx_out + chunk) % BufLen)) % BufLen = q - chunk
    BY <1>2, <2>1, JtagSizes, WrapApart
  <2> QED BY <1>1, <1>2, <2>2 DEF RxHeld
<1>6. \A j \in 0 .. q - chunk - 1 : rx_buf[(rx_out' + j) % BufLen] = (hgot + j) % M
  <2> SUFFICES ASSUME NEW j \in 0 .. q - chunk - 1
               PROVE  rx_buf[(rx_out' + j) % BufLen] = (hgot + j) % M
    OBVIOUS
  <2>1. /\ j \in Nat /\ chunk + j \in chunk .. q - 1 /\ (chunk + j) - chunk = j
        /\ chunk + j <= BufLen
    BY <1>2, JtagSizes
  <2>2. (((rx_out + chunk) % BufLen) + j) % BufLen = (rx_out + (chunk + j)) % BufLen
    BY <1>2, <2>1, JtagSizes, WrapAdd
  <2>3. rx_buf[(rx_out + (chunk + j)) % BufLen] = (hgot + ((chunk + j) - chunk)) % M
    BY <1>4, <2>1
  <2> QED BY <1>1, <2>1, <2>2, <2>3
<1>7. /\ RxHeld' - RxRead' = q - chunk
      /\ \A j \in Int : j - RxRead' = j
  BY <1>2, <1>3, <1>5
<1>8. \A j \in RxRead' .. RxHeld' - 1 :
        rx_buf'[(rx_out' + j) % BufLen] = (hgot' + (j - RxRead')) % M
  <2> SUFFICES ASSUME NEW j \in 0 .. q - chunk - 1
               PROVE  rx_buf[(rx_out' + j) % BufLen] = (hgot + (j - 0)) % M
    BY <1>1, <1>3, <1>5
  <2>1. j - 0 = j
    BY <1>2
  <2> QED BY <1>6, <2>1
<1>9. RxInOrder'
  BY <1>1, <1>4, <1>7, <1>8 DEF RxInOrder
<1>10. CallInOrder'
  <2>1. count \in Nat
    BY RxNumbers
  <2> QED BY <1>1, <2>1 DEF CallInOrder
<1> QED BY <1>1, <1>9, <1>10

-----------------------------------------------------------------------------
\* A step that leaves both ways alone.
LEMMA BothRest ==
  ASSUME StreamsIInv, UNCHANGED <<transmit, receive, wfifo, rfifo, got, hsent, control>>,
         \/ UNCHANGED <<call, chunk>>
         \/ call # "free" /\ call' \notin {"copy", "put", "take", "free"}
  PROVE  TxInOrder' /\ RxInOrder' /\ UNCHANGED <<sent, got, hsent, hgot>>
<1>1. /\ UNCHANGED <<tx_buf, tx_in, tx_out, sent, wfifo, got, control>>
      /\ UNCHANGED <<rx_buf, rx_in, rx_out, hsent, hgot, rfifo>>
  BY DEF transmit, receive
<1>2. control'.space >= 0 /\ Len(wfifo) + control'.space <= Depth
  BY <1>1 DEF StreamsIInv, TxInOrder
<1>3. RxRead' = RxRead
  BY DEF RxRead
<1>4. call' \in {"take", "free"} => chunk' >= 1 /\ chunk' <= RxHeld
  BY DEF StreamsIInv, RxInOrder
<1>5. call' \in {"copy", "put"} => call' = call /\ chunk' = chunk
  OBVIOUS
<1> QED BY <1>1, <1>2, <1>3, <1>4, <1>5, TxRests, RxRests

\* The program does not disturb the way it does not use.
LEMMA RxAside ==
  ASSUME StreamsIInv, UNCHANGED <<receive, rfifo, hsent>>,
         call # "free", call' \notin {"take", "free"}
  PROVE  RxInOrder' /\ UNCHANGED <<hsent, hgot>>
<1>1. UNCHANGED <<rx_buf, rx_in, rx_out, hsent, hgot, rfifo>> /\ RxRead' = RxRead
  BY DEF receive, RxRead
<1> QED BY <1>1, RxRests

LEMMA TxAside ==
  ASSUME StreamsIInv, UNCHANGED <<transmit, wfifo, got, control>>, call' \notin {"copy", "put"}
  PROVE  TxInOrder' /\ UNCHANGED <<sent, got>>
<1>1. UNCHANGED <<tx_buf, tx_in, tx_out, sent, wfifo, got, control>>
  BY DEF transmit
<1>2. control'.space >= 0 /\ Len(wfifo) + control'.space <= Depth
  BY <1>1 DEF StreamsIInv, TxInOrder
<1> QED BY <1>1, <1>2, TxRests

\* What a step owes to both streams.
InStreams ==
  /\ TxInOrder' /\ RxInOrder' /\ CallInOrder' /\ got' \in Char /\ hgot' \in Char
  /\ [TxStream!Put \/ TxStream!Take]_<<sent, got>>
  /\ [RxStream!Put \/ RxStream!Take]_<<hsent, hgot>>

LEMMA DriverStreams ==
  ASSUME StreamsIInv, Driver
  PROVE  InStreams
<1>1. UNCHANGED <<wfifo, rfifo, control, got, hsent>> /\ got \in Char /\ hgot \in Char
  BY DEF Driver, Program, device, StreamsIInv
<1>2. count \in Nat
  BY TxNumbers
<1>3. CASE WriteSpace
  <2>1. /\ TxInOrder' /\ UNCHANGED <<sent, got>> /\ call' \in {"kick", "copy"}
        /\ count' \in Nat /\ (call' = "copy" => chunk' <= count')
    BY <1>1, <1>3, TxSpace
  <2>2. RxInOrder' /\ UNCHANGED <<hsent, hgot>>
    <3>1. call = "space" /\ UNCHANGED receive
      BY <1>3 DEF WriteSpace
    <3> QED BY <1>1, <2>1, <3>1, RxAside
  <2>3. CallInOrder'
    BY <2>1 DEF CallInOrder
  <2> QED BY <1>1, <2>1, <2>2, <2>3 DEF InStreams
<1>4. CASE WriteCopy
  <2>1. TxInOrder' /\ count' \in Nat /\ call' = "put" /\ UNCHANGED <<sent, got>>
    BY <1>1, <1>4, TxCopied
  <2>2. RxInOrder' /\ UNCHANGED <<hsent, hgot>>
    <3>1. call = "copy" /\ UNCHANGED receive
      BY <1>4 DEF WriteCopy
    <3> QED BY <1>1, <2>1, <3>1, RxAside
  <2>3. CallInOrder'
    BY <2>1 DEF CallInOrder
  <2> QED BY <1>1, <2>1, <2>2, <2>3 DEF InStreams
<1>5. CASE WritePut
  <2>1. TxInOrder' /\ call' = "space" /\ count' = count /\ TxStream!Put
    BY <1>1, <1>5, TxPut
  <2>2. RxInOrder' /\ UNCHANGED <<hsent, hgot>>
    <3>1. call = "put" /\ UNCHANGED receive
      BY <1>5 DEF WritePut
    <3> QED BY <1>1, <2>1, <3>1, RxAside
  <2>3. CallInOrder'
    BY <1>2, <2>1 DEF CallInOrder
  <2> QED BY <1>1, <2>1, <2>2, <2>3 DEF InStreams
<1>6. CASE WriteKick \/ WriteWait \/ WriteCheck \/ CloseWait
  <2>1. /\ UNCHANGED <<transmit, receive>> /\ call # "free"
        /\ \/ call' = "none" /\ count' = 0
           \/ call' \in {"wait", "check", "space"} /\ count' = count
    BY <1>6 DEF WriteKick, WriteWait, WriteCheck, CloseWait, Return, Goto, local
  <2>2. CallInOrder'
    BY <1>2, <2>1 DEF CallInOrder
  <2>3. TxInOrder' /\ RxInOrder' /\ UNCHANGED <<sent, got, hsent, hgot>>
    BY <1>1, <2>1, BothRest
  <2> QED BY <1>1, <2>2, <2>3 DEF InStreams
<1>7. CASE ReadLook
  <2>1. RxInOrder' /\ CallInOrder' /\ UNCHANGED <<hsent, hgot>> /\ call' \notin {"copy", "put"}
    BY <1>1, <1>7, RxLooked
  <2>2. TxInOrder' /\ UNCHANGED <<sent, got>>
    <3>1. UNCHANGED transmit
      BY <1>7 DEF ReadLook
    <3> QED BY <1>1, <2>1, <3>1, TxAside
  <2> QED BY <1>1, <2>1, <2>2 DEF InStreams
<1>8. CASE ReadTake
  <2>1. RxInOrder' /\ CallInOrder' /\ hgot' \in Char /\ RxStream!Take /\ call' = "free"
    BY <1>1, <1>8, RxTaken
  <2>2. TxInOrder' /\ UNCHANGED <<sent, got>>
    <3>1. UNCHANGED transmit
      BY <1>8 DEF ReadTake
    <3> QED BY <1>1, <2>1, <3>1, TxAside
  <2> QED BY <1>1, <2>1, <2>2 DEF InStreams
<1>9. CASE ReadFree
  <2>1. RxInOrder' /\ CallInOrder' /\ UNCHANGED <<hsent, hgot>> /\ call' \in {"look", "rearm"}
    BY <1>1, <1>9, RxFreed
  <2>2. TxInOrder' /\ UNCHANGED <<sent, got>>
    <3>1. UNCHANGED transmit
      BY <1>9 DEF ReadFree
    <3> QED BY <1>1, <2>1, <3>1, TxAside
  <2> QED BY <1>1, <2>1, <2>2 DEF InStreams
<1>10. CASE ReadSpin \/ ReadSpun \/ ReadRearm
  <2>1. /\ UNCHANGED <<transmit, receive>> /\ call # "free"
        /\ \/ call' = "none" /\ count' = 0
           \/ call \in {"spin", "spun"} /\ call' \in {"spun", "look"} /\ count' = count
    BY <1>10 DEF ReadSpin, ReadSpun, ReadRearm, Return, Goto, local
  <2>2. CallInOrder'
    BY <1>2, <2>1 DEF CallInOrder, StreamsIInv
  <2>3. TxInOrder' /\ RxInOrder' /\ UNCHANGED <<sent, got, hsent, hgot>>
    BY <1>1, <2>1, BothRest
  <2> QED BY <1>1, <2>2, <2>3 DEF InStreams
<1> QED
  BY <1>3, <1>4, <1>5, <1>6, <1>7, <1>8, <1>9, <1>10 DEF Driver, Program, Write, Read

LEMMA HandlerStreams ==
  ASSUME StreamsIInv, Handler
  PROVE  InStreams
<1>1. UNCHANGED <<call, count, chunk, hsent>> /\ got \in Char /\ hgot \in Char
  BY DEF Handler, local, StreamsIInv
<1>2. CallInOrder'
  BY <1>1 DEF CallInOrder, StreamsIInv
<1>3. RxRead' = RxRead
  BY <1>1 DEF RxRead
<1>4. call' \in {"take", "free"} => chunk' >= 1 /\ chunk' <= RxHeld
  BY <1>1 DEF StreamsIInv, RxInOrder
<1>5. CASE IsrControl
  <2>1. TxInOrder' /\ UNCHANGED <<sent, got>>
    BY <1>1, <1>5, TxLooked
  <2>2. UNCHANGED <<rx_buf, rx_in, rx_out, hgot, rfifo>>
    BY <1>5 DEF IsrControl, receive, device
  <2>3. RxInOrder'
    BY <1>1, <1>3, <1>4, <2>2, RxRests
  <2> QED BY <1>1, <1>2, <2>1, <2>2, <2>3 DEF InStreams
<1>6. CASE IsrReceive
  <2>1. RxInOrder' /\ UNCHANGED <<hsent, hgot>>
    BY <1>1, <1>6, RxMoved
  <2>2. UNCHANGED <<tx_buf, tx_in, tx_out, sent, wfifo, got, control>>
    BY <1>6 DEF IsrReceive, transmit
  <2>3. control'.space >= 0 /\ Len(wfifo) + control'.space <= Depth
    BY <2>2 DEF StreamsIInv, TxInOrder
  <2>4. TxInOrder'
    BY <1>1, <2>2, <2>3, TxRests
  <2> QED BY <1>1, <1>2, <2>1, <2>2, <2>4 DEF InStreams
<1>7. CASE IsrTransmit
  <2>1. TxInOrder' /\ UNCHANGED <<sent, got>>
    BY <1>1, <1>7, TxMoved
  <2>2. UNCHANGED <<rx_buf, rx_in, rx_out, hgot, rfifo>>
    BY <1>7 DEF IsrTransmit, receive
  <2>3. RxInOrder'
    BY <1>1, <1>3, <1>4, <2>2, RxRests
  <2> QED BY <1>1, <1>2, <2>1, <2>2, <2>3 DEF InStreams
<1> QED BY <1>5, <1>6, <1>7 DEF Handler

LEMMA OtherStreams ==
  ASSUME StreamsIInv, Program(Call) \/ Second \/ HostPoll \/ UNCHANGED jtagVars
  PROVE  InStreams
<1>1. got \in Char /\ hgot \in Char /\ count \in Nat
  BY TxNumbers DEF StreamsIInv
<1>2. CASE Program(Call)
  <2>1. /\ UNCHANGED <<transmit, receive, wfifo, rfifo, control, got, hsent>> /\ call = "none"
        /\ call' \in {"space", "look", "drain"} /\ count' \in Nat
        /\ call' = "look" => count' >= 1
    BY <1>2, JtagAssumption DEF JtagAssumption, Program, Call, Called, device
  <2>2. CallInOrder'
    BY <2>1 DEF CallInOrder
  <2>3. TxInOrder' /\ RxInOrder' /\ UNCHANGED <<sent, got, hsent, hgot>>
    BY <2>1, BothRest
  <2> QED BY <1>1, <2>2, <2>3 DEF InStreams
<1>3. CASE Second \/ UNCHANGED jtagVars
  <2>1. UNCHANGED <<transmit, receive, wfifo, rfifo, control, got, hsent, call, count, chunk>>
    BY <1>3 DEF Second, jtagVars, device, local
  <2>2. CallInOrder'
    BY <2>1 DEF CallInOrder, StreamsIInv
  <2>3. TxInOrder' /\ RxInOrder' /\ UNCHANGED <<sent, got, hsent, hgot>>
    BY <2>1, BothRest
  <2> QED BY <1>1, <2>2, <2>3 DEF InStreams
<1>4. CASE HostPoll
  <2>1. UNCHANGED <<call, count, chunk, hgot>>
    BY <1>4 DEF HostPoll, receive, local
  <2>2. CallInOrder'
    BY <2>1 DEF CallInOrder, StreamsIInv
  <2> QED BY <1>1, <1>4, <2>1, <2>2, TxTaken, RxTyped DEF InStreams
<1> QED BY <1>2, <1>3, <1>4

LEMMA StreamsInitInv ==
  ASSUME JtagInit
  PROVE  StreamsIInv /\ TxStream!Init /\ RxStream!Init
<1>1. ArmedIInv
  BY JtagInitInv
<1>2. got \in Char /\ hgot \in Char /\ sent = 0 /\ got = 0 /\ hsent = 0 /\ hgot = 0
  BY JtagSizes DEF JtagInit, Char
<1>3. /\ TxHeld = 0 /\ RxHeld = 0 /\ RxRead = 0
  <2>1. (0 - 0) % BufLen = 0
    BY JtagSizes
  <2> QED BY <2>1 DEF JtagInit, TxHeld, RxHeld, RxRead
<1>4. 0 % M = 0
  BY JtagSizes
<1>5. /\ wfifo = <<>> /\ rfifo = <<>> /\ control.space = 0 /\ call = "none" /\ count = 0
  BY DEF JtagInit, NoControl
<1>6. TxInOrder
  BY <1>2, <1>3, <1>4, <1>5, JtagSizes DEF TxInOrder
<1>7. RxInOrder
  BY <1>2, <1>3, <1>4, <1>5, JtagSizes DEF RxInOrder
<1> QED BY <1>1, <1>2, <1>5, <1>6, <1>7 DEF StreamsIInv, CallInOrder, TxStream!Init, RxStream!Init

\* StreamsIInv is inductive, and every step is one of both streams.
LEMMA StreamsStep ==
  ASSUME StreamsIInv, [JtagNext]_jtagVars
  PROVE  /\ StreamsIInv'
         /\ [TxStream!Put \/ TxStream!Take]_<<sent, got>>
         /\ [RxStream!Put \/ RxStream!Take]_<<hsent, hgot>>
<1>1. InStreams
  BY DriverStreams, HandlerStreams, OtherStreams DEF JtagNext
<1>2. ArmedIInv'
  <2>1. ArmedIInv /\ UNCHANGED jtagVars => ArmedIInv'
    BY DEF jtagVars, transmit, receive, device, local, ArmedIInv, ReadRoom
  <2>2. Driver => Program(Write \/ CloseWait) \/ Program(Read)
    BY DEF Driver, Program
  <2> QED BY <2>1, <2>2, CallStep, WriteStep, ReadStep, HandlerStep, OutsideStep
          DEF JtagNext, StreamsIInv
<1> QED BY <1>1, <1>2 DEF InStreams, StreamsIInv

(***************************************************************************)
(* What the program writes reaches the host, and what the host sends       *)
(* reaches the program, each character once and in order: for every length *)
(* of rings and FIFOs, both directions of the JTAG UART implement the      *)
(* stream of module Stream, whatever the interleaving of the program, the  *)
(* handler and the host.                                                   *)
(***************************************************************************)
THEOREM StreamsKeepOrder == JtagSpec => JtagStreams
BY StreamsStep, StreamsInitInv, PTL DEF JtagSpec, JtagStreams, TxStream!Spec, RxStream!Spec

-----------------------------------------------------------------------------
\* The types, with StreamsIInv for what bounds them.
Calls == {"none", "space", "copy", "put", "kick", "wait", "check", "drain",
          "look", "take", "free", "spin", "spun", "rearm"}

CallTypes ==
  /\ call \in Calls
  /\ count \in 0..MaxCount /\ chunk \in 0..MaxCount /\ seen \in Index
  /\ moved \in BOOLEAN /\ nonblock \in BOOLEAN

DeviceTypes == ac \in BOOLEAN /\ pause_irq \in BOOLEAN /\ host_inactive \in 0..Timeout

HandlerTypes ==
  /\ isr \in {"off", "control", "rx", "tx"}
  /\ control \in [ri : BOOLEAN, wi : BOOLEAN, space : 0..Depth]
  /\ rx_buf \in [Index -> Char]

JtagTypes == CallTypes /\ DeviceTypes /\ HandlerTypes

\* What StreamsIInv gives the steps of the program.
LEMMA CallNumbers ==
  ASSUME StreamsIInv
  PROVE  /\ {tx_in, tx_out, rx_in, rx_out} \subseteq Index
         /\ BufLen \in Nat /\ BufLen >= 2 /\ MaxCount \in Nat /\ MaxCount >= 1
         /\ call \in {"copy", "take"} => chunk <= count
         /\ 0 \in Index
BY JtagAssumption DEF JtagAssumption, StreamsIInv, ArmedIInv, CallInOrder, Index

\* A call that goes on, or comes back, keeps the types of its locals.
LEMMA GoneOn ==
  ASSUME CallTypes, NEW c \in Calls, Goto(c)
  PROVE  CallTypes'
BY DEF CallTypes, Goto, local

LEMMA Returned ==
  ASSUME StreamsIInv, Return
  PROVE  CallTypes'
<1>1. 0 \in 0..MaxCount /\ 0 \in Index
  BY CallNumbers
<1>2. moved' \in BOOLEAN /\ nonblock' \in BOOLEAN
  BY Zenon DEF Return
<1> QED BY <1>1, <1>2 DEF CallTypes, Return, Calls

LEMMA ProgramTypes ==
  ASSUME StreamsIInv, CallTypes, Program(Call) \/ Driver
  PROVE  CallTypes'
<1>1. /\ {tx_in, tx_out, rx_in, rx_out} \subseteq Index
      /\ BufLen \in Nat /\ MaxCount \in Nat
      /\ call \in {"copy", "take"} => chunk <= count
      /\ call \in Calls /\ count \in 0..MaxCount /\ chunk \in 0..MaxCount /\ seen \in Index
      /\ moved \in BOOLEAN /\ nonblock \in BOOLEAN
  BY CallNumbers DEF CallTypes
<1>2. /\ {"none", "space", "copy", "put", "kick", "wait", "check", "drain"} \subseteq Calls
      /\ {"look", "take", "free", "spin", "spun", "rearm"} \subseteq Calls
  BY DEF Calls
\* A look at the ring: as many characters as are asked for, and there are.
<1>3. ASSUME NEW room \in Nat, chunk' = Min({room, count}) PROVE chunk' \in 0..MaxCount
  <2>1. Min({room, count}) = IF room <= count THEN room ELSE count
    BY <1>1, MinOfTwo
  <2> QED BY <1>1, <1>3, <2>1
<1>4. CASE Call
  BY <1>1, <1>2, <1>4 DEF Call, Called, CallTypes
<1>5. CASE WriteSpace
  <2>1. CASE count = 0
    BY <1>2, <1>5, <2>1, GoneOn DEF WriteSpace
  <2>2. CASE count # 0
    <3>1. /\ seen' = tx_out /\ chunk' = Min({WriteRoom, count})
          /\ call' = IF WriteRoom = 0 THEN "kick" ELSE "copy"
          /\ UNCHANGED <<count, moved, nonblock>>
      BY <1>5, <2>2 DEF WriteSpace
    <3>2. WriteRoom \in Nat
      BY <1>1 DEF WriteRoom, Index
    <3>3. chunk' \in 0..MaxCount
      BY <1>3, <3>1, <3>2
    <3>4. call' \in Calls
      BY <1>2, <3>1
    <3> QED BY <1>1, <3>1, <3>3, <3>4 DEF CallTypes
  <2> QED BY <2>1, <2>2
<1>6. CASE WriteCopy
  BY <1>1, <1>2, <1>6 DEF WriteCopy, CallTypes
<1>7. CASE WritePut
  BY <1>1, <1>2, <1>7 DEF WritePut, CallTypes
<1>8. CASE WriteKick \/ WriteWait \/ WriteCheck \/ CloseWait
  BY <1>2, <1>8, GoneOn, Returned DEF WriteKick, WriteWait, WriteCheck, CloseWait
<1>9. CASE ReadLook
  <2>1. CASE ReadReady = 0 /\ ~moved /\ nonblock
    BY <1>9, <2>1, Returned DEF ReadLook
  <2>2. CASE ~(ReadReady = 0 /\ ~moved /\ nonblock)
    <3>1. /\ seen' = rx_in /\ chunk' = Min({ReadReady, count})
          /\ call' = (IF ReadReady > 0 THEN "take" ELSE IF moved THEN "rearm" ELSE "spin")
          /\ UNCHANGED <<count, moved, nonblock>>
      BY <1>9, <2>2, Zenon DEF ReadLook
    <3>2. ReadReady \in Nat
      BY <1>1 DEF ReadReady, Index
    <3>3. chunk' \in 0..MaxCount
      BY <1>3, <3>1, <3>2
    <3>4. call' \in Calls
      BY <1>2, <3>1
    <3> QED BY <1>1, <3>1, <3>3, <3>4 DEF CallTypes
  <2> QED BY <2>1, <2>2
<1>10. CASE ReadTake
  BY <1>1, <1>2, <1>10 DEF ReadTake, CallTypes
<1>11. CASE ReadFree
  BY <1>1, <1>2, <1>11 DEF ReadFree, CallTypes
<1>12. CASE ReadSpin \/ ReadSpun \/ ReadRearm
  BY <1>2, <1>12, GoneOn, Returned DEF ReadSpin, ReadSpun, ReadRearm
<1> QED BY <1>4, <1>5, <1>6, <1>7, <1>8, <1>9, <1>10, <1>11, <1>12
       DEF Driver, Program, Write, Read

LEMMA HandlerKeepsTypes ==
  ASSUME StreamsIInv, HandlerTypes, pause_irq \in BOOLEAN, Handler
  PROVE  HandlerTypes' /\ pause_irq' \in BOOLEAN
<1>1. /\ rx_in \in Index /\ rx_out \in Index /\ rfifo \in Seq(Char)
      /\ BufLen \in Nat /\ BufLen >= 2
  BY CallNumbers DEF StreamsIInv, ArmedIInv
<1>2. NoControl \in [ri : BOOLEAN, wi : BOOLEAN, space : 0..Depth]
  BY JtagSizes DEF NoControl
<1>3. CASE IsrControl
  <2>1. UNCHANGED <<rx_buf, pause_irq>> /\ isr' \in {"rx", "off"}
    BY <1>3 DEF IsrControl, receive, device
  <2>2. Depth - Len(wfifo) \in 0..Depth
    BY TxNumbers, JtagSizes
  <2>3. RI \in BOOLEAN /\ WI \in BOOLEAN
    BY DEF RI, WI
  <2>4. control' \in {NoControl, [ri |-> RI, wi |-> WI, space |-> Depth - Len(wfifo)]}
    BY <1>3, Zenon DEF IsrControl
  <2>5. control' \in [ri : BOOLEAN, wi : BOOLEAN, space : 0..Depth]
    BY <1>2, <2>2, <2>3, <2>4
  <2> QED BY <2>1, <2>5 DEF HandlerTypes
<1>4. CASE IsrReceive
  <2>1. isr' = "tx" /\ UNCHANGED control
    BY <1>4 DEF IsrReceive
  <2>2. CASE ~control.ri
    BY <1>4, <2>1, <2>2 DEF IsrReceive, HandlerTypes
  <2>3. CASE control.ri
    <3> DEFINE k == Min({ReadRoom, Len(rfifo)})
    <3>1. /\ rx_buf' = [i \in Index |-> IF ((i - rx_in) % BufLen) + 1 <= k
                                          THEN rfifo[((i - rx_in) % BufLen) + 1] ELSE rx_buf[i]]
          /\ pause_irq' = (pause_irq /\ ReadRoom = 0)
      BY <1>4, <2>3, Zenon DEF IsrReceive
    <3>2. k \in Int /\ k <= Len(rfifo)
      <4>1. ReadRoom \in Int /\ Len(rfifo) \in Int
        BY <1>1 DEF ReadRoom, Index
      <4>2. k = IF ReadRoom <= Len(rfifo) THEN ReadRoom ELSE Len(rfifo)
        BY <4>1, MinOfTwo
      <4> HIDE DEF k
      <4> QED BY <4>1, <4>2
    <3> HIDE DEF k
    <3>3. rx_buf' \in [Index -> Char]
      <4>1. \A i \in Index : ((i - rx_in) % BufLen) + 1 >= 1 /\ (i - rx_in) % BufLen \in Int
        <5> TAKE i \in Index
        <5>1. i - rx_in \in Int
          BY <1>1 DEF Index
        <5> QED BY <1>1, <5>1
      <4>2. \A j \in 1 .. Len(rfifo) : rfifo[j] \in Char
        BY <1>1
      <4>3. \A i \in Index : ((i - rx_in) % BufLen) + 1 <= k
                               => rfifo[((i - rx_in) % BufLen) + 1] \in Char
        <5> TAKE i \in Index
        <5> DEFINE j == ((i - rx_in) % BufLen) + 1
        <5>1. j \in Int /\ j >= 1
          BY <4>1
        <5> HIDE DEF j
        <5>2. j <= k => rfifo[j] \in Char
          BY <1>1, <3>2, <4>2, <5>1
        <5> QED BY <5>2 DEF j
      <4>4. rx_buf \in [Index -> Char]
        BY DEF HandlerTypes
      <4> QED BY <3>1, <4>3, <4>4
    <3>4. pause_irq' \in BOOLEAN
      BY <3>1
    <3> QED BY <2>1, <3>3, <3>4 DEF HandlerTypes
  <2> QED BY <2>2, <2>3
<1>5. CASE IsrTransmit
  <2>1. isr' = "control" /\ control' = NoControl /\ UNCHANGED <<rx_buf, pause_irq>>
    BY <1>5 DEF IsrTransmit, receive
  <2> QED BY <1>2, <2>1 DEF HandlerTypes
<1> QED BY <1>3, <1>4, <1>5 DEF Handler

\* Every step keeps the types.
LEMMA JtagTypesStep ==
  ASSUME StreamsIInv, JtagTypes, [JtagNext]_jtagVars
  PROVE  JtagTypes'
<1>1. CallTypes /\ DeviceTypes /\ HandlerTypes
  BY DEF JtagTypes
<1>2. CASE UNCHANGED jtagVars
  BY <1>1, <1>2 DEF jtagVars, receive, device, local, JtagTypes, CallTypes, DeviceTypes,
                    HandlerTypes
<1>3. CASE Program(Call) \/ Driver
  <2>1. UNCHANGED <<device, host_inactive, isr, control>>
    BY <1>3 DEF Driver, Program
  <2>2. rx_buf' = rx_buf
    BY <1>3 DEF Driver, Program, Call, Write, Read, WriteSpace, WriteCopy, WritePut, WriteKick,
                WriteWait, WriteCheck, CloseWait, ReadLook, ReadTake, ReadFree, ReadSpin,
                ReadSpun, ReadRearm, receive
  <2>3. DeviceTypes' /\ HandlerTypes'
    BY <1>1, <2>1, <2>2 DEF device, DeviceTypes, HandlerTypes
  <2> QED BY <1>1, <1>3, <2>3, ProgramTypes DEF JtagTypes
<1>4. CASE Handler
  <2>1. UNCHANGED <<host_inactive, call, local, ac>>
    BY <1>4 DEF Handler, IsrControl, IsrReceive, IsrTransmit, device
  <2>2. HandlerTypes' /\ pause_irq' \in BOOLEAN
    BY <1>1, <1>4, HandlerKeepsTypes DEF DeviceTypes
  <2>3. CallTypes' /\ DeviceTypes'
    BY <1>1, <2>1, <2>2 DEF local, CallTypes, DeviceTypes
  <2> QED BY <2>2, <2>3 DEF JtagTypes
<1>5. CASE Second
  <2>1. /\ ac' = FALSE /\ UNCHANGED <<rx_buf, pause_irq, isr, control, call, local>>
        /\ host_inactive' = IF ac THEN 0 ELSE Min({host_inactive + 1, Timeout})
    BY <1>5 DEF Second, receive
  <2>2. host_inactive \in 0..Timeout /\ Timeout \in Nat
    BY <1>1, JtagAssumption DEF JtagAssumption, DeviceTypes
  <2>3. Min({host_inactive + 1, Timeout})
          = IF host_inactive + 1 <= Timeout THEN host_inactive + 1 ELSE Timeout
    BY <2>2, MinOfTwo
  <2>4. host_inactive' \in 0..Timeout
    BY <2>1, <2>2, <2>3
  <2> QED BY <1>1, <2>1, <2>4 DEF local, JtagTypes, CallTypes, DeviceTypes, HandlerTypes
<1>6. CASE HostPoll
  <2>1. /\ ac' = TRUE /\ UNCHANGED <<rx_buf, host_inactive, isr, control, call, local>>
        /\ pause_irq' \in {pause_irq, pause_irq \/ rfifo # <<>>}
    BY <1>6 DEF HostPoll, receive
  <2>2. pause_irq' \in BOOLEAN
    BY <1>1, <2>1 DEF DeviceTypes
  <2> QED BY <1>1, <2>1, <2>2 DEF local, JtagTypes, CallTypes, DeviceTypes, HandlerTypes
<1> QED BY <1>2, <1>3, <1>4, <1>5, <1>6 DEF JtagNext

LEMMA JtagTypesInit == JtagInit => JtagTypes
<1> SUFFICES ASSUME JtagInit PROVE JtagTypes
  OBVIOUS
<1>1. /\ 0 \in Index /\ 0 \in Char /\ 0 \in 0..MaxCount /\ 0 \in 0..Timeout /\ 0 \in 0..Depth
  BY JtagAssumption DEF JtagAssumption, Index, Char
<1> QED BY <1>1 DEF JtagInit, NoControl, JtagTypes, CallTypes, DeviceTypes, HandlerTypes, Calls

\* What is kept implies the types of module JtagUart.
LEMMA JtagTypesFollow == StreamsIInv /\ JtagTypes => JtagTypeOK
<1> SUFFICES ASSUME StreamsIInv, JtagTypes PROVE JtagTypeOK
  OBVIOUS
<1>1. /\ {tx_in, tx_out, rx_in, rx_out} \subseteq Index /\ tx_buf \in [Index -> Char]
      /\ sent \in Char /\ hsent \in Char /\ got \in Char /\ hgot \in Char
      /\ re \in BOOLEAN /\ we \in BOOLEAN
      /\ Len(rfifo) <= Depth
  BY DEF StreamsIInv, ArmedIInv, RxInOrder
<1>2. Len(wfifo) <= Depth
  BY TxNumbers
<1> QED BY <1>1, <1>2 DEF JtagTypeOK, JtagTypes, CallTypes, DeviceTypes, HandlerTypes, Calls

\* StreamsIInv and the types are inductive together.
LEMMA JtagStep ==
  ASSUME StreamsIInv, JtagTypes, [JtagNext]_jtagVars
  PROVE  StreamsIInv' /\ JtagTypes'
BY StreamsStep, JtagTypesStep
-----------------------------------------------------------------------------
\* What is left of a call.  A ring with no room is full, one with nothing ready
\* empty.
TxFull  == TxHeld = BufLen - 1
RxEmpty == RxHeld = 0

LEMMA RoomOrFull ==
  ASSUME StreamsIInv
  PROVE  WriteRoom = 0 <=> TxFull
<1>1. tx_in \in 0 .. BufLen - 1 /\ tx_out \in 0 .. BufLen - 1
  BY TxNumbers
<1>2. TxHeld = IF tx_in >= tx_out THEN tx_in - tx_out ELSE tx_in - tx_out + BufLen
  BY <1>1, JtagSizes, WrapMinus DEF TxHeld
<1> QED BY <1>1, <1>2, JtagSizes DEF WriteRoom, TxFull

LEMMA ReadyOrEmpty ==
  ASSUME StreamsIInv
  PROVE  /\ ReadReady = 0 <=> RxEmpty
         /\ RxEmpty <=> rx_in = rx_out
         /\ ReadReady \in Nat
<1>1. rx_in \in 0 .. BufLen - 1 /\ rx_out \in 0 .. BufLen - 1
  BY RxNumbers
<1>2. RxHeld = IF rx_in >= rx_out THEN rx_in - rx_out ELSE rx_in - rx_out + BufLen
  BY <1>1, JtagSizes, WrapMinus DEF RxHeld
<1> QED BY <1>1, <1>2, JtagSizes DEF ReadReady, RxEmpty

\* What a wait rests on: the ring was full, or empty, when it began.
CallWaits ==
  /\ \/ call \in {"wait", "check"}
     \/ call = "kick" /\ count > 0
     => (tx_in - seen) % BufLen = BufLen - 1
  /\ call \in {"spin", "spun"} => seen = rx_out

\* So it has not ended in vain.
LEMMA WaitFinds ==
  ASSUME StreamsIInv, CallTypes, CallWaits
  PROVE  /\ call = "check" /\ tx_out # seen => ~TxFull
         /\ call = "spun" /\ rx_in # seen => ~RxEmpty
<1>1. /\ tx_in \in 0 .. BufLen - 1 /\ tx_out \in 0 .. BufLen - 1 /\ seen \in 0 .. BufLen - 1
  BY TxNumbers DEF CallTypes, Index
<1>2. /\ (tx_in - seen) % BufLen = IF tx_in >= seen THEN tx_in - seen ELSE tx_in - seen + BufLen
      /\ TxHeld = IF tx_in >= tx_out THEN tx_in - tx_out ELSE tx_in - tx_out + BufLen
  BY <1>1, JtagSizes, WrapMinus DEF TxHeld
<1>3. call = "check" => (tx_in - seen) % BufLen = BufLen - 1
  BY DEF CallWaits
<1>4. call = "check" /\ TxFull => tx_out = seen
  BY <1>1, <1>2, <1>3, JtagSizes DEF TxFull
<1>5. call = "spun" => seen = rx_out
  BY DEF CallWaits
<1> QED BY <1>4, <1>5, ReadyOrEmpty

\* CallStepsLeft, place by place.
CallDue ==
  /\ count \in Nat
  /\ call \in {"none", "rearm", "drain", "wait", "check", "copy", "put", "space", "kick", "spin",
               "spun", "take", "free", "look"}
  /\ call = "none"  => CallStepsLeft = 0
  /\ call = "rearm" => CallStepsLeft = 1
  /\ call = "drain" => CallStepsLeft = 1
  /\ call = "wait"  => CallStepsLeft = 7 * count + 4
  /\ call = "check" => CallStepsLeft = 7 * count + 3
  /\ call = "copy"  => CallStepsLeft = 7 * count + 1
  /\ call = "put"   => CallStepsLeft = 7 * count + 7
  /\ call = "space" => CallStepsLeft = 7 * count + IF count > 0 /\ TxFull THEN 6 ELSE 2
  /\ call = "kick"  => CallStepsLeft = IF count = 0 THEN 1 ELSE 7 * count + 5
  /\ call = "spin"  => CallStepsLeft = 3 * count + 3
  /\ call = "spun"  => CallStepsLeft = 3 * count + 2
  /\ call = "take"  => CallStepsLeft = 3 * count
  /\ call = "free"  => CallStepsLeft = 3 * count + 2
  /\ call = "look"  => CallStepsLeft = 3 * count + IF RxEmpty /\ ~moved THEN 4 ELSE 1

LEMMA CallDueHolds == StreamsIInv /\ CallTypes => CallDue
<1> SUFFICES ASSUME StreamsIInv, CallTypes PROVE CallDue
  OBVIOUS
<1>1. count \in Nat /\ call \in Calls
  BY TxNumbers DEF CallTypes
<1>2. (WriteRoom = 0 <=> TxFull) /\ (ReadReady = 0 <=> RxEmpty)
  BY RoomOrFull, ReadyOrEmpty
<1> HIDE DEF TxFull, RxEmpty, WriteRoom, ReadReady
<1> QED BY <1>1, <1>2 DEF CallDue, CallStepsLeft, Calls

CallNearer == CallStepsLeft' \in 0 .. CallStepsLeft - 1

LEMMA CallStepsNumber ==
  ASSUME CallDue
  PROVE  CallStepsLeft \in Nat
BY DEF CallDue

\* The program returns.
LEMMA ReturnIsNearer ==
  ASSUME CallDue, CallDue', Return, CallStepsLeft >= 1
  PROVE  CallNearer /\ CallWaits'
<1>1. call' = "none" /\ count' = 0
  BY DEF Return
<1>2. CallStepsLeft' = 0
  BY <1>1 DEF CallDue
<1>3. CallStepsLeft \in Nat
  BY CallStepsNumber
<1> QED BY <1>1, <1>2, <1>3 DEF CallNearer, CallWaits
\* Each step of write and close.
LEMMA WriteIsNearer ==
  ASSUME StreamsIInv, CallTypes, CallTypes', CallWaits, CallDue, CallDue',
         Program(Write \/ CloseWait)
  PROVE  CallWaits' /\ (CallNearer \/ (call = "check" /\ tx_out = seen))
<1>1. count \in Nat /\ chunk \in Int /\ CallStepsLeft \in Nat
  BY CallStepsNumber DEF CallDue, CallTypes
<1>3. CASE WriteSpace
  <2>1. call = "space" /\ UNCHANGED <<tx_in, tx_out, count>>
    BY <1>3 DEF WriteSpace, Goto, local, transmit
  <2>2. CASE count = 0
    <3>1. call' = "kick"
      BY <1>3, <2>2 DEF WriteSpace, Goto
    <3>2. CallStepsLeft = 2 /\ CallStepsLeft' = 1
      BY <2>1, <2>2, <3>1 DEF CallDue
    <3> QED BY <2>1, <2>2, <3>1, <3>2 DEF CallNearer, CallWaits
  <2>3. CASE count # 0
    <3>1. seen' = tx_out /\ call' = IF TxFull THEN "kick" ELSE "copy"
      <4> HIDE DEF TxFull, WriteRoom
      <4> QED BY <1>3, <2>3, RoomOrFull DEF WriteSpace
    <3>2. CASE TxFull
      <4>1. call' = "kick" /\ (tx_in' - seen') % BufLen = BufLen - 1
        BY <2>1, <3>1, <3>2 DEF TxFull, TxHeld
      <4>2. CallStepsLeft = 7 * count + 6 /\ CallStepsLeft' = 7 * count + 5
        BY <1>1, <2>1, <2>3, <3>2, <4>1 DEF CallDue
      <4> QED BY <1>1, <4>1, <4>2 DEF CallNearer, CallWaits
    <3>3. CASE ~TxFull
      <4>1. CallStepsLeft = 7 * count + 2 /\ CallStepsLeft' = 7 * count + 1
        BY <1>1, <2>1, <3>1, <3>3 DEF CallDue
      <4> QED BY <1>1, <3>1, <3>3, <4>1 DEF CallNearer, CallWaits
    <3> QED BY <3>2, <3>3
  <2> QED BY <2>2, <2>3
<1>4. CASE WriteCopy
  <2>1. call = "copy" /\ call' = "put" /\ count' = count - chunk
    BY <1>4 DEF WriteCopy
  <2>2. chunk >= 1 /\ chunk <= count
    BY <2>1 DEF StreamsIInv, TxInOrder, CallInOrder
  <2>3. CallStepsLeft = 7 * count + 1 /\ CallStepsLeft' = 7 * count' + 7
    BY <2>1 DEF CallDue
  <2> QED BY <1>1, <2>1, <2>2, <2>3 DEF CallNearer, CallWaits
<1>5. CASE WritePut
  <2>1. call = "put" /\ call' = "space" /\ count' = count
    BY <1>5 DEF WritePut
  <2>2. /\ CallStepsLeft = 7 * count + 7
        /\ CallStepsLeft' \in {7 * count + 6, 7 * count + 2}
    BY <2>1 DEF CallDue
  <2> QED BY <1>1, <2>1, <2>2 DEF CallNearer, CallWaits
<1>6. CASE WriteKick
  <2>1. call = "kick" /\ UNCHANGED tx_in
    BY <1>6 DEF WriteKick, transmit
  <2>2. CASE count = 0 \/ nonblock
    <3>1. Return
      BY <1>6, <2>2 DEF WriteKick
    <3>2. CallStepsLeft >= 1
      BY <1>1, <2>1 DEF CallDue
    <3> QED BY <3>1, <3>2, ReturnIsNearer
  <2>3. CASE ~(count = 0 \/ nonblock)
    <3>1. call' = "wait" /\ count' = count /\ seen' = seen /\ count > 0
      BY <1>1, <1>6, <2>3 DEF WriteKick, Goto, local
    <3>2. CallStepsLeft = 7 * count + 5 /\ CallStepsLeft' = 7 * count + 4
      BY <1>1, <2>1, <3>1 DEF CallDue
    <3> QED BY <1>1, <2>1, <3>1, <3>2 DEF CallNearer, CallWaits
  <2> QED BY <2>2, <2>3
<1>7. CASE WriteWait
  <2>1. call = "wait" /\ call' = "check" /\ UNCHANGED <<tx_in, count, seen>>
    BY <1>7 DEF WriteWait, Goto, local, transmit
  <2>2. CallStepsLeft = 7 * count + 4 /\ CallStepsLeft' = 7 * count + 3
    BY <1>1, <2>1 DEF CallDue
  <2> QED BY <1>1, <2>1, <2>2 DEF CallNearer, CallWaits
<1>8. CASE WriteCheck
  <2>1. call = "check" /\ UNCHANGED <<tx_in, tx_out>>
    BY <1>8 DEF WriteCheck, transmit
  <2>2. CASE host_inactive # 0
    <3>1. Return
      BY <1>8, <2>2 DEF WriteCheck
    <3>2. CallStepsLeft >= 1
      BY <1>1, <2>1 DEF CallDue
    <3> QED BY <3>1, <3>2, ReturnIsNearer
  <2>3. CASE host_inactive = 0
    <3>1. call' = "space" /\ count' = count
      BY <1>8, <2>3 DEF WriteCheck, Goto, local
    <3>2. TxFull' <=> TxFull
      BY <2>1 DEF TxFull, TxHeld
    <3>3. tx_out # seen => ~TxFull
      BY <2>1, WaitFinds
    <3>4. tx_out # seen => CallStepsLeft = 7 * count + 3 /\ CallStepsLeft' = 7 * count + 2
      BY <1>1, <2>1, <3>1, <3>2, <3>3 DEF CallDue
    <3> QED BY <1>1, <2>1, <3>1, <3>4 DEF CallNearer, CallWaits
  <2> QED BY <2>2, <2>3
<1>9. CASE CloseWait
  <2>1. call = "drain" /\ Return
    BY <1>9 DEF CloseWait
  <2>2. CallStepsLeft >= 1
    BY <2>1 DEF CallDue
  <2> QED BY <2>1, <2>2, ReturnIsNearer
<1> QED BY <1>3, <1>4, <1>5, <1>6, <1>7, <1>8, <1>9 DEF Program, Write

\* Each step of read.
LEMMA ReadIsNearer ==
  ASSUME StreamsIInv, CallTypes, CallTypes', CallWaits, CallDue, CallDue', Program(Read)
  PROVE  CallWaits' /\ CallNearer
<1>1. count \in Nat /\ chunk \in Int /\ CallStepsLeft \in Nat
  BY CallStepsNumber DEF CallDue, CallTypes
<1>2. CASE ReadLook
  <2>1. call = "look" /\ UNCHANGED <<rx_in, rx_out>> /\ count >= 1
    BY <1>2 DEF ReadLook, receive, StreamsIInv, CallInOrder
  <2>2. CASE ReadReady = 0 /\ ~moved /\ nonblock
    <3>1. Return
      BY <1>2, <2>2 DEF ReadLook
    <3>2. CallStepsLeft >= 1
      BY <1>1, <2>1 DEF CallDue
    <3> QED BY <3>1, <3>2, ReturnIsNearer
  <2>3. CASE ~(ReadReady = 0 /\ ~moved /\ nonblock)
    <3>1. /\ seen' = rx_in /\ count' = count
          /\ call' = IF ReadReady > 0 THEN "take" ELSE IF moved THEN "rearm" ELSE "spin"
      BY <1>2, <2>3, Zenon DEF ReadLook
    <3>2. (ReadReady > 0 <=> ~RxEmpty) /\ (RxEmpty <=> rx_in = rx_out)
      BY ReadyOrEmpty
    <3>3. CASE ~RxEmpty
      <4>1. call' = "take"
        BY <3>1, <3>2, <3>3
      <4>2. CallStepsLeft = 3 * count + 1 /\ CallStepsLeft' = 3 * count
        BY <1>1, <2>1, <3>1, <3>3, <4>1 DEF CallDue
      <4> QED BY <1>1, <4>1, <4>2 DEF CallNearer, CallWaits
    <3>4. CASE RxEmpty /\ moved
      <4>1. call' = "rearm"
        BY <3>1, <3>2, <3>4
      <4>2. CallStepsLeft = 3 * count + 1 /\ CallStepsLeft' = 1
        BY <1>1, <2>1, <3>4, <4>1 DEF CallDue
      <4> QED BY <1>1, <2>1, <4>1, <4>2 DEF CallNearer, CallWaits
    <3>5. CASE RxEmpty /\ ~moved
      <4>1. call' = "spin" /\ seen' = rx_out'
        BY <2>1, <3>1, <3>2, <3>5
      <4>2. CallStepsLeft = 3 * count + 4 /\ CallStepsLeft' = 3 * count + 3
        BY <1>1, <2>1, <3>1, <3>5, <4>1 DEF CallDue
      <4> QED BY <1>1, <4>1, <4>2 DEF CallNearer, CallWaits
    <3> QED BY <3>3, <3>4, <3>5
  <2> QED BY <2>2, <2>3
<1>3. CASE ReadTake
  <2>1. call = "take" /\ call' = "free" /\ count' = count - chunk
    BY <1>3 DEF ReadTake
  <2>2. chunk >= 1 /\ chunk <= count
    BY <2>1 DEF StreamsIInv, RxInOrder, CallInOrder
  <2>3. CallStepsLeft = 3 * count /\ CallStepsLeft' = 3 * count' + 2
    BY <2>1 DEF CallDue
  <2> QED BY <1>1, <2>1, <2>2, <2>3 DEF CallNearer, CallWaits
<1>4. CASE ReadFree
  <2>1. /\ call = "free" /\ count' = count /\ moved' = moved
        /\ call' = IF count > 0 THEN "look" ELSE "rearm"
    BY <1>4 DEF ReadFree
  <2>2. moved
    BY <2>1 DEF StreamsIInv, ArmedIInv
  <2>3. CASE count > 0
    <3>1. call' = "look" /\ moved'
      BY <2>1, <2>2, <2>3
    <3>2. CallStepsLeft = 3 * count + 2 /\ CallStepsLeft' = 3 * count + 1
      BY <1>1, <2>1, <3>1 DEF CallDue
    <3> QED BY <1>1, <3>1, <3>2 DEF CallNearer, CallWaits
  <2>4. CASE count = 0
    <3>1. call' = "rearm"
      BY <2>1, <2>4
    <3>2. CallStepsLeft = 2 /\ CallStepsLeft' = 1
      BY <2>1, <2>4, <3>1 DEF CallDue
    <3> QED BY <3>1, <3>2 DEF CallNearer, CallWaits
  <2> QED BY <1>1, <2>3, <2>4
<1>5. CASE ReadSpin
  <2>1. call = "spin" /\ call' = "spun" /\ UNCHANGED <<rx_out, count, seen>>
    BY <1>5 DEF ReadSpin, Goto, local, receive
  <2>2. CallStepsLeft = 3 * count + 3 /\ CallStepsLeft' = 3 * count + 2
    BY <1>1, <2>1 DEF CallDue
  <2> QED BY <1>1, <2>1, <2>2 DEF CallNearer, CallWaits
<1>6. CASE ReadSpun
  <2>1. call = "spun" /\ UNCHANGED <<rx_in, rx_out>>
    BY <1>6 DEF ReadSpun, receive
  <2>2. CASE seen = rx_in
    <3>1. Return
      BY <1>6, <2>2 DEF ReadSpun
    <3>2. CallStepsLeft >= 1
      BY <1>1, <2>1 DEF CallDue
    <3> QED BY <3>1, <3>2, ReturnIsNearer
  <2>3. CASE seen # rx_in
    <3>1. call' = "look" /\ count' = count
      BY <1>6, <2>3 DEF ReadSpun, Goto, local
    <3>2. ~RxEmpty'
      <4>1. ~RxEmpty
        BY <2>1, <2>3, WaitFinds
      <4> QED BY <2>1, <4>1 DEF RxEmpty, RxHeld
    <3>3. CallStepsLeft = 3 * count + 2 /\ CallStepsLeft' = 3 * count + 1
      BY <1>1, <2>1, <3>1, <3>2 DEF CallDue
    <3> QED BY <1>1, <3>1, <3>3 DEF CallNearer, CallWaits
  <2> QED BY <2>2, <2>3
<1>7. CASE ReadRearm
  <2>1. call = "rearm" /\ Return
    BY <1>7 DEF ReadRearm
  <2>2. CallStepsLeft >= 1
    BY <2>1 DEF CallDue
  <2> QED BY <2>1, <2>2, ReturnIsNearer
<1> QED BY <1>2, <1>3, <1>4, <1>5, <1>6, <1>7 DEF Program, Read
\* The others leave the call where it is, and take away no room and no character.
LEMMA CallRests ==
  ASSUME CallDue, CallDue', CallWaits, UNCHANGED <<call, local, tx_in, rx_out>>,
         TxFull' => TxFull, RxEmpty' => RxEmpty
  PROVE  CallWaits' /\ CallStepsLeft' <= CallStepsLeft
<1>1. UNCHANGED <<call, count, seen, moved>>
  BY DEF local
<1>2. CallWaits'
  BY <1>1 DEF CallWaits
<1>3. CallStepsLeft' <= CallStepsLeft
  BY <1>1 DEF CallDue
<1> QED BY <1>2, <1>3

\* What the handler moves.
LEMMA TxShift ==
  ASSUME StreamsIInv, NEW k \in 0..TxHeld, tx_out' = (tx_out + k) % BufLen, tx_in' = tx_in
  PROVE  TxHeld' = TxHeld - k
<1>1. /\ TxHeld \in 0 .. BufLen - 1 /\ tx_out \in 0 .. BufLen - 1
      /\ tx_in = (tx_out + TxHeld) % BufLen
  BY TxNumbers
<1>2. k \in 0 .. BufLen - 1 /\ k <= TxHeld
  BY <1>1, JtagSizes
<1>3. (((tx_out + TxHeld) % BufLen) - ((tx_out + k) % BufLen)) % BufLen = TxHeld - k
  BY <1>1, <1>2, JtagSizes, WrapApart
<1> QED BY <1>1, <1>3 DEF TxHeld

LEMMA RxShift ==
  ASSUME StreamsIInv, NEW k \in Nat, RxHeld + k <= BufLen - 1,
         rx_in' = (rx_in + k) % BufLen, rx_out' = rx_out
  PROVE  RxHeld' = RxHeld + k
<1> DEFINE q == RxHeld
<1>1. q \in 0 .. BufLen - 1 /\ rx_out \in 0 .. BufLen - 1 /\ rx_in = (rx_out + q) % BufLen
  BY RxNumbers
<1> HIDE DEF q
<1>2. q + k \in 0 .. BufLen - 1
  BY <1>1, JtagSizes DEF q
<1>3. (((rx_out + q) % BufLen) + k) % BufLen = (rx_out + (q + k)) % BufLen
  BY <1>1, <1>2, JtagSizes, WrapAdd
<1>4. (((rx_out + (q + k)) % BufLen) - rx_out) % BufLen = q + k
  BY <1>1, <1>2, JtagSizes, WrapBack
<1> QED BY <1>1, <1>3, <1>4 DEF RxHeld, q

\* A turn of the handler has a reason: the device has what it asks to be moved.
Loops ==
  /\ pause_irq => rfifo # <<>>
  /\ isr = "rx" => control.ri \/ control.wi
  /\ isr = "rx" /\ control.ri => re /\ rfifo # <<>>
  /\ control.wi => control.space >= 1

\* It moves a character to the device, or turns WE off.
LEMMA Transmitted ==
  ASSUME StreamsIInv, Loops, IsrTransmit
  PROVE  /\ TxHeld' \in Nat /\ TxHeld' <= TxHeld
         /\ IF control.wi
              THEN \/ TxHeld' < TxHeld /\ (we' => we)
                   \/ we /\ ~we'
              ELSE TxHeld' = TxHeld /\ we' = we
<1>1. TxHeld \in 0 .. BufLen - 1 /\ BufLen \in Nat
  BY TxNumbers, JtagSizes
<1>2. tx_in' = tx_in
  BY DEF IsrTransmit
<1>3. CASE ~control.wi
  <2>1. UNCHANGED <<tx_out, we>>
    BY <1>3 DEF IsrTransmit
  <2>2. TxHeld' = TxHeld
    BY <1>2, <2>1 DEF TxHeld
  <2> QED BY <1>1, <1>3, <2>1, <2>2
<1>4. CASE control.wi
  <2> DEFINE s == control.space
             k == Min({s, TxHeld})
  <2>1. tx_out' = (tx_out + k) % BufLen /\ we' = (we /\ k = s)
    BY <1>4, Zenon DEF IsrTransmit, TxHeld
  <2>2. s \in Nat /\ s >= 1
    BY <1>4, TxFits DEF Loops
  <2>3. we
    BY <1>4 DEF StreamsIInv, ArmedIInv
  <2> HIDE DEF s
  <2>4. k = IF s <= TxHeld THEN s ELSE TxHeld
    BY <1>1, <2>2, MinOfTwo
  <2> HIDE DEF k
  <2>5. k \in 0..TxHeld
    BY <1>1, <2>2, <2>4
  <2>6. TxHeld' = TxHeld - k
    BY <1>2, <2>1, <2>5, TxShift
  <2>7. k >= 1 \/ k # s
    BY <2>2, <2>5
  <2>8. k # s => ~we'
    BY <2>1
  <2> HIDE DEF TxHeld
  <2>9. TxHeld' < TxHeld \/ ~we'
    BY <1>1, <2>5, <2>6, <2>7, <2>8
  <2> QED BY <1>1, <1>4, <2>3, <2>5, <2>6, <2>9
<1> QED BY <1>3, <1>4

\* It moves a character from the device, or turns RE off.
LEMMA Fetched ==
  ASSUME StreamsIInv, Loops, IsrReceive
  PROVE  /\ RxHeld' \in 0 .. BufLen - 1 /\ RxHeld' >= RxHeld
         /\ IF control.ri
              THEN \/ RxHeld' > RxHeld /\ (re' => re)
                   \/ re /\ ~re'
              ELSE RxHeld' = RxHeld /\ re' = re
         /\ pause_irq' => rfifo' # <<>>
<1>1. /\ RxHeld \in 0 .. BufLen - 1 /\ BufLen \in Nat
      /\ rfifo \in Seq(Char) /\ Len(rfifo) \in Nat
  BY RxNumbers, JtagSizes
<1>2. rx_out' = rx_out /\ isr = "rx"
  BY DEF IsrReceive
<1>3. CASE ~control.ri
  <2>1. UNCHANGED <<rx_in, rfifo, pause_irq, re>>
    BY <1>3 DEF IsrReceive
  <2>2. RxHeld' = RxHeld
    BY <1>2, <2>1 DEF RxHeld
  <2> QED BY <1>1, <1>3, <2>1, <2>2 DEF Loops
<1>4. CASE control.ri
  <2> DEFINE r == ReadRoom
             f == Len(rfifo)
             k == Min({r, f})
             left == r = 0 \/ (r <= f /\ f > k)
  <2>1. /\ rx_in' = (rx_in + k) % BufLen
        /\ rfifo' = SubSeq(rfifo, k + 1, f)
        /\ pause_irq' = (pause_irq /\ r = 0)
        /\ re' = (re /\ ~left)
    BY <1>4, Zenon DEF IsrReceive
  <2>2. re /\ rfifo # <<>>
    BY <1>2, <1>4 DEF Loops
  <2>3. f \in Nat /\ f >= 1
    BY <1>1, <2>2
  <2>4. r = BufLen - 1 - RxHeld /\ r \in Nat
    BY <1>1, RxRoom
  <2> HIDE DEF r, f
  <2>5. k = IF r <= f THEN r ELSE f
    BY <2>3, <2>4, MinOfTwo
  <2> HIDE DEF k
  <2>6. k \in Nat /\ k <= r /\ (k = 0 => r = 0)
    BY <2>3, <2>4, <2>5
  <2>7. RxHeld + k <= BufLen - 1
    BY <1>1, <2>4, <2>6
  <2>8. RxHeld' = RxHeld + k
    BY <1>2, <2>1, <2>6, <2>7, RxShift
  <2>9. r = 0 => ~re'
    BY <2>1
  <2> HIDE DEF RxHeld
  <2>10. RxHeld' > RxHeld \/ ~re'
    BY <1>1, <2>6, <2>8, <2>9
  <2>11. pause_irq' => rfifo' # <<>>
    <3>1. pause_irq' => r = 0
      BY <2>1
    <3>2. r = 0 => k = 0
      BY <2>6
    <3>3. k = 0 => rfifo' = rfifo
      BY <1>1, <2>1, <2>3 DEF f
    <3> QED BY <2>2, <3>1, <3>2, <3>3
  <2> QED BY <1>1, <1>4, <2>2, <2>6, <2>7, <2>8, <2>10, <2>11
<1> QED BY <1>3, <1>4
\* The reasons hold at every step.
LEMMA ProgramLoops ==
  ASSUME Loops, UNCHANGED <<pause_irq, rfifo, isr, control>>, isr = "off"
  PROVE  Loops'
BY DEF Loops

LEMMA ControlLoops ==
  ASSUME StreamsIInv, Loops, IsrControl
  PROVE  Loops'
<1>1. UNCHANGED <<pause_irq, rfifo, re>>
  BY DEF IsrControl, device
<1>2. CASE ~(RI \/ WI)
  <2>1. isr' = "off" /\ control' = NoControl
    BY <1>2 DEF IsrControl
  <2> QED BY <1>1, <2>1 DEF Loops, NoControl
<1>3. CASE RI \/ WI
  <2>1. control' = [ri |-> RI, wi |-> WI, space |-> Depth - Len(wfifo)]
    BY <1>3 DEF IsrControl
  <2>2. control'.ri = RI /\ control'.wi = WI /\ control'.space = Depth - Len(wfifo)
    BY <2>1
  <2>3. RI => re /\ rfifo # <<>>
    <3>1. RI => re /\ (pause_irq \/ Depth - Len(rfifo) <= Low)
      BY Zenon DEF RI
    <3>2. Depth - Len(rfifo) <= Low => rfifo # <<>>
      BY JtagAssumption DEF JtagAssumption
    <3>3. pause_irq => rfifo # <<>>
      BY DEF Loops
    <3> QED BY <3>1, <3>2, <3>3
  <2>4. WI => Depth - Len(wfifo) >= 1
    BY TxNumbers, JtagAssumption DEF JtagAssumption, WI
  <2>5. /\ pause_irq' => rfifo' # <<>>
        /\ control'.ri => re' /\ rfifo' # <<>>
    BY <1>1, <2>2, <2>3 DEF Loops
  <2>6. control'.ri \/ control'.wi
    BY <1>3, <2>2
  <2>7. control'.wi => control'.space >= 1
    BY <2>2, <2>4
  <2> HIDE DEF RI, WI
  <2> QED BY <2>5, <2>6, <2>7 DEF Loops
<1> QED BY <1>2, <1>3

LEMMA HandlerLoops ==
  ASSUME StreamsIInv, Loops, Handler
  PROVE  Loops'
<1>1. CASE IsrReceive
  <2>1. isr' = "tx" /\ control' = control
    BY <1>1 DEF IsrReceive
  <2>2. pause_irq' => rfifo' # <<>>
    BY <1>1, Fetched
  <2> QED BY <2>1, <2>2 DEF Loops
<1>2. CASE IsrTransmit
  <2>1. isr' = "control" /\ control' = NoControl /\ UNCHANGED <<pause_irq, rfifo>>
    BY <1>2 DEF IsrTransmit
  <2> QED BY <2>1 DEF Loops, NoControl
<1> QED BY <1>1, <1>2, ControlLoops DEF Handler

LEMMA HostLoops ==
  ASSUME StreamsIInv, Loops, HostPoll
  PROVE  Loops'
<1>1. UNCHANGED <<re, isr, control>> /\ pause_irq' \in {pause_irq, pause_irq \/ rfifo # <<>>}
  BY DEF HostPoll
<1>2. rfifo' = rfifo \/ rfifo' = Append(rfifo, hsent)
  BY DEF HostPoll
<1>3. rfifo # <<>> => rfifo' # <<>>
  BY <1>2, RxNumbers
<1>4. pause_irq' => rfifo # <<>>
  BY <1>1 DEF Loops
<1> QED BY <1>1, <1>3, <1>4 DEF Loops

LEMMA LoopsStep ==
  ASSUME StreamsIInv, Loops, [JtagNext]_jtagVars
  PROVE  Loops'
<1>1. CASE UNCHANGED jtagVars
  BY <1>1 DEF jtagVars, device, Loops
<1>2. CASE Program(Call) \/ Driver
  BY <1>2, ProgramLoops DEF Driver, Program, device
<1>3. CASE Second
  BY <1>3, ProgramLoops DEF Second
<1> QED BY <1>1, <1>2, <1>3, HandlerLoops, HostLoops DEF JtagNext

LEMMA LoopsInit == JtagInit => Loops
BY DEF JtagInit, NoControl, Loops
\* HandlerStepsLeft, place by place.
HandlerDue ==
  /\ isr \in {"off", "control", "rx", "tx"}
  /\ Movable \in Nat
  /\ control.wi => Movable >= 1
  /\ isr = "off"     => HandlerStepsLeft = 0
  /\ isr = "control" => HandlerStepsLeft = 3 * Movable + 1
  /\ isr = "rx"      => HandlerStepsLeft = 3 * Movable
  /\ isr = "tx"      => HandlerStepsLeft = IF control.wi THEN 3 * Movable - 1
                                           ELSE 3 * Movable + 2

\* Movable, of what the rings hold.
MovableDue ==
  /\ TxHeld \in Nat /\ RxHeld \in 0 .. BufLen - 1
  /\ Movable = TxHeld + (BufLen - 1 - RxHeld) + (IF we THEN 1 ELSE 0) + (IF re THEN 1 ELSE 0)

LEMMA MovableDueHolds == StreamsIInv => MovableDue
<1> SUFFICES ASSUME StreamsIInv PROVE MovableDue
  OBVIOUS
<1>1. TxHeld \in Nat /\ RxHeld \in 0 .. BufLen - 1 /\ ReadRoom = BufLen - 1 - RxHeld
  BY TxNumbers, RxNumbers, RxRoom, JtagSizes
<1>2. Movable = TxHeld + ReadRoom + (IF we THEN 1 ELSE 0) + (IF re THEN 1 ELSE 0)
  BY DEF Movable, TxHeld
<1> QED BY <1>1, <1>2 DEF MovableDue

LEMMA HandlerDueHolds == StreamsIInv /\ HandlerTypes => HandlerDue
<1> SUFFICES ASSUME StreamsIInv, HandlerTypes PROVE HandlerDue
  OBVIOUS
<1>1. MovableDue /\ (control.wi => we)
  BY MovableDueHolds DEF StreamsIInv, ArmedIInv
<1> DEFINE a == IF we THEN 1 ELSE 0
           b == IF re THEN 1 ELSE 0
<1>2. a \in Nat /\ b \in Nat /\ (we => a = 1)
  OBVIOUS
<1> HIDE DEF a, b
<1>3. Movable = TxHeld + (BufLen - 1 - RxHeld) + a + b
  BY <1>1 DEF MovableDue, a, b
<1> HIDE DEF TxHeld, RxHeld, Movable
<1>4. Movable \in Nat /\ (we => Movable >= 1)
  BY <1>1, <1>2, <1>3, JtagSizes DEF MovableDue
<1>5. isr \in {"off", "control", "rx", "tx"}
  BY DEF HandlerTypes
<1> QED BY <1>1, <1>4, <1>5 DEF HandlerDue, HandlerStepsLeft

\* Three steps for each thing to move, in numbers.
LEMMA FewerToMove ==
  ASSUME NEW m \in Nat, NEW n \in Nat, n < m
  PROVE  /\ 3 * n + 2 \in 0 .. 3 * m - 1
         /\ n >= 1 => 3 * n - 1 \in 0 .. 3 * m - 1
         /\ 3 * n + 1 \in 0 .. (3 * m - 1) - 1
OBVIOUS

LEMMA MovedOrOff ==
  ASSUME NEW t \in Nat, NEW r \in Int, NEW x \in Int, NEW y \in Int,
         NEW u \in Nat, NEW s \in Int, NEW v \in Int, NEW w \in Int,
         u <= t, r <= s, v <= x, w <= y, u < t \/ r < s \/ v < x \/ w < y
  PROVE  u + (BufLen - 1 - s) + v + w < t + (BufLen - 1 - r) + x + y
BY JtagSizes

Bit(b) == IF b THEN 1 ELSE 0

LEMMA BitFalls ==
  ASSUME NEW b, NEW c
  PROVE  /\ Bit(b) \in Int
         /\ (c => b) => Bit(c) <= Bit(b)
         /\ b /\ ~c => Bit(c) < Bit(b)
BY DEF Bit

HandlerNearer == HandlerStepsLeft' \in 0 .. HandlerStepsLeft - 1

\* Each step of the handler.
LEMMA HandlerIsNearer ==
  ASSUME StreamsIInv, Loops, MovableDue, MovableDue', HandlerDue, HandlerDue',
         Handler, isr # "off"
  PROVE  HandlerNearer
<1>1. Movable \in Nat /\ Movable' \in Nat
  BY DEF HandlerDue
<1>2. CASE IsrControl
  <2>1. isr = "control"
    BY <1>2 DEF IsrControl
  <2>2. UNCHANGED <<tx_in, tx_out, rx_in, rx_out, re, we>> /\ isr' \in {"rx", "off"}
    BY <1>2 DEF IsrControl, transmit, receive
  <2>3. Movable' = Movable
    BY <2>2 DEF Movable, ReadRoom
  <2>4. HandlerStepsLeft = 3 * Movable + 1
    BY <2>1 DEF HandlerDue
  <2>5. HandlerStepsLeft' \in {0, 3 * Movable'}
    BY <2>2 DEF HandlerDue
  <2> HIDE DEF Movable, HandlerStepsLeft
  <2> QED BY <1>1, <2>3, <2>4, <2>5 DEF HandlerNearer
<1>3. CASE IsrReceive
  <2>1. isr = "rx" /\ isr' = "tx" /\ UNCHANGED <<tx_in, tx_out, we, control>>
    BY <1>3 DEF IsrReceive, transmit
  <2>2. TxHeld' = TxHeld
    BY <2>1 DEF TxHeld
  <2>3. HandlerStepsLeft = 3 * Movable
    BY <2>1 DEF HandlerDue
  <2>4. HandlerStepsLeft' = IF control.wi THEN 3 * Movable' - 1 ELSE 3 * Movable' + 2
    BY <2>1 DEF HandlerDue
  <2>5. control.wi => Movable' >= 1
    BY <2>1 DEF HandlerDue
  <2>6. CASE control.ri
    <3>1. Movable' < Movable
      <4>1. (RxHeld' > RxHeld /\ (re' => re)) \/ (re /\ ~re')
        BY <1>3, <2>6, Fetched
      <4>2. TxHeld' <= TxHeld /\ RxHeld <= RxHeld'
        <5>1. RxHeld' \in 0 .. BufLen - 1 /\ RxHeld' >= RxHeld /\ TxHeld \in Nat
          BY <1>3, Fetched DEF MovableDue
        <5> HIDE DEF TxHeld, RxHeld
        <5> QED BY <2>2, <5>1, JtagSizes
      <4>3. TxHeld \in Nat /\ TxHeld' \in Nat /\ RxHeld \in Int /\ RxHeld' \in Int
        BY JtagSizes DEF MovableDue
      <4> DEFINE x == Bit(we)  y == Bit(re)  v == Bit(we')  w == Bit(re')
      <4>4. x \in Int /\ y \in Int /\ v \in Int /\ w \in Int
        BY BitFalls
      <4>5. v <= x /\ w <= y /\ (RxHeld < RxHeld' \/ w < y)
        BY <2>1, <4>1, BitFalls
      <4>6. /\ Movable = TxHeld + (BufLen - 1 - RxHeld) + x + y
            /\ Movable' = TxHeld' + (BufLen - 1 - RxHeld') + v + w
        BY DEF MovableDue, Bit
      <4> HIDE DEF TxHeld, RxHeld, Movable, x, y, v, w
      <4>7. TxHeld' + (BufLen - 1 - RxHeld') + v + w < TxHeld + (BufLen - 1 - RxHeld) + x + y
        BY <4>2, <4>3, <4>4, <4>5, MovedOrOff
      <4> QED BY <4>6, <4>7
    <3> HIDE DEF Movable, HandlerStepsLeft
    <3>2. HandlerStepsLeft' \in 0 .. 3 * Movable - 1
      BY <1>1, <2>4, <2>5, <3>1, FewerToMove
    <3> QED BY <2>3, <3>2 DEF HandlerNearer
  <2>7. CASE ~control.ri
    <3>1. control.wi
      BY <2>1, <2>7 DEF Loops
    <3>2. RxHeld' = RxHeld /\ re' = re
      BY <1>3, <2>7, Fetched
    <3>3. Movable' = Movable
      BY <2>1, <2>2, <3>2 DEF MovableDue
    <3> HIDE DEF Movable, HandlerStepsLeft
    <3> QED BY <1>1, <2>3, <2>4, <2>5, <3>1, <3>3 DEF HandlerNearer
  <2> QED BY <2>6, <2>7
<1>4. CASE IsrTransmit
  <2>1. isr = "tx" /\ isr' = "control" /\ UNCHANGED <<rx_in, rx_out, re>>
    BY <1>4 DEF IsrTransmit, receive
  <2>2. RxHeld' = RxHeld
    BY <2>1 DEF RxHeld
  <2>3. HandlerStepsLeft = IF control.wi THEN 3 * Movable - 1 ELSE 3 * Movable + 2
    BY <2>1 DEF HandlerDue
  <2>4. HandlerStepsLeft' = 3 * Movable' + 1
    BY <2>1 DEF HandlerDue
  <2>5. CASE control.wi
    <3>1. Movable' < Movable
      <4>1. (TxHeld' < TxHeld /\ (we' => we)) \/ (we /\ ~we')
        BY <1>4, <2>5, Transmitted
      <4>2. TxHeld' <= TxHeld
        BY <1>4, Transmitted
      <4>3. TxHeld \in Nat /\ TxHeld' \in Nat /\ RxHeld \in Int /\ RxHeld' \in Int
        BY JtagSizes DEF MovableDue
      <4> DEFINE x == Bit(we)  y == Bit(re)  v == Bit(we')  w == Bit(re')
      <4>4. x \in Int /\ y \in Int /\ v \in Int /\ w \in Int
        BY BitFalls
      <4>5. v <= x /\ w <= y /\ (TxHeld' < TxHeld \/ v < x)
        BY <2>1, <4>1, BitFalls
      <4>6. /\ Movable = TxHeld + (BufLen - 1 - RxHeld) + x + y
            /\ Movable' = TxHeld' + (BufLen - 1 - RxHeld') + v + w
        BY DEF MovableDue, Bit
      <4> HIDE DEF TxHeld, RxHeld, Movable, x, y, v, w
      <4>7. TxHeld' + (BufLen - 1 - RxHeld') + v + w < TxHeld + (BufLen - 1 - RxHeld) + x + y
        BY <2>2, <4>2, <4>3, <4>4, <4>5, MovedOrOff
      <4> QED BY <4>6, <4>7
    <3> HIDE DEF Movable, HandlerStepsLeft
    <3>2. HandlerStepsLeft = 3 * Movable - 1
      BY <2>3, <2>5
    <3>3. 3 * Movable' + 1 \in 0 .. (3 * Movable - 1) - 1
      BY <1>1, <3>1, FewerToMove
    <3> QED BY <2>4, <3>2, <3>3 DEF HandlerNearer
  <2>6. CASE ~control.wi
    <3>1. TxHeld' = TxHeld /\ we' = we
      BY <1>4, <2>6, Transmitted
    <3>2. Movable' = Movable
      BY <2>1, <2>2, <3>1 DEF MovableDue
    <3> HIDE DEF Movable, HandlerStepsLeft
    <3> QED BY <1>1, <2>3, <2>4, <2>6, <3>2 DEF HandlerNearer
  <2> QED BY <2>5, <2>6
<1> QED BY <1>2, <1>3, <1>4 DEF Handler
\* The steps of the others.
CallStays ==
  UNCHANGED <<call, local, tx_in, rx_out>> /\ (TxFull' => TxFull) /\ (RxEmpty' => RxEmpty)

LEMMA OthersLeaveCall ==
  ASSUME StreamsIInv, Loops, Handler \/ Second \/ HostPoll
  PROVE  CallStays
<1>1. TxHeld \in 0 .. BufLen - 1 /\ RxHeld \in 0 .. BufLen - 1 /\ BufLen \in Nat
  BY TxNumbers, RxNumbers, JtagSizes
<1>2. UNCHANGED <<call, local, tx_in, rx_out>>
  BY DEF Handler, Second, HostPoll, IsrControl, IsrReceive, IsrTransmit, transmit, receive
<1>3. CASE IsrControl \/ Second \/ HostPoll
  <2>1. UNCHANGED <<tx_in, tx_out, rx_in, rx_out>>
    BY <1>3 DEF IsrControl, Second, HostPoll, transmit, receive
  <2> QED BY <1>2, <2>1 DEF CallStays, TxFull, RxEmpty, TxHeld, RxHeld
<1>4. CASE IsrReceive
  <2>1. UNCHANGED <<tx_in, tx_out>>
    BY <1>4 DEF IsrReceive, transmit
  <2>2. TxFull' => TxFull
    BY <2>1 DEF TxFull, TxHeld
  <2>3. RxHeld' \in 0 .. BufLen - 1 /\ RxHeld' >= RxHeld
    BY <1>4, Fetched
  <2>4. RxEmpty' => RxEmpty
    <3> HIDE DEF RxHeld
    <3> QED BY <1>1, <2>3 DEF RxEmpty
  <2> QED BY <1>2, <2>2, <2>4 DEF CallStays
<1>5. CASE IsrTransmit
  <2>1. UNCHANGED <<rx_in, rx_out>>
    BY <1>5 DEF IsrTransmit, receive
  <2>2. RxEmpty' => RxEmpty
    BY <2>1 DEF RxEmpty, RxHeld
  <2>3. TxHeld' \in Nat /\ TxHeld' <= TxHeld
    BY <1>5, Transmitted
  <2>4. TxFull' => TxFull
    <3> HIDE DEF TxHeld
    <3> QED BY <1>1, <2>3 DEF TxFull
  <2> QED BY <1>2, <2>2, <2>4 DEF CallStays
<1> QED BY <1>3, <1>4, <1>5 DEF Handler

\* Every step keeps CallWaits, and is one that CallsComeNearer allows the call.
CallGetsOn ==
  \/ CallNearer
  \/ UNCHANGED <<call, local>> /\ CallStepsLeft' <= CallStepsLeft
  \/ call = "check" /\ tx_out = seen

LEMMA CallsStep ==
  ASSUME StreamsIInv, CallTypes, CallTypes', CallDue, CallDue', CallWaits, Loops,
         [JtagNext]_jtagVars
  PROVE  CallWaits' /\ [call # "none" => CallGetsOn]_jtagVars
<1>1. CASE UNCHANGED jtagVars
  BY <1>1 DEF jtagVars, local, transmit, receive, CallWaits
<1>2. CASE Program(Call)
  <2>1. call = "none" /\ call' \in {"space", "look", "drain"}
    BY <1>2 DEF Program, Call, Called
  <2> QED BY <2>1 DEF CallWaits
<1>3. CASE Driver
  <2>1. Program(Write \/ CloseWait) \/ Program(Read)
    BY <1>3 DEF Driver, Program
  <2> QED BY <2>1, WriteIsNearer, ReadIsNearer DEF CallGetsOn
<1>4. CASE Handler \/ Second \/ HostPoll
  <2>1. CallStays
    BY <1>4, OthersLeaveCall
  <2> QED BY <2>1, CallRests DEF CallStays, CallGetsOn
<1> QED BY <1>1, <1>2, <1>3, <1>4 DEF JtagNext

\* And one that it allows the handler.
HandlerGetsOn == HandlerNearer \/ UNCHANGED <<isr, HandlerStepsLeft>>

LEMMA HandlersStep ==
  ASSUME StreamsIInv, Loops, MovableDue, MovableDue', HandlerDue, HandlerDue',
         [JtagNext]_jtagVars
  PROVE  [isr # "off" => HandlerGetsOn]_jtagVars
<1>1. CASE Program(Call) \/ Driver \/ Second
  BY <1>1 DEF Driver, Program, Second
<1>2. CASE HostPoll
  <2>1. UNCHANGED <<tx_in, tx_out, rx_in, rx_out, re, we, isr, control>>
    BY <1>2 DEF HostPoll, transmit, receive
  <2>2. HandlerStepsLeft' = HandlerStepsLeft
    BY <2>1 DEF HandlerStepsLeft, Movable, ReadRoom
  <2> QED BY <2>1, <2>2 DEF HandlerGetsOn
<1>3. CASE Handler
  BY <1>3, HandlerIsNearer DEF HandlerGetsOn
<1> QED BY <1>1, <1>2, <1>3 DEF JtagNext

LEMMA CallWaitsInit == JtagInit => CallWaits
BY DEF JtagInit, CallWaits

(***************************************************************************)
(* Every step of a call brings its end nearer and nobody takes that back,  *)
(* but for a write that gives up a host that is back before it looks       *)
(* again; and every turn of the handler's loop moves a character or turns  *)
(* an interrupt off: for every length of the rings and the FIFOs.          *)
(***************************************************************************)
THEOREM CallsGetNearer == JtagSpec => CallsComeNearer
<1> DEFINE I == StreamsIInv /\ JtagTypes /\ CallWaits /\ Loops
           D == CallDue /\ MovableDue /\ HandlerDue
<1>1. JtagInit => I
  BY StreamsInitInv, JtagTypesInit, CallWaitsInit, LoopsInit
<1>2. ASSUME I, D, (StreamsIInv /\ JtagTypes)', D', [JtagNext]_jtagVars
      PROVE  /\ I'
             /\ [call # "none" => CallGetsOn]_jtagVars
             /\ [isr # "off" => HandlerGetsOn]_jtagVars
  <2>1. StreamsIInv' /\ JtagTypes' /\ CallTypes /\ CallTypes'
    BY <1>2 DEF JtagTypes
  <2>2. Loops'
    BY <1>2, LoopsStep
  <2>3. CallWaits' /\ [call # "none" => CallGetsOn]_jtagVars
    BY <1>2, <2>1, CallsStep
  <2>4. [isr # "off" => HandlerGetsOn]_jtagVars
    BY <1>2, HandlersStep
  <2> QED BY <2>1, <2>2, <2>3, <2>4
<1>3. StreamsIInv /\ JtagTypes /\ [JtagNext]_jtagVars => (StreamsIInv /\ JtagTypes)'
  BY JtagStep
<1>4. StreamsIInv /\ JtagTypes => D
  BY CallDueHolds, MovableDueHolds, HandlerDueHolds DEF JtagTypes
<1> HIDE DEF D
<1>5. JtagSpec => /\ [][call # "none" => CallGetsOn]_jtagVars
                  /\ [][isr # "off" => HandlerGetsOn]_jtagVars
  BY <1>1, <1>2, <1>3, <1>4, PTL DEF JtagSpec
<1> QED BY <1>5, PTL DEF CallsComeNearer, CallGetsOn, CallNearer, HandlerGetsOn, HandlerNearer
=============================================================================
