# FPGA Pac-Man: TLA+ models, checks and proofs

The repository is a Pac-Man for the DE10-Lite board: SystemVerilog modules move
the sprites and draw them, and C firmware on a NIOS-II soft core reads a USB
keyboard through a MAX3421E chip and writes the key into a register the game
reads. These modules model the part that decides something: how the sprites
move, chase and collide, how the firmware finds, loses and polls the keyboard,
and what the firmware stands on: USB transfers, register accesses, printing,
alarms and file descriptors.

## The system

| part | source | state | operations | modelled by |
|---|---|---|---|---|
| Pac-Man | `pacman.sv` | position, motion, play | a frame, Reset | `Pacman` |
| four ghosts | `rghost.sv`, `bghost.sv`, `oghost.sv`, `pghost.sv` | position, motion, play | a frame, Reset | `Ghost`, `Chaser`, `Ghosts` |
| top level, overlap test | `lab62.sv`, `Color_Mapper.sv` 507-516 | none of its own; `game_over` is combinational | wires the sprites together | `Game` |
| USB host firmware | `main.c`, `transfer.c`, `MAX3421E.c`, `HID.c` | task state, device table, flags, settle time | a pass of the polling loop | `UsbHost` |
| USB transfers | `transfer.c` 72-227, `HID.c` 203-222 | data toggles, counts of NAKs and retries | request, poll | `Transfer` |
| probes of a device | `HID.c`, `transfer.c` 41-62, 360-373 | device class, endpoint, interface | a step of a probe | `HidProbe` |
| registers over SPI | `MAX3421E.c` 29-101, `altera_avalon_spi.c` | credits, lengths to go, the core's registers | read or write registers | `Spi` |
| JTAG UART driver | `altera_avalon_jtag_uart_*.c` | two rings, interrupt enables, seconds without a host | read, write, close, interrupt, alarm | `JtagUart` |
| clock and alarms | `alt_tick.c`, `alt_alarm_start.c`, `altera_avalon_timer_sc.c` | tick count, times, rollover flags | tick, start, stop | `Alarms` |
| linked list | `alt_llist.h` | pointers | insert, remove, walk | `LList` |
| file descriptors | `alt_open.c`, `alt_close.c`, `alt_ioctl.c`, `alt_main.c` and others | descriptor table, devices | start-up, open, close, lock, read, write | `Files` |
| points and score | `dots.sv`, `collision.sv`, `Color_Mapper.sv` 174-455, 615-648 | one eaten flag per point | a clock edge | not yet |
| VGA timing | `VGA_controller.sv` | two counters, sync registers | a pixel clock | not yet |
| drawing, digits, animation | rest of `Color_Mapper.sv`, `font_rom.sv`, `frame_ram.sv`, `HexDriver.sv`, `counter.sv` | output only | | no |
| not in the build | `start.sv`, `state.sv`, `vga_text_avl_interface.sv`, `ram_take4.v`, `*.bak` | | | no |
| rest of `software/usb_kb_bsp` | interrupt dispatch, heap, start-up, libc stubs; logging, profiling, DMA and flash that this build switches off | | | no |
| generated | `lab62_soc`, `db`, `output_files` | | | no |

How the parts interact:

* The five movement modules are clocked by the same vertical sync, so a frame
  is one simultaneous step of all of them. Each reads the positions the others
  held before the edge, and one 8-bit register, `keycode`.
* `color_mapper` compares Pac-Man with every ghost and drives `game_over`,
  without a register, back into all five movement modules.
* The firmware writes `keycode` from another clock and at its own pace. Nothing
  synchronises the two sides.
* The firmware takes no interrupt from the USB chip. Its loop looks at the
  chip's interrupt pin once a pass, so what happens on the bus may fall between
  any two accesses to the chip.
* Two interrupts are taken below it: the timer's, which counts the ticks and
  calls the alarms, and that of the JTAG UART, which empties and fills the rings
  of what is printed and read. The one alarm of the system counts the seconds in
  which the JTAG UART sees no host.
* The loop prints in every pass, and `printf` waits for room in the ring: the
  game's keyboard stands still while a write waits.
* `KEY[0]` resets all sprites at once and asynchronously. It does not reset the
  firmware, and `keycode` survives it.

What is hard about each part, and what makes it correct:

* **Movement.** Walls are a hand-written list of 130 rectangle tests,
  repeated in five files. Every test looks at the position of before a step
  that the motion chosen one frame earlier is about to take. Correct means: no
  sprite enters a bar or leaves the playfield, only the tunnel moves one
  further than a pixel, and a sprite can be moved again.
* **Game.** Five modules with a start flag each, an unlatched `game_over`, one
  ghost with a commented-out `if`, one with a nonblocking flag. Correct means:
  they start together, stop together, and a contact once seen stays seen.
* **USB host.** A state machine advanced by a task, by an interrupt task and by
  a bus probe, over a device table that failures leave half-filled. Correct
  means: what is polled is the device that was configured, a device lost is
  noticed, an enumeration ends.
* **Transfers and probes.** The bus loses tokens, data and acknowledgements, and
  a transfer is given up half-way. Correct means: an answer is whole, a key is
  typed once, a device runs as what it is.
* **Drivers.** Rings without locks, a tick count that wraps, a register that
  must be read before the next byte. Correct means: nothing is lost, doubled or
  left waiting, and every call comes back.

`PROJECT.json` lists each hazard at its line with the properties aimed at it.

## Modules

```
Maze ── Walker ── Pacman ────────────┐
  └── GhostWalls ── Chaser ── Ghost  ├── Game
                       └─────────────┘
Ghosts (the four records)

 UsbHost ── HidProbe ┐
  Stream ── JtagUart ┤   Alarms ── Countdown
     └───── Transfer ┤
                 Spi ┴── MCServices ── LList, Files
```

`Stream` and `Countdown` are abstract specifications, which the modules beside
them are shown to implement; and `UsbHost` is the abstract view of `HidProbe`.
The inductive invariants are in the proof modules.

**`Maze`** holds the wall lists of `pacman.sv` as sets of rectangles and the
three shapes of test they use; `WallBlocks` is the set of directions they
close. Literals in the code are 32 bits wide, so `p - 8` borrows below zero and
becomes huge; `AtMost` and `AtLeast` say what the comparison then means.
`GhostWalls` has the ghosts' copies, which hold the same numbers today.

**`Walker`** is what all five files share: the record of a sprite's registers
(10-bit words, -1 is 1023), the edge tests (these do wrap at 10 bits), the rule
that a closed direction clears the motion along its axis, and `Advance`, the
end of the block, which moves by the *old* motion.

**`Pacman`** is the `always_ff` block of `pacman.sv`. `Frame` is one clock edge
and follows the order of the code: edge tests on the old column, the tunnel's
two blocking assignments, wall tests on the new column, `game_over`, the key.
`game_over` is an arbitrary input. `SetKeycode` is the firmware's register
write, at any time.

**`Chaser`** is a frame of a ghost, with a record for what the files do
differently: home, motion after Reset, order of the `if`/`else if` chain, the
nonblocking `play` of rghost (`late`), the unconditional halt of bghost
(`halts`), the wall lists. `Ghost` is a machine around one ghost whose prey is
arbitrary: any consistent set of directions towards Pac-Man, any `game_over`.
`Ghosts` has the four records of the game.

**`Game`** composes them. `GameFrame` moves Pac-Man and every ghost from the
same old state with the `game_over` computed from it; `GameReset` is the common
Reset. `PacmanRefined` and `GhostsRefined` say that each sprite in the game is
the sprite that was checked alone.

**`UsbHost`** is the firmware. A step ends where a change on the bus matters
(`pc`):

| `pc` | code |
|---|---|
| `irq` | `MAX3421E_Task`, up to reading `rHIRQ` |
| `probe` | `MAX_busprobe` |
| `ack` | rest of `MaxIntHandler`: `usb_task_state++` on a bus event, acknowledge |
| `task` | `USB_Task`, one action per state that does something |
| `main` | the rest of the loop in `main` |
| `reset`, `initprobe`, `initack` | `MAX3421E_init`, `USB_init` |

The chip and the bus are external: devices are plugged in and out at any time,
either change raises CONDETIRQ; the end of a bus reset raises BUSEVENTIRQ and,
as the comment at `MAX3421E.c:138` warns, perhaps CONDETIRQ too; only
CONDETIRQ drives the pin (`MAX3421E.c:186`). A transfer succeeds or fails as a
whole; it can succeed only if a device answers to that address, and it may fail
at any time. `SET_ADDRESS` may also take effect and still be reported as
failed. Left out: low and full speed, LEDs and digits, string descriptors, the
error code. `runningdebugflag` is `flag`.

**`Transfer`** opens that step up. An action is one launch of a packet by
`XferDispatchPkt` with what comes of it: the token may be lost, the answer may be
lost, the acknowledgement may be lost, the device may say NAK or fail. The chip
has the toggle it expects (`toggle`), the firmware the one it saves between
polls (`rcvToggle`), the device the one it sends; a packet with the wrong toggle
is acknowledged and thrown away. `Request` is `XferCtrlReq`, for every kind of
request the code makes; `Poll` is `kbdPoll` or `mousePoll`. A device here is one
that stays plugged in; `UsbHost` has those that go.

**`HidProbe`** is the loop over `ClientDriverTable` and the two probes that do
something. A configuration is the sequence of the descriptors that a walk by
their `bLength` comes to (`at` is `byte_ptr`); the device chooses them, in any
order and number. A descriptor has length 1, which leads to the next, or 0,
which leads nowhere: the code adds 0 to `byte_ptr` and looks at the same bytes
for ever (`HID.c` 49, 72, 77, 140, 163, 168). Each action is one turn of a loop
of the code, or one transfer, which may fail, and may have reached the
device although it failed. `UsbHost` takes all of this for one step, `Claim` or
`NoDriver`; `ProbeIsOneStep` says that it may: `Host` is `UsbHost` with its
variables read off the state of the probes, and no step of a probe but the last
one changes them. The same property bounds the steps of a driver, by the number
of descriptors; it does not say that the last one is taken. That is part of
`CallsEnd`, which names the exception: a walk that has come to a descriptor of
length 0 that it is not looking for (`Stays`). For such a device the one step of
`UsbHost`, and with it what `EnumerationEnds` says, never comes.

**`Spi`** has the four register accesses of `MAX3421E.c` as one or two commands,
the loop of `alt_avalon_spi_command` split at its reads of the status, and the
core: a transmit register, a shift register and one receive register. A byte is
its place in the access, so that one out of place shows (`garbled`).

**`JtagUart`** is the driver behind `printf`. The program's steps end at each
access to a variable the interrupt handler also touches; the handler runs to its
end without the program, but the device and the host go on beside it. Its three
steps are a turn of its loop: control word, receive, transmit. A character is
its number in the stream, and the properties `TxStream` and `RxStream` say that
each ring with its FIFO is a `Stream`: characters arrive once, in order, and no
more are under way than there are places. `re` and `we` are the two bits of
`irq_enable`.

**`Alarms`** is the tick count, a word of `W` values, with the alarms that
compare themselves with it. `Countdown` is what they promise: so many ticks, then
the callback. `Left` is the refinement mapping. `Waits` are the times that
`alt_alarm_start` is asked for; the longest that it accepts is not kept (see
below), and `services` and the theorems are about the others.

**`LList`** is the list they hang in, and the walk of `alt_tick`, in which a
callback may remove the entry it is called for or insert another one.

**`Files`** starts where `alt_main` does: `/dev/null` on three descriptors,
registration of the JTAG UART, redirection of the three streams; then `main`,
which may open, close, lock, seek, read and write whatever is open.

`MCServices` puts these seven side by side. They share no state that matters to
their properties, so a behaviour exercises one of them (`part`) while the others
rest, and the run visits the sum of their states instead of the product.

## Runs

| run | configuration | shows |
|---|---|---|
| `pacman` | real maze and parameters, six keys | `TypeOK`, `InPlayfield`, `ClearOfBars`, `StepOrTunnel` |
| `pacman_live` | four keys (none, right, up, space) | `ComesToRest` |
| `pacman_trap` | as `pacman` | `KeepsMoving` fails: finding |
| `ghost` | real maze, the four real ghosts, two keys | `TypeOK`, `InPlayfield`, `ClearOfBars`, `StaysHome`, `OnePixel` |
| `game` | real maze and ghosts, six keys, key may change every 40 frames, 319 frames per round | `GameTypeOK`, `PlayTogether`, `NoDeepOverlap`, `OverHalts`, `OverIsFinal` |
| `game_refines` | as `game`, key every 15 frames, 60 frames; and a player who only holds the space bar, without bound | `PacmanRefined`, `GhostsRefined`, `IdleIsCaught` |
| `services` | the sizes below | `ServicesTypeOK`; `JtagStreams`, `InterruptsArmed`, `CallsComeNearer`; `AlarmsOnTime`; `ListIsRing`; `StdStreams`, `LockKeepsOut`; `SpiInStep`, `SpiComesNearer`; `AnswerIsWhole`, `ReportsOnce`, `LaunchesAreCounted`; `ProbeIsRight`, `ProbeIsOneStep`; `CallsEnd` |
| `usb_host` | 2 slots, clock wraps at 4, settle time 1 | `TypeOK`, `PollSafe`, `LossIsPending`, `OnlyKeysAreTyped`, `EnumerationAdvances`, `EnumerationEnds` |
| `usb_never_here`, `usb_settle`, `usb_detached`, `usb_hard_wired` | as `usb_host` | one comment each that the code does not keep |

**Bounds.** The movement runs have none: maze, sizes and start positions are
those of the files, and all reachable positions are visited. The keys of
`pacman` are all the codes `pacman.sv` tells apart, with 0 for the rest; a
ghost knows only the space bar. `pacman_live` leaves out left and down to keep
the liveness check small: right and up are enough to reach and cross the
tunnel. `game` is the only bounded one. Five sprites under a player who may
press any key in any frame are too many states, so a key is held for `KeyHold`
frames and a round lasts `MaxFrames`; that is long enough for contacts with
every kind of approach and for Pac-Man to be carried through several turns,
and what it misses is covered for each sprite alone by `pacman` and `ghost`,
and for all sizes by the theorems. `game_refines` can be short because a step
of a sprite depends on its own state and its inputs only.

In `usb_host` two slots are enough for one slot to leak and the other to be
used, and for `NoAddress`; a clock that wraps at 4 with settle time 1 has both
a settle time that ends and one that spans the wrap. The clock counts passes of
the loop. The code has 7 slots, a wrap at 4294967 ms (a 32-bit tick count times
1000, with 1000 ticks a second) and a settle time of 200 ms. The theorems
about the safety properties hold for all of them.

In `services` the rings have 3 places, the FIFOs 1 and a call moves at most 2
characters, so that rings fill, wrap and empty within a call; a host is given up
after 2 seconds, and 6 numbers tell the characters that can be under way apart.
The code has 2048 places, FIFOs of 64 and 10 seconds. The two directions are
checked one at a time: while the program prints the host types one character at
most, and while it reads it prints nothing; and there is one program, as the
build has no threads. The tick count wraps at 5 with two alarms (the code: 2^32;
the theorem: any), which has times before, at and beyond the wrap; an alarm is
asked to wait 0 to 3 ticks, every wait but the longest. The list has
3 entries, a first, a middle and a last. Five descriptors leave two to `main`,
enough for one at and one below `maxfd`. Register accesses move up to 3 bytes.
A transfer gives up after 2 NAKs or 2 losses (200 and 3 in `project_config.h`),
data stages have up to 2 packets, the first of which is not the last, and 3
numbers tell a report from the one before and after. A device has one or two
descriptors before its first interface and up to three behind it, endpoints,
other descriptors and a second interface in any order, so that what comes before
an endpoint is passed and what comes behind it is seen to be ignored; or it has no
interface at all. Each of these devices is there once with sound lengths and once for each
of its descriptors with that one of length 0. That run does
not look for deadlocks: a device that runs, or is in error, or is walked for ever,
is where `HidProbe` ends.

**Fairness.** `WF(Frame)` and `WF(GameFrame)`: the pixel clock never stops, so
the vertical sync goes on, and the reset button is not held down for ever.
`WF(Firmware)`: the loop of `main` never blocks for good, since every wait
inside a transfer has a timeout; the one wait without a timeout, for the
oscillator (`MAX3421E.c:111`), is assumed to end, and so are the probes, which do
unless a device has a descriptor of length 0 (`HidProbe`). `WF(ResetDone)`: the chip
ends a bus reset by itself after 50 ms. Nothing is assumed of the player, of
the devices or of transfers. In `services`: the processor runs (`Driver`,
`SpiStep`, `Launch`, `ProbeNext`), interrupts are taken (`Handler`), the timer
ticks (`Second`) and the SPI core shifts (`Core`). Nothing is assumed of the
host at the other end of the cable, nor of when the program calls a driver.
`IdleIsCaught` assumes that frames go on.

## What the code does not keep

* `pacman_trap`: at (307, 318) three tests close all four exits; Pac-Man gets
  there with two turns and no key moves him again (`pacman.sv` 279, 700, 879;
  comment at 952).
* `usb_never_here`: the error state 0xff is masked to 0xf0, which no case label
  matches; failed enumerations end in the case "Should never get here"
  (`transfer.c` 378-382).
* `usb_settle`: a settle time that spans the wrap of the millisecond count
  never expires (`transfer.c` 277-281).
* `usb_detached`: a connection between the probe and the acknowledgement is
  acknowledged unseen, and the host stays detached with a device connected
  (`MAX3421E.c` 216 and 228, 189 and 190).
* `usb_hard_wired`: a re-attached device gets address 2 while `main` asks the
  "hard-wired USB address" 1 (`main.c` 22, 42, 51).

The drivers have six edges of this kind, of which this program meets the last two only.
An alarm that is to wait 2^32 - 1 ticks gets the count itself as its time, which is
not less than the count: the rollover flag stays clear, and the next tick calls back
(`alt_alarm_start.c` 82 and 89), unless it is the one that wraps. No caller asks for
such a wait. `AlarmsOnTime` fails at once when `Waits` of `services` has `W - 1` too, so
it is left out there and by `NoneWaitsLongest` in the theorems.
`alt_fd_lock` does not look at the highest descriptor (`alt_fd_lock.c:61`), so a
lock is granted although that one is open; `LockKeepsOut` says what a lock is
still worth. A callback that stopped the alarm *behind* it in the list would send
`alt_tick` round that one for ever (`alt_tick.c:102`); the only callback of the
build stops none. An SPI command of no bytes would never end, since the code sets
`credits` to -1024 and waits for an answer (`altera_avalon_spi.c:101`); every
caller moves at least one byte. A
device with a descriptor of length 0 holds a probe, and with it the polling loop and
the keyboard, for ever (`HID.c:49` and 140, and the inner loops); no comment says that
it would not, so this is a hazard and an exception of `CallsEnd` (`Stays`), not a finding.
And a `write` that had to wait returns as soon as it can go on when the last second
saw no host (`altera_avalon_jtag_uart_write.c:187`): with nothing copied yet that
is -EIO, "Host not connected" (line 214), although the host has just taken a
character. What was to be printed is then lost; `JtagStreams` does not count it,
as it was never put into the ring. And a `write`
that gives a host up just before the host is seen again looks again, with the ring still
full; `CallsComeNearer` excepts it, and says that no other wait ends for nothing.

Two properties describe an edge of the behaviour rather than an ideal one.
`OverIsFinal` excludes the mouths of the tunnel: there a sprite without motion
is still carried to the other side, which ends the contact. `NoDeepOverlap`
excludes the columns beside them, where Pac-Man may land on a ghost.
`EnumerationEnds` and `EnumerationAdvances` exclude the wrap that `usb_settle`
shows, and take it that the probes of the device end; the second also leaves out what disturbs an enumeration: a change on the
bus, a bus reset that the chip has not finished, and a flag left over from a lost
device, which sends `main` to the initialisation.

## Proofs

All theorems are checked by TLAPS and hold for every value of the constants
that satisfies the named assumptions. Every safety property of a passing run
is a theorem.

| module | theorem | says |
|---|---|---|
| `PacmanProofs` | `TypeCorrect`, `StaysInPlayfield` | `TypeOK` and `InPlayfield` of `Pacman` |
| | `PacmanClearOfBars`, `PacmanStepsOrTunnels` | `ClearOfBars`, `StepOrTunnel` |
| `GhostProofs` | `GhostTypeCorrect`, `GhostStaysInPlayfield` | `TypeOK` and `InPlayfield` of `Ghost` |
| | `GhostWaitsAtHome`, `GhostMovesOnePixel` | `StaysHome`, `OnePixel` |
| | `GhostClearOfBars` | `ClearOfBars` of `Ghost` |
| `GameProofs` | `GameTypeCorrect`, `GameStaysInPlayfield`, `SpritesStayClear` | the same of all sprites together |
| | `GameImplementsPacman`, `GameImplementsGhosts` | `GameSpec => PacmanRefined`, `GameSpec => GhostsRefined` |
| | `FlagsAgree`, `OverStopsAll`, `OverStays` | `PlayTogether`, `OverHalts`, `OverIsFinal` |
| | `OverlapsStayShallow` | `NoDeepOverlap` |
| `UsbHostProofs` | `HostInvariant` | the inductive invariant |
| | `HostTypeCorrect`, `PollsAreSafe`, `LossStaysPending`, `KeysOnly` | `TypeOK`, `PollSafe`, `LossIsPending`, `OnlyKeysAreTyped` |
| | `EnumerationGetsOn` | `EnumerationAdvances` |
| `ServiceProofs` | `SpiStaysInStep`, `SpiAccessesComeNearer` | `SpiInStep`, `SpiComesNearer` of `Spi` |
| | `AnswersAreWhole`, `ReportsComeOnce`, `LaunchesAreBounded` | `AnswerIsWhole`, `ReportsOnce`, `LaunchesAreCounted` of `Transfer` |
| | `ProbesAreRight`, `ProbesAreOneStep` | `ProbeIsRight`, `ProbeIsOneStep` of `HidProbe` |
| | `PartsRunAsSpecified` | `MCSpec` implies the specification of each part, fairness aside |
| | `PartsKeepTheirTypes` | `MCSpec => []ServicesTypeOK` |
| `JtagProofs` | `InterruptsAreArmed` | `InterruptsArmed` of `JtagUart` |
| | `StreamsKeepOrder` | `JtagSpec => JtagStreams`: both directions implement `Stream` |
| | `CallsGetNearer` | `CallsComeNearer` |
| `HalProofs` | `AlarmsInvariant` | the inductive invariant, when no alarm is to wait the longest time |
| | `AlarmsAreOnTime` | `AlarmsSpec => AlarmsOnTime` under the same condition: the alarms implement `Countdown` |
| | `StandardStreamsStay`, `LocksKeepOut` | `StdStreams`, `LockKeepsOut` of `Files` |
| | `TheListIsARing` | `ListIsRing` of `LList` |

`SpriteProofs` has the lemmas about one step of a sprite and one frame of a
ghost on which the three proofs above it rest.

*Assumptions.* All are named in the module that declares the constants, and TLC
evaluates them for the numbers of the code. The playfield is at least 34 pixels
wide and high and lies within 1..1022 (`PlayfieldAssumption`); Pac-Man starts
inside it (`CenterAssumption`); it reaches beyond the tunnel's mouths
(`TunnelAssumption`, or a landing could be outside); a ghost's home is inside,
or further out with no motion that leads still further (`BreedAssumption`,
which the homes of rghost, bghost and oghost need); a ghost that Reset sets in
motion starts so near the left edge that the first frame stops it
(`StartAssumption`, for rghost); Pac-Man and every ghost start 15 pixels apart
along an axis (`HomesApartAssumption`). Only the theorems about the bars use
these three: the playfield is no larger than the maze (`FrameAssumption`), the
walls of a ghost are one of the five lists of the game, and the home of every
sprite, with the pixel its first motion leads to, is off the islands
(`AfloatAssumption`, `CenterAfloatAssumption`). For the firmware: at least
two slots, a positive wrap, a settle time that is a natural number, and 0 among
the keys. For what it stands on: a tick count of two values or more
(`WordAssumption`), a ring of two places or more and more numbers than places
(`JtagAssumption`), limits of at least one and two numbers or more
(`TransferAssumption`), commands of at least one byte (`BytesAssumption`),
devices whose configurations are sequences of descriptors
(`ConfigurationsAssumption`), waits that fit into a word (`WaitsAssumption`), a
list that is no entry of its own (`EntryAssumption`), and four descriptors or more (`FdAssumption`: with three
`open` would find none for the redirection).

*Movement.* `InPlayfield` is not inductive: at the last pixel it says nothing
about the motion about to be taken. `Bounded` adds that there no motion points
outwards. `BoundedStep` (in `SpriteProofs`) proves one axis of one step by
cases on the coordinate, with `TenBitStep` for the wrapping sum, and
`AdvanceRespectsBlocks` that a closed direction is neither kept nor chosen. The
walls enter only as an arbitrary set of further closed directions, so the
result holds for every maze. In a tunnel frame the edge tests belong to the old
column; `FrameBoundedX` treats the two landings apart. `OnePixel` adds that no
sprite has a motion along both axes (`OneAxis`), and `StaysHome` that before the
space bar there is none at all, but for the first frame of rghost (`Waits`).

*The maze.* That no bar is entered is a fact about the 130 rectangles and is
stated about them, not about every maze. `ClearOfBars` is not inductive: a sprite
may be clear of a bar in a place from which no test stops it, which only cannot
be reached. `KeepsAfloat` says where sprites can be. Bars that touch are joined into
islands; a sprite keeps `Moat` pixels off every island, and so does the pixel
its motion leads to, since the tests one pixel late have closed the direction
that would lead onto it. For each island and each direction the solver goes through the
lists of the code. Islands are needed because the corner between two bars is
closed by either's test only in part. For `StepOrTunnel` the proof must know that
a sprite in the tunnel's columns is in one of the rows the tunnel means: rows 0
to 7 pass the test `InTunnelRow` too, through the borrow, so it uses that the
playfield begins below them (`FrameAssumption`), and that between the
boxes beside the tunnel there is no other way (`LevelInTunnel`).

*Game.* `GameIInv` is the invariant of every sprite. A `GameFrame` is a
`Pacman!Frame` and a `Ghost!Frame` of every ghost for the value of `game_over` it
computes, which gives both refinements. `PlayTogether` and `OverHalts` follow from
what the end of each block does with `play` and with the motions, the late flag of rghost
and the halt of bghost included. `OverStays` needs only the types:
without motion no position changes, so `game_over` computes the same, and
`Advance` sets no motion. `NoDeepOverlap` needs how a contact began
(`OverlapIInv`): sprites that do not touch are 17 pixels apart along an axis, so
the first frame of a contact finds them at 15 or more; it may bring them to 13,
and leaves them still. A landing of Pac-Man in the tunnel may be as
deep as may be, and drifts one pixel before all halt.

*Firmware.* `PollSafe` needs to know why the slot that `main` reads `device`
from is the slot that is polled. `IInv` says: slots are taken from the first on
(`Contiguous`); the last one taken is the one being configured or in use
(`Last`, `InUse`); `flag` is set only while Running or in the few steps in
which a lost device is on its way to `NotRunning`, which clears it (`Leaving`);
after a probe the state is one of five (`AfterProbe`), which bounds what the
increment can do; and a device in use that no longer answers has raised an
interrupt not yet handled (`LossIsPending`). The proof has one step per action.
`EnumerationAdvances` counts the steps to the end of an enumeration
(`StepsToGo`) and needs one thing more: that the settle time is seen to be over in the
pass in which it is, so that the count never jumps (`SettleInTime`).

*Alarms.* The refinement needs to know on which side of the count a time is:
`AlarmsIInv` says that a time not marked as beyond the wrap is greater than the
count, and one beyond it less. Then what is left is positive while an alarm
waits, falls by one with every tick, and is zero exactly when `Due` says so, the
tick of the wrap included. The words have `W` values for any `W`. Both theorems assume
that no alarm is to wait `W - 1` ticks (`NoneWaitsLongest`): the time of such an
alarm is the count itself, not marked, where `AlarmsIInv` has none. The types hold
without that assumption (`AlarmsTypes`).

*SPI.* The loop may send one byte before an answer comes back (`credits`), so at most
one byte is on its way, and it is in exactly one of the three registers of the
core (`OnItsWay`). `SpiIInv` counts: there are as many answers to take as bytes
to send, plus the one on its way. Hence at the end nothing is left
over, and no byte is written over another. `SpiComesNearer` counts down
(`SpiStepsLeft`): ten steps at most for each answer still to come, less those the byte
on its way has behind it (`Flight`). That holds because the loop never goes to a second
half of a turn without a byte on its way (`SpiPace`).

*Transfers.* `TransferIInv` speaks of two endpoints. On endpoint 0 the packets
received are those the device has seen acknowledged, plus one exactly when the
toggles differ (`Received`), and the buffer is the answer up to there. On
endpoint 1 the toggles tell which of two things the report on offer is
(`ReportInStep`): equal, it has not been received; different, it has, and its
acknowledgement was lost. The saved toggle survives failed polls because only a
report received changes it, and SET_CONFIGURATION, which sets the device's toggle
back, comes before the first report is received (`FreshUntilRunning`).
`LaunchesAreCounted` is the same kind of count: each packet still to go
is worth as many launches as the limits allow, less the NAKs and losses already
counted; a launch either counts one more or goes on to the next packet.

*Probes.* The theorems are about every set of configurations. `ProbeIInv` says where
a walk can be: what the outer loop has passed is no interface (`WalkedTo`), so the
first one decides, and what the inner loop has passed behind it is no endpoint
(`DoneFor`), so whatever follows the first endpoint cannot matter; and that
the loop over the drivers has not passed that of a boot device unless a transfer
failed (`NotPassed`). A length of 0 changes none of this, as it moves a walk nowhere.
For `ProbeIsOneStep` the slot keeps no
class but the right one (`WroteClass`): a probe that gave up may have
written it, and when no other driver takes the device either, that is a `Claim` of a
device that could not be configured, not a `NoDriver`. The bound on the steps
(`ProbeStepsLeft`) is what is left of the configuration, with the transfers still to
come, and as much as a whole probe for each driver not yet asked: no walk goes back, so
every step makes it less. It grows with the number of descriptors, and says nothing of a
walk that takes no more steps.

*JTAG UART.* `InterruptsArmed` is not inductive: the read that finds nothing and
waits relies on RE being on, though it passes the same place of the code as the
one that has taken something and will turn it on. `ArmedIInv` tells them apart by
`moved`, and adds that the handler is in its transmit part with WI only while WE
is on. `StreamsIInv` says where every character is: FIFO and ring hold those
numbered between what came out and what was put in, in order; a character copied
or taken whose index has not moved yet is the next one; and the room the program
read earlier is still there, because the handler only makes more. Numbers and places are
counted modulo `M` and `BufLen`, and the `Wrap` lemmas say what that means within one turn.
`CallsComeNearer` counts the steps of a call (`CallStepsLeft`) and of the handler's loop
(`HandlerStepsLeft`). For a call the proof must know that a wait began with the ring
full, or empty, at the index the program remembers (`CallWaits`): so when the index has
moved there is room, or a character, and the handler and the host only make more. For the
handler it must know that whatever the device asks for can be done (`Loops`): RI means
a character in the FIFO, WI a free place in it. A turn then moves at least one, or
finds the ring without room, or without characters, and turns that interrupt off.

*Files.* The search for a lock goes up to `maxfd` or below it, so the proof needs
where descriptors can be (`LocksInPart`): an open one is at `maxfd` or below, and
one that shares a locked device is above the holder of the lock. Until `main` only
the standard streams are open and nothing is locked (`BootInPart`), so the
redirection cannot fail. That a first free descriptor exists when any is free uses
the well-foundedness of the natural numbers.

*List.* `LListIInv` names the order of the ring: a sequence of distinct entries that
`next` leads through and `previous` leads back through (`RingOf`); an entry outside
points to itself both ways, or nowhere, so that removing it again does nothing. A
walk is at a place of the sequence, and has still to come to what is there and behind;
an insertion moves the places behind the front by one, a removal closes the gap. There
may be any number of entries, an infinite set included: those in the list are finitely many.

*Composition.* `PartsRunAsSpecified` says that putting the seven services side by side
takes none out of its specification, so what is proved of each holds where TLC
checks it. `PartsKeepTheirTypes` needs, besides the invariants above, `JtagTypes`
(which call is under way bounds its counters), `AlarmsTypes` and `ProbeTypes` (a driver
fails once at most).

*Only model-checked.* The liveness properties `ComesToRest`, `IdleIsCaught`,
`EnumerationEnds` and `CallsEnd`, since the prover has neither fairness nor
ENABLED. Of the last two the other half is proved for all
sizes: no step goes back, and there is a bound on the steps (`EnumerationAdvances`,
`SpiComesNearer`, `LaunchesAreCounted`, `CallsComeNearer`, `ProbeIsOneStep`); what
TLC adds is that a step is always possible and taken, but at a descriptor of length 0,
and that a wait ends. The five findings are counterexamples of TLC.

## Not modelled

* Points, score and everything drawn: no property of the game reads them.
* The deadline of `XferDispatchPkt` (`transfer.c:144`): the chip answers every
  launch within milliseconds, so it passes only if the chip has stopped. Reports
  of more than one packet and OUT transfers with data, which the code refuses.
* The wait for the oscillator, assumed to end.
* The ioctl of the JTAG UART, which nobody calls.
* In the board support package: dispatch of interrupts by a table that is written
  once, the heap pointer, formatted output, the copying of sections at start-up,
  stubs that return an error, and everything the build switches off (logging,
  profiling, timestamps, DMA, flash). More than half of the package's lines are of
  this kind or comments, and most of the rest of the C sources is constants.
* Several threads: the build has no operating system, and the semaphores are
  empty macros.

## Plan

1. done: movement, ghosts, game, firmware, transfers, probes, drivers, with the
   runs and theorems above.
2. `Dots`: sticky eaten flags against Pac-Man's path, the implicit one-bit nets
   of `dots.sv` and `collision.sv`, the 8-bit score (241 + 50 wraps), and
   whether every point can be reached; composed with `Pacman`.
3. `Vga`: the counters and syncs of `VGA_controller.sv`, and that every 800 by
   525 pixel clocks there is one rising edge of the vertical sync.
4. done: the types of the seven services for every size of theirs, and one step of
   `UsbHost` (claim a device, or find no driver) implemented by `HidProbe`; a count of
   steps for every call that must come back.
