# A specification of the ECE 385 Tetris and its labs

The repository holds the work of a digital-systems course: three labs on an
FPGA with a soft processor, and a final project, a game of Tetris written
entirely in SystemVerilog. This directory specifies in TLA+ the final project,
the USB host software of lab 8, and from lab 9 the AES software with its
hardware and the driver its input and output go through. TLC checks them on
small instances; TLAPS proves, for every value of the constants, nearly all of the safety
properties: those of the game and its playing field, of the keyboard decoder and of
the bit-level receiver that implements it, of frame pulses and generator, of the USB
host and the lists it has run, of the JTAG driver, which implements two queues, and of
AES, whose hardware gives any message back that the software has encrypted.

Paths of the game are relative to `src/Final Project Tetris/Code Files/`; `lab8`
stands for `src/lab8_provided_code/software_codes`, `lab9` for `src/lab9`, and
`bsp` for `src/lab9/software/lab9_app_bsp`.

## 1. The system

### Components

| component | state | operations | talks to |
|---|---|---|---|
| `block_motion.sv` | position, motion, two delay counters, edge detector of the frame clock | one combinational decision per frame pulse; registers reload at the start position on reset or landing | reads `board`, the shape, the key; tells `choose_block` and `board` that the piece is `at_bottom` |
| `rotate_block.sv` | eight states: four orientations, each with a wait state | turn requested when W goes down, made when it comes up | reads the position and the size of the piece |
| `choose_block.sv` | `new_shape`, `block_sel` | draws a piece from the LFSR on the edge after a landing | names the shape and its bounding box to everyone else |
| `board.sv` | 22 by 11 cells, score | paint a landed piece; remove one complete line per clock edge; reset | read by `block_motion` and `Color_Mapper` |
| `LFSR.sv` | eight bits | shift; reset to ones | read by `choose_block` |
| `keyboard.sv` | two byte registers, bit count, the shown key, the repeated key | samples the keyboard's clock, shifts a bit per pulse of it, decodes when 11 have come | shows `press`, `keyCode` to the game |
| `VGA_controller.sv` | pixel and line counters, sync outputs | one step per pixel clock | `VGA_VS` is the game's frame clock |
| `tetris_top.sv` | the registered reset button | wiring | |
| `Color_Mapper.sv`, `colors.sv`, sprite memories, `HexDriver.sv` | none | combinational drawing | |
| `lab8/main.c` | the request it is at, retry counters, data toggle, the transfer list it has written | enumerate a keyboard in nine requests, then poll it; start over when it is pulled out | writes the CY7C67200's memory and registers through the HPI port; sends key codes to the game hardware |
| `lab8/usb.c` | the lists it writes into the controller's memory | one function per request; `UsbWaitTDListDone`, `UsbGetRetryCnt`, `UsbSoftReset` | called by `main.c` |
| `bsp/drivers/src/altera_avalon_jtag_uart_*.c` | two ring buffers, interrupt enables, timeout, idle count | `read`, `write`, `ioctl`, `close`; an interrupt routine; an alarm | shares rings and control register between the program and the routine; the device's FIFOs with the host |
| `lab9/software/lab9_app/main.c` | AES state and key schedule | read a message and a key, encrypt, write both to the hardware | types and prints over the JTAG UART; writes the register file |
| `lab9/*.sv` | register file, clocked byte tables of `KeyExpansion` | bus reads and writes; inverse AES steps; `AES.sv` is empty | |
| `src/lab7` | LEDs, `key_held` | accumulator over push buttons, called by nothing | |
| `lab8.sv`, `ball.sv` of lab 8 | position of a ball | the template `block_motion` grew from | |

Everything in the game is clocked by `Clk`. There is no handshake between its
modules: each relies on the others having finished within a number of clock
edges, and the only slow clock is the frame pulse, one edge in about 840000.

The software of lab 8 is one thread that busy-waits on a controller which runs
the lists it was given by itself, on behalf of a keyboard that may be pulled out.
The driver of lab 9 has no operating system either; what is concurrent is one
program, one interrupt routine, a timer, and the host at the other end of the
cable. The AES program is sequential; its hardware follows the registers some
clock edges behind.

### What is hard

* **Order of nonblocking assignments.** In `board.sv` the chain that removes
  complete lines follows the paint branch and the reset branch, so it wins
  over both (line 158). Whether a landing can be lost depends on how far apart
  two frame pulses are.
* **Decisions used later than they are taken.** The sideways step adds the
  motion register of an earlier frame (`block_motion.sv:547`); landing tests a
  motion that an earlier orientation set to zero (line 79); the room for a turn
  is checked when the key goes down and used when it comes up
  (`rotate_block.sv:30`, `38`).
* **Tables typed four times.** Which cells a shape covers is written in
  `board.sv`; which cells it must find free in `block_motion.sv`, three times;
  its size in `choose_block.sv`. Nothing makes them agree.
* **Indices without a range.** `board[...]` is indexed by expressions that the
  code never bounds.
* **Keyboard protocol.** Presses, releases and repetitions of several keys
  share one stream of bytes and one register.
* **Reset.** It restarts the video timing, which produces a frame pulse of its
  own, and it competes with line clearing.

* **Retries of what may have been done.** `lab8/main.c` writes a list again
  every 10 ms, over the one the controller may be running or may just have completed, until a
  message comes; the message does not say which of them it is about, and neither does
  the control byte, which is the first TD's.
* **State that outlives what it describes.** The mailbox that still shows the last
  answer, the report buffer that still holds part of a list, the toggle of a
  keyboard that has been pulled out.
* **Old copies of shared indices.** `read` and `write` of the driver decide on
  copies of both ring indices; the interrupt routine moves them meanwhile, and
  turns its own interrupts off when it thinks nothing is left to do.
* **Waits.** Every wait of the driver and of lab 8 is a loop; some have a limit,
  some have one only with a timer.
* **Two implementations of one algorithm.** AES in C and its inverse in
  SystemVerilog, with all tables typed twice.

What must hold of each component: a piece stays within the board's bounds as
far as the code promises; decisions read exactly the cells that matter; the
board changes only by whole pieces, whole lines and resets, and no landing is
lost; every piece lands eventually; the keyboard never sticks and never ignores
a first press; the generator offers every piece; frame pulses keep their
distance; the USB controller, unless it is late, only ever runs what was written for it, each
completion is taken for its own request, and a keyboard that stays in gets
enumerated; characters pass the driver in order and each call returns;
hardware and software of lab 9 undo each other. Section 3 says which property
states which.

## 2. Modules

| module | models |
|---|---|
| `Tetrominoes` | the tables: `ShapeTable`, `Width`, `Height` (`choose_block.sv`), `Cells` (`board.sv`), `BelowTable`, `LeftTable`, `RightTable` (`block_motion.sv`) |
| `BoardOps` | complete rows, the first one the if-chain takes, removal of a row |
| `Playfield` | abstract specification: what the board promises its users |
| `Tetris` | the game core: one step is one edge of `Clk` |
| `TetrisProperties` | properties of the core, and its refinement mapping to `Playfield` |
| `MCTetris` | a bound on the height of stacks for TLC |
| `TetrisProofs` | theorems about the tables and the core |
| `Keyboard` | `keyboard.sv` per byte, with keyboard and player |
| `PS2Receiver` | `keyboard.sv`, `11_reg.sv`, `Dreg.sv` bit by bit in front of that decoder; implements `Keyboard` |
| `KeyboardProofs` | theorems about the decoder, and that the receiver implements it |
| `LFSR` | `LFSR.sv` bit by bit and the selector taken from it |
| `FrameTiming` | `VGA_controller.sv`, the edge detector of `block_motion.sv`, the reset button |
| `GameClock` | generator and frame timing composed, on one clock and one reset |
| `GameClockProofs` | theorems about frame timing and the composition |
| `UsbTransfers` | `usb.c`: every list word by word, and the controller running it from memory |
| `UsbHost` | `main.c`: enumeration, polling, hot plugging, against controller and keyboard |
| `MCUsb` | the worlds `UsbHost` is checked in |
| `UsbTransfersProofs` | theorems about the lists and what the controller runs |
| `UsbProofs` | theorems about `UsbHost` in every world |
| `CharChannel` | abstract specification: one direction of the driver as a queue |
| `JtagUart` | the driver, its interrupt routine and alarm, the device, the host |
| `MCJtag` | what the driver is used for in the runs |
| `JtagProofs` | invariants of the driver |
| `JtagChannelProofs` | both directions of the driver implement `CharChannel` |
| `AesTables` | the S-box and its inverse |
| `Aes` | `encrypt` and its helpers, the register file, `KeyExpansion`, the inverse steps |
| `MCAes` | three texts with what encryption must give |
| `AesProofs` | the hardware undoes the software, for every message and key |

### Tetris

Every register of the four modules is a variable, named as in the code. `rotation`
and `waiting` encode the eight states of `rotate_block`. The positions are in
cells: a piece moves by `Step_Size` = 9 pixels, so `X_Pos` in the code is
270 + 9 * `X_Pos` here, `Y_Pos` is 135 + 9 * `Y_Pos`, and a size of 9w + 1
pixels is w cells; each comparison with a pixel constant was turned into one of
cells on that basis. `board` is the set of occupied cells, because the
colours are only ever compared with zero.

A step is one of

* `IdleEdge`: a clock edge without a frame pulse. `choose_block` may draw,
  `rotate_block` may change state, the board may lose a line.
* `LandEdge`, `MoveEdge`: an edge with a frame pulse, on which the piece is or
  is not found to rest. Every module takes its step on the same edge, from the
  old values of all the registers.
* `ResetEdge`: an edge with the reset button down. The keyboard is not part of
  it (its `press` register has no reset).
* `KeyEvent`: `keyboard.sv` shows another key, between two edges. Only what the game distinguishes
  is kept: no key, A, D, S, W, or another one.

Three choices deserve a word.

*Time.* `frameWait` counts the edges that must still pass before the next frame
pulse: at least `FrameGap` after a pulse, at least `ResetGap` after a reset.
`FrameTiming` shows that the pulses of the video controller keep such distances.
`resetHeld` makes a press of the button last `ResetHold` edges.

*Reads outside the board.* The synthesis tool may deliver anything, so such a
read is an arbitrary boolean (`stray`). A single value is chosen for all the
cells of one test, which loses nothing because a test is a disjunction. Landing and motion choose their values separately, which only
adds behaviours.

*Writes outside the board.* A painted cell beyond the right edge is dropped or
lands where a flattened index puts it (`Strays` in `Playfield`); one below the bottom is
dropped.

`Playfield` says of a landing (`Settle`) what the board is afterwards: what it was, every
cell of the piece that is on it, and nothing else but strays, which only a piece past the
right edge has.

### Keyboard and PS2Receiver

One step of `Keyboard`'s decoder is one received byte: both shift registers move and
the decoder looks. Registers are assumed to power up cleared. `PS2Receiver` puts the
bits in front of it: the keyboard's clock line falls and rises, 11 times in a frame;
`Tick` is a pulse of `enable`, which samples the line, counts falling edges and clears
the count; `Rise` shifts the two registers; `Look` is the decoder applied to bits 9 to 2
of both. It shares `Keyboard`'s variables, `wire` holding the bytes not decoded yet, and
`DecodesBytes` is `Keyboard`'s specification: every step is one of `Keyboard` or
changes nothing there. Falling edges are counted and rising edges shift, so `Count` is
11 when data bits are at 9 to 2, one shift before the registers hold the
frame. That works as long as a third pulse of `enable` comes before the line rises:
`MinLow` = 3. Pulses are 10.24 microseconds apart and a keyboard holds its clock low for 30
to 50, so three pulses fit from 30.72 on; with `MinLow` = 2 TLC shows a byte read one
bit off.

A reset in `PS2Receiver` comes while the keyboard is silent. One that cuts a byte short
is there by its effect: in the initial states with `ready` FALSE, `Count` and the
registers are as such a reset and the bytes after it may have left them (what the game
has been shown by then is not part of it), and the player waits for a reset.
`DecodesBytes` holds from there on.

Every key has a code of its own (`KeyboardAssumption`). In scan code set 2 some extended keys
have the code of a plain one behind E0, and the decoder, which keeps the code only,
cannot tell the two apart; the game uses plain keys.

### FrameTiming and GameClock

`VGA_CLK` is half of `Clk` and in phase with it. `frameWait` here runs as it
does in `Tetris`, and `PulseOnlyWhenDue` says it has run out whenever a pulse
acts: this is what allows `Tetris` to admit pulses by the counter alone. In a
frame of H by V pixels with sync ending at line S, the shortest distance is
between the pulse that follows a reset and the first regular one. It is
2HS - 3 edges between them in the run, and `FrameGap` = 37 is tight for its
H = 4, S = 5. For the real 800 by 492 the same formula gives 787197.

`GameClock` adds the generator on the same clock and reset. `choose_block` looks
at it once per piece, after a frame pulse, so what a player can get are the values
at one phase of the frame. A frame of 48 edges in the run, and one of 840000 on the
board, share no factor with the generator's period 31.

### UsbTransfers and UsbHost

The two split lab 8 by what they look at. `UsbTransfers` has the data: the words
each function of `usb.c` writes, the controller's memory, and a controller that
takes a transfer descriptor (TD) from wherever its next pointer says, runs it,
lets an IN overwrite its buffer, and goes on. With it comes all that decides when `main.c`
writes what: the flag in HPI_STATUS, the message register, read and zeroed in two accesses,
the control byte at 0x508, the sleeps, and the restart after a retried SetAddress or a
removal. `main.c` never asks whether the controller is idle, and the model does not
either: a list may complete between the look at the flag and the repetition
and run a second time, 0x508 may read 0x03 from the first run while the second is at
its second TD, and the next list is then written under it. The history variable
`overtaken` says that `main` has left a request which was still being run. Two things
are then separated:

* As long as it has not, `OnlyItsTDsRun`, `ControlTransferShape` and `SpeaksToItsDevice`
  hold, with repetitions before and after completion, retries, a keyboard pulled out
  between any two TDs, and messages left over from runs before.
* That it never does is `NeverOvertakes`, claimed of a behaviour that is `punctual`: what is
  sent again is done by the end of the 10 ms `usleep` behind it (`main.c:212`), and the
  endpoint words that `main.c:349` gives to the controller as a list are not reported as
  one. Nothing in the code checks either. Otherwise the three may fail, as
  section 4 says, and what happens then depends on what the chip makes of
  half-written lists.

`FollowOvertaken` says whether a behaviour goes on after `main` has overtaken the
controller. The properties speak of states before that, so the run lets TLC stop there; the proofs
cover both values. Assumed of the chip and the keyboard, which are external: the first TD's
control byte is what is written back; the keyboard answers a TD iff it carries its
address; a list ends, with a report, where nobody answers; an access of the program is a
single access. The first poll may have either toggle, since `toggle` outlives a restart.

`UsbHost` has the control flow of `main` against keyboard and cable: its variable `pc` is a label
for each place between two accesses to the chip, named after what happens there;
`stage` counts the nine requests and the polling loop. `UsbGetRetryCnt` and
`UsbWaitTDListDone` are several labels each, because reading the message register
and zeroing it are two accesses.

What the chip and the cable may do in `UsbHost` is the constant `Worlds`, one of which is chosen
in `Init`: whether an answer may come late (`prompt`), whether transfers need
retries (`glitch`), whether the endpoint words that `main.c` points the controller at
may be reported as a finished list (`stray`), and at which labels the keyboard is
pulled out and put back. The chip is modelled from
how the code uses it; `UsbRead`, `UsbWrite`, `IO_read`, `IO_write` have empty bodies
(they were a lab exercise) and count as one access each. A controller that is given a
new list drops the old one.

### JtagUart

An action of the program is what it does from one access to shared data to the
next: `ReadSnap` takes both indices, `ReadCopy` copies, `ReadUpdate` stores the
index, and so on; `pc` says which is next. Locals that are dead are left as they
are. Copying several slots is one action, because the routine never touches a slot
that is being copied: that is `SlotsApart`, and it is proved. The routine likewise
goes from one register access to the next; it runs to its end before the program goes
on (`isr = "out"` in `Program`), and so does the alarm. The application and the
board support package are compiled without optimisation
(`lab9_app_bsp/Makefile:141`, `lab9_app/Makefile:165`), so accesses happen in
program order. The compiled branches are those of a system without threads;
`ALT_SYS_CLK` is none (`system.h:202`), so on this board no timer can be started:
`HasTimer` is a constant, and both values are checked.

The device is the generated `lab9_soc_jtag_uart_0.v`: it asks to be filled when at
most `Threshold` places of the transmit FIFO are used (line 436; 8 of 64 there), and to be emptied
when at most that many of the receive FIFO are free or the host has paused while
something was in it (`pause_irq`, lines 440-449), which a read of the data register takes
back; the activity bit is set by what the host sends and by its pauses, not by what it takes
(line 439). Its registers lag behind the FIFOs by a clock or two, which the model leaves
out: an access sees the FIFOs as they are. In particular a read of the data register is one step,
though its valid bit and its count are taken a clock apart (lines 511, 520): a
character that arrives between them would make the routine switch reception off
with room in the ring. Whether one can depends on the vendor's `scfifo`, whose source is not in the
repository.

`Uses` restricts a behaviour to some calls, some host actions, a character set and
a length, because TLC cannot take all of them at once. The proofs hold for any
`Uses` within the assumption, hence for all of them together.

Four history variables hold the piece each end last put in or took out. They exist
for the refinement: `ReceivesInOrder` maps ring, FIFO and a copy in progress to
`CharChannel`'s `queue`, `SendsInOrder` the other direction.

### Aes

Blocks are functions on 0..15, words tuples of four bytes, and the expanded key a function
on 0..43, as the array of the source. One action per turn of the loop of `KeyExpansion`
and per step of `encrypt`, one per word written over the bus, one per clock edge of the hardware,
and the reset button at any time. `AES.sv` is an empty module, so nothing in the
repository instantiates `KeyExpansion` or the inverse steps; the model attaches
`KeyExpansion` to the key registers and the steps to the message registers, in the
order the register map at the head of `avalon_aes_interface.sv` foresees, and checks that
hardware built that way would decrypt. Two timing
assumptions: typing a message takes longer than ten clock edges (`Scan`), and at most
`Between` edges pass between two writes, which only limits TLC's work, since further
edges change nothing once the tables have settled. Exclusive or is written out as a sum
of bits without carry, held in a table that TLC computes once.

## 3. Runs

| run | configuration | properties | what it asks |
|---|---|---|---|
| `game` | O and I pieces, 4 x 4 board, full stacks, one row never tested, all keys, fair clock | `TypeOK`, `ColumnsBounded`, `RowsBounded`, `QuietAtFrame`, `ResetEmpties`, `BoardIsAPlayfield`, `PiecesKeepComing` | how far can a piece get; do painting, clearing and reset collide; can a player keep a piece up |
| `tables` | Z, S, L, J, T, one landed piece, 5 x 4 | `FallIsClear`, `DecisionMatchesBoard` | do the tables agree |
| `keyboard` | two plain keys, one extended, 4 bytes on the wire, bit by bit | `DecodesBytes`, `ShownKeyIsDown`, `IgnoredKeyIsDown`, `LetGoIsSeen` | is every byte framed right; stuck or ignored keys |
| `game_clock` | 4 x 6 pixels, all 256 values of the generator, resets at any time | `PulseOnlyWhenDue`, `OnePulsePerFrame`, `FramesKeepComing`, `PlaysUnlocked`, `EveryPieceAtFrames` | when do pulses come, and which pieces with them |
| `usb_transfers` | all lists, sent again at any time, punctual or not; retries, removal and restarts | `NeverOvertakes`, `OnlyItsTDsRun`, `ControlTransferShape`, `SpeaksToItsDevice` | what does the controller really run, and does `main` go on too early |
| `usb_host` | three worlds: calm with hot plugging, retries, anything at any time | `TypeOK`, `SaysDoneWhenServed`, `MessageUsedOnce`, `TogglesAgree`, `AddressedAfterSetAddress`, `Enumerates` | does enumeration stay in step with the keyboard |
| `jtag` | ring of 3, FIFO of 2, threshold 1, each direction with two characters, both with one | `SlotsApart`, `FifoHasSpace`, `ReceiveNotStuck`, `TransmitNotStuck`, `ReceivesInOrder`, `SendsInOrder` | program against interrupt routine |
| `jtag_calls` | ring of 2, FIFO of 2, threshold 0, a timer, a host that comes and goes | `ForeverIsForever`, `CallsReturn` | which waits end |
| `aes` | three texts, resets at any time | `MatchesStandard`, `ScheduleSettles`, `DecryptsToMessage`, `StepsUndone` | software against standard, hardware against software |
| `turn_late`, `slide_stale`, `usb_retry` | small boards; a keyboard pulled out during a request | `TurnStaysOnBoard`; `SlideIsClear`; `SentAgainUntilProcessed`; each violated | see section 4 |

The bounds. Every shape of the game appears in some run, on a board at least as
large as the longest side of its pieces. Delays are 1 to 3 frames instead
of 6, 5 and 50: the order of a sideways and a downward step, and
pressing the fast key before and after its count has passed, all occur. `ClearTop`
leaves at least one row that is never tested. `StackBound` stops exploring from
boards with more than `MaxCells` cells (one landed piece in `tables`;
`game` is not limited by it). The score counts modulo a small
number, and its wrap occurs in `game`, which also keeps the hypotheses of the
theorems: `FrameGap` = `Rows` and `ResetHold` = `Rows` + 1.

`usb_transfers` is bounded by `FollowOvertaken` = FALSE alone: the lists are what they are. The one word
that a keyboard sends (`Received`, hexadecimal 404) is chosen for TLC to differ from every
word of a list; the proofs are about any word. `UsbHost` is finite as it stands.
A ring of 3 slots wraps with a copy of one and of two characters and fills with
two; a FIFO of 2 is half full, full and empty while the routine uses its old count. With
`Threshold` 1 it asks when one place is used or free, with 0 only when it is empty or full, so
that a single received character waits for the host's pause.
`IntMax` = 4 lets the idle count saturate. The texts of `aes` are that of
`lab9/test.txt`, that of appendix B of FIPS 197 typed in upper
case, and the benchmark's.
Deadlock is checked in every run but `usb_transfers`, where TLC stops behind `overtaken`
and where the program can really hang: `UsbGetRetryCnt`, once it has zeroed a message, waits at
`lab8/usb.c:565` for one more flag, which an idle controller never raises.

Fairness. `PiecesKeepComing` assumes that clock edges without a pulse and frame
pulses that are due eventually happen (`WF` of `IdleEdge`, and of `LandEdge` or
`MoveEdge`): the clock is an oscillator, and `FramesKeepComing` shows the pulses
come unless the button is pressed. Nothing is assumed of the player. `LetGoIsSeen`
assumes a clock and that the keyboard sends what it has begun; `GameClock` assumes only its
clock. An eternal reset satisfies `PiecesKeepComing` because it raises
`new_shape`; `EveryPieceAtFrames` is about behaviours whose resets end.
`Enumerates` assumes that the program runs on and that the controller answers and
finishes its lists; a poll is exempt, for a keyboard answers it when it has
something to say. `CallsReturn` assumes that the program and the routine run on, that
the timer ticks, and that a connected host keeps reading and sending and pauses now and
then (it is what empties a FIFO that is not nearly full).

## 4. What the code does not keep

Three comments in the source say more than the code does. Each has a run in
which TLC finds a counterexample.

* `turn_late`: a turn that fitted when W went down is made when it comes up,
  after the piece has fallen, and puts cells below the bottom row.
* `slide_stale`: a piece enters an occupied cell sideways, on a motion decided
  in an earlier frame.
* `usb_retry`: "Call the appropriate function again if it wasn't processed
  successfully" (`lab8/main.c:210`). The loop does so until the flag is up
  (`main.c:208`), and the flag comes for a list that was given up as well: with the
  keyboard pulled out while `main` sleeps behind SetAddress, GetDeviceDesc1 fails, and
  `main` leaves the loop. The control byte is then read at line 223 for ever if it was the
  first TD that failed, and nothing sends the request again.

The models also show these, which no run singles out:

* A piece may end one column past the right edge (`block_motion.sv:527`, `547`);
  `ColumnsBounded` says never more than one.
* A piece that lay on the floor and is turned lands where it is, with nothing
  beneath it (`block_motion.sv:78-79`).
* A USB request that completes just after `main` has looked at the flag is sent and
  run once more, and its second message is taken for the answer to the next
  request (`lab8/main.c:369`, `382`). `MessageUsedOnce` is
  therefore claimed for a punctual controller (`Punctual`: done within a `usleep`, and
  reporting lists only), `SaysDoneWhenServed` for one in a world without retries in which
  the keyboard is pulled out between requests (`Calm`). If the second run
  takes longer than the sleep, the next list is written under it; SetAddress run twice may so
  go to address 0 while the keyboard has 2, or take up TDs of the next list
  (`NeverOvertakes` and `overtaken` of `UsbTransfers`).
* A poll that completes without data leaves at 0x051E what was there, before the
  first report a word of an old list, and `main.c:516-522` sends its low byte to the
  game as a key.
* `main.c:349` points the controller at the five words of an endpoint descriptor as
  if they were a TD.
* After a replug the host's toggle may disagree with the new keyboard's DATA0
  (`lab8/main.c:471`). `TogglesAgree` is claimed for a keyboard
  that stays in, answered promptly.
* `altera_avalon_jtag_uart.h:96` and `altera_avalon_jtag_uart_write.c:204-214` describe a
  timeout after which the host counts as absent; a blocked `write` gives up as soon as the idle count is not
  zero, that is after the first idle second (`altera_avalon_jtag_uart_write.c:187`).

Beyond those the game makes no promise about turning into the stack
(`rotate_block.sv` does not read the board) or about a full board
(`block_motion.sv:47` starts a piece over whatever is there).

The generator has period 31 after a reset, so the pieces are not equally
frequent; only that each comes is checked.

## 5. Proofs

The first part of `TetrisProofs` checks the tables entry by entry. `TablesFit`: a piece
moved down covers only cells it covered before and cells the landing test reads; moved
sideways, it covers its old cells and cells the key's test reads, and every cell
read would be covered. `ShapeSizes`, `CellsInBox`: a quarter turn exchanges the
sides, and the cells lie in the bounding box.

Its second part proves, for every board, delay, set of pieces and keys that
satisfies `GridAssumption` and `TetrisAssumption`:

| theorem | property | hypothesis |
|---|---|---|
| `TypeCorrect` | `TypeOK` | |
| `ColumnsCorrect` | `ColumnsBounded` | |
| `RowsCorrect` | `RowsBounded` | |
| `QuietCorrect` | `QuietAtFrame` | `EnoughTime` |
| `ResetCorrect` | `ResetEmpties` | `EnoughTime` |
| `PlayfieldImplemented` | `BoardIsAPlayfield` | `EnoughTime` |
| `FallCorrect` | `FallIsClear` | `EnoughTime` |
| `DecisionCorrect` | `DecisionMatchesBoard` | `EnoughTime` |

`EnoughTime` is `FrameGap >= Rows` and `ResetHold > Rows`; the hardware has 22
rows, at least 787197 edges between pulses, and a press of a button lasts
milliseconds, at 20 ns an edge.

The argument rests on one inductive invariant, `IInv`:

* `PlaceInv`. The bounds are not inductive: why does a piece at column 0 with a
  motion to the left not leave the board? Because it has just arrived, its
  counter is 0, and the next frame clears the motion before the counter reaches
  `XDelay`. The same holds at the bottom. On the right the counter need not be 0,
  because turning makes a piece wider without touching the counter; there the
  invariant says that a piece sent right is still inside, so it goes one column
  too far at most. Lemma `TurnFits` is the heart: a piece gets wider only on the
  edge on which W is accepted, and then `rotate_block.sv:44` has just checked the
  room. A piece that has not been drawn yet stands at the start (`FreshInv`), so
  a change of shape cannot push it out.
* `BoardInv`. While complete lines remain after a landing, each edge since has
  made one more row at the top blank; a complete row lies below the blank ones,
  so after `Rows` edges there is none. The same counts the edges of a reset.

`PlayfieldImplemented` says that each piece that lands is on the board afterwards with all
its cells on it, that nothing else is added but strays of a piece past the right edge, and
that lines leave whole and are counted. It maps the abstract `wanted` to "a piece has been called for,
and not by a reset": a landing must be a `Settle` step, which `QuietAtFrame`
makes possible. `FallCorrect` and `DecisionCorrect` combine `TablesFit` with the
geometry of the board; they quantify over all nineteen shapes.

`KeyboardProofs` proves, for any set of keys and any length of the wire,
`TypeCorrect` (`TypeOK`), `ShownCorrect` (`ShownKeyIsDown`) and `IgnoredCorrect`
(`IgnoredKeyIsDown`). The two properties speak of a release that is on its way, so
the invariant must say what the wire can hold: a release prefix is never
the last byte and a code follows it (`ReleaseHasCode`), and behind the make code of
a key that is up its release still comes (`MakeHasBreak`). The latter is what a make code
arriving late relies on.

Its second part proves `DecodesCorrect` (`DecodesBytes`): for any codes of keys and
any `MinLow` from 3 on, every step of the receiver is one of `Keyboard` or changes nothing
there. Hence `ReceiverShownCorrect`: the two properties above hold with the bits in
between. `MinLow >= 3` is the hypothesis that the line stays low for three pulses of
`enable` (30.72 microseconds); TLC refutes the property for 2. The
invariant `ReceiverInv` reads the registers as one chain of 22 bits (`Chain`) into which
the frame on the line pushes, so `RegistersInv` can say after any number of shifts where the
byte decoded last and the one coming in stand. `CountInv` says how far `Count` is with
the frame: it follows from how long the line has been where it is and what
the two samples of it are. `WireInv` says the byte on the line is the head of the wire
until it is decoded. Lemma `DataBits` puts a byte together from its bits again.

`GameClockProofs` proves `UnlockedCorrect` (`PlaysUnlocked`) for every frame size: the
board starts in reset, a reset loads ones, and from a register whose five low bits are
not all zero a shift makes another such. It also proves `SinglePulseCorrect`
(`OnePulsePerFrame`), and `PulseCorrect` (`PulseOnlyWhenDue`) under `PulsesApart`:
`FrameGap` is at most 2HS - 3 for H pixels a line and sync ending at line S, which is 787197 on
the board; `ResetGap` is at most 2; the button is down for two edges at least. The
invariant has the time to the next pulse in closed form (`EdgesLeft`: twice the pixels left, plus
one if `VGA_CLK` is low, with the pixels counted from the two counters), and says that
the countdown `frameWait` never exceeds it (`DueInv`). The rest is why the closed
form goes down by one with each edge: where in the frame `VGA_VS` can be low (`VideoInv`),
where the detector can be one or two edges behind it (`DetectorInv`), and that a reset
has stopped a pulse that was on its way before the button is up (`ResetInv`).

`JtagProofs` proves `TypeCorrect`, `SlotsCorrect`, `SpaceCorrect`, `ForeverCorrect`,
`ReceiveCorrect` and `TransmitCorrect`, which state `TypeOK`, `SlotsApart`,
`FifoHasSpace`, `ForeverIsForever`, `ReceiveNotStuck` and `TransmitNotStuck`, for
every size of ring and FIFO, every timeout and every use, from
`JtagUartAssumption`. `Inv` adds to the types what a call in
the middle of a copy knows: `Reading` (the slots it copies are contiguous, start at the
ring's own index and the routine's index is outside them) and `Writing` (the same for
free slots, one of which stays free), and `SpaceLeft`, that the count of free places is
good from the moment it is read. It is enough that each side moves one index only,
and the routine's side never passes the other's. On top of it `ReceiveStep` and
`TransmitStep` are inductive by themselves.

`JtagChannelProofs` proves `ReceiveImplemented` (`ReceivesInOrder`) and
`SendImplemented` (`SendsInOrder`): each direction of the driver implements
`CharChannel`, for every size of ring and FIFO and every use. Its first part is
the algebra of a ring read as a sequence of characters: how long it is and
where each character stands (`RingShape`), what filling free slots appends
(`RingAppend`, `RingPush`) and what moving the other index drops (`RingTake`, `RingPop`).
Its second part goes through the steps: a reader's copy is the channel's `Get` and its
later index update changes nothing, a writer's copy is `Put`, and the interrupt routine
moves a character over the border between ring and FIFO, which the channel does
not see (`MoveHead`). `Reading` and `Writing` are what makes the old copies of the
indices good enough.

`UsbTransfersProofs` proves `InTime` (`NeverOvertakes`), `OwnTDsCorrect`
(`OnlyItsTDsRun`), `ShapeCorrect` (`ControlTransferShape`) and `DeviceCorrect`
(`SpeaksToItsDevice`), for any word the keyboard fills its buffers with. Its first part
looks at each list of `usb.c` word by word: every TD names the next one, and its buffer
lies behind the list (`Linked`); its PID, toggle, length and address are what USB asks
for in its place (`Proper`). Its second part is one invariant over the index of a list and
of a TD, which is inductive because it says no more than it must of a behaviour in
which `main` has overtaken the controller.

* `ProgramInv` relates where `main` is with the list it is at and the one started; it holds always.
* `MemoryInv`: the list that has been started is in memory word for word, also while it
  is being written again and data comes in. `ControllerInv`: what has been run is the
  first TDs of the list, the next pointer stands at the one after, and the controller is
  idle when `main` is at another request. `AddressInv`: a control byte of 0x03 with a keyboard
  still at address 0 means that SetAddress is between its two TDs or has been
  started again; hence `main`, which looks at the first TD's byte only, either finds the
  keyboard at its address or overtakes the controller. These hold until `overtaken`.
* `PunctualInv` says at each label which of flag, message and run can still be there: the
  controller is idle from the moment `main` has seen the flag, and nothing is left of a
  second run when the next request is written. It gives `NeverOvertakes`.

`UsbProofs` proves `AddressedCorrect` (`AddressedAfterSetAddress`) for every set of
worlds. From a soft reset to the first request the controller is idle and has nothing
to say, so whatever `main` is told while it is at SetAddress is about SetAddress: the
keyboard did it, or there is none, or it has been put in anew. This is where answers that come late
or twice, which do mislead the later requests, can do no harm.

It also proves `TypeCorrect` (`TypeOK`), `MessageCorrect` (`MessageUsedOnce`),
`ServedCorrect` (`SaysDoneWhenServed`) and `TogglesCorrect` (`TogglesAgree`), each for every
set of worlds and with the condition on the world that the property names. None
of the last three is inductive. `OneReport` says at each label what is left of a message: from
its start a list runs until it is reported, flag and message come up together, and
no label after that sends again before both are used. On that rests `Served`: while
the data stages run the keyboard is listening, so an acknowledged list was
carried out. And `Toggles`: the host turns its toggle once after each poll, the
keyboard once when it answers one, and in between they differ.

`AesProofs` proves `StepsCorrect` (`StepsUndone`), `ScheduleCorrect` (`ScheduleSettles`)
and `DecryptCorrect` (`DecryptsToMessage`) for every set of messages and keys of 32
characters each, hence for any. It has five parts.

* The hardware's own reduction, `hw_xtime` of `InvMixColumns.sv`, equals the software's
  `xtime` (`HardwareXtime`), and so do its products (`HardwarePowers`); the two are
  transcribed apart.
* Algebra. A byte is the sum of its bits (`ByteBits`), exclusive or adds them modulo two
  (`ByteXorBits`), and so it is associative, commutative and its own inverse (`XorLaws`).
  `xtime` shifts the bits and adds some of the highest one, so it distributes over sums
  (`XtimeLinear`). A byte of `InvMixColumns` after `MixColumns` is then a sum in which each
  of the four bytes of the column occurs an even number of times with each power of
  two, except for the byte itself (`MixByteUndone`). The tables are compared entry by
  entry (`SboxUndone`), the rows by their indices (`BlockSteps`).
* Hardware. `Settled`: the stage of `KeyExpansion` with number k holds the right substituted
  bytes once more than k edges have passed since the key last changed. It is inductive
  because the stages before it no longer change (`StagesStay`), which is what makes ten
  edges enough, in whatever state the tables were before. `ExpandedWhenSettled` then
  brings the sums of the hardware, which adds the round constant to the other operand,
  into the order of the software.
  `Stage`, and the rounds inside `Decrypt`, are recursive functions; a function is shown to
  satisfy each recurrence by writing its ten or eleven values out (`StagesChained`).
* Software. `Inv` says that the words of the key written so far are its expansion
  (`KeyInv`), where the block is in the chain of blocks that the ten rounds make of the
  message (`BlockInv`), and which registers hold what (`WriteInv`).
* Both. Forty-four words that satisfy the recurrence from the same four are the same
  (`OneExpansion`, in ten stages, since there is no induction), so the hardware's key is
  the software's, and each round of the hardware goes one block back in the chain
  (`RoundUndone`).

Only model-checked:

* liveness (`PiecesKeepComing`, `LetGoIsSeen`, `FramesKeepComing`, `EveryPieceAtFrames`,
  `Enumerates`, `CallsReturn`): it needs fairness and `ENABLED`, which are out of the
  prover's reach;
* `MatchesStandard`: it compares three encryptions with the values the standard, `test.txt`
  and the benchmark's text have; for other messages there is nothing to compare with;
* the three violated comments.

## 6. Not modelled

* Pixels, colours, sprites and digits: no state, no decisions. The tens digit
  (`Color_Mapper.sv:45`) is four bits of score / 10 and stops being a digit at
  100 lines.
* What the game is shown between a reset that cuts a byte short and the next reset, and
  a reset between F0 and its code, which makes a release look like a press: `reset`
  clears the shift registers but not `Press`. Metastability of `PS2_CLK`.
* `UsbPrintMem` and the log output of lab 8; the HPI port (`io_handler.c`,
  `hpi_io_intf.sv`), whose bodies are empty in the repository.
* `decrypt` of lab 9 (empty), the benchmark's timing, `EXPORT_DATA`, and the table
  `gf_mul` of `aes.h`, which nothing uses.
* `accumulator` of lab 7: `main` does not call it. The ball of lab 8.
* The rest of the board support packages (the C library's glue, drivers for
  devices the programs do not use, logging, start-up code) and everything Qsys and
  Quartus generate. Most C lines in the repository are of this kind, vendor code that is
  the same in both packages, or headers of register addresses. Only the driver that
  the program of lab 9 waits on is modelled, so the share of all C and C++ lines
  that the models stand for is small, while of the programs' own code in C
  (`lab8/main.c`, `lab8/usb.c`, `lab9/software/lab9_app/main.c`) most is covered. The
  game, which is the largest part of the course's own work, is SystemVerilog.

## 7. Plan

Done: the game core, its abstract playing field, generator, keyboard decoder and
receiver, frame timing and its composition with the generator; the USB host and its
lists; the JTAG UART driver and its abstract channel; AES; the theorems above, which
cover every safety property that a passing run checks except `MatchesStandard`. What
could come next: the ball of lab 8, with the key codes `UsbTransfers` delivers.
