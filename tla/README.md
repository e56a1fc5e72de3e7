# Stereo: a TLA+ model of the firmware

`Stereo` is a binocular stereo-vision board: an STM32F429 with two MT9M111
cameras, an SDRAM, a serial flash, an SD card and a USB device port on which the
board appears as a disk.  This directory holds TLA+ modules that model the parts
of its firmware that have state, interrupts and protocols, TLC configurations
that check them on small instances, and proofs, checked by TLAPS, for instances
of every size.  `PROJECT.json` lists the runs, the mutants that show each
property can fail, the source lines behind each definition, the hazards the
properties are for, the findings and the theorems.

Contents: 1 the system; 2 the plan; 3 mass storage; 4 serial flash; 5 camera
capture; 6 the USB device core; 7 the SD card; 8 stereo matching; 9 the runs;
10 the proofs; 11 findings; 12 what is not modelled.

Paths below are relative to `src/Stereo/`, except for the MATLAB files.

## 1. The system

The firmware is `main()` on one side and interrupt handlers on the other, with
no operating system.  `main()` brings the board up, configures a camera over
I2C, starts a snapshot, waits for its end and prints some words of it; all it
does after that is blink.  The disk lives wholly inside the USB interrupt.  The
handlers of USB, DCMI, its DMA stream and SysTick share one priority: **no
handler is interrupted by another**, which is why a handler is one step in every
module here.  The hardware (bus, flash chip, DMA, camera) runs beside them.

| Component | Code | State | Operations | Talks to |
|---|---|---|---|---|
| Bulk-Only Transport | `usbd_msc_bot.c` | `bot_state`, `bot_status`, `cbw`, `csw`, `bot_data` | DataIn, DataOut, Init, Reset, CplClrFeature, DeInit | endpoints below, SCSI above |
| SCSI | `usbd_msc_scsi.c` | capacity, address and length of the transfer, sense ring | one function per command | BOT (replies), storage units |
| Class glue | `usbd_msc.c` | interface alternate setting | Init, DeInit, Setup, DataIn, DataOut | USB core, BOT |
| Storage units | `usbd_storage.c` | whether the unit was started | Init, IsReady, GetCapacity, Read, Write | SD card (unit 0), serial flash (unit 1) |
| Serial flash | `dataflash.c`, `exflash_diskio.c` | the loops of a write; the chip | write, read, ioctl | SPI, chip |
| USB core, EP0 | `usbd_core.c`, `usbd_ctlreq.c`, `usbd_ioreq.c` | device state, EP0 stage and lengths, configuration, class data | standard requests, suspend/resume/reset | controller driver, class |
| Controller driver | `stm32f4xx_hal_pcd.c`, `stm32f4xx_ll_usb.c` | endpoint transfers | interrupt handler, transmit, receive, stall | core |
| Camera capture | `stm32f4xx_hal_dcmi.c`, `_dma.c`, `_dma_ex.c`, `main.c` | two handles, DMA targets, flags | Start_DMA, Stop, two interrupt handlers, callbacks | camera, SDRAM, `main()` |
| Camera set-up | `main.c` (`i2cWrite`, `i2cRead`) | I2C handle | write and read with retry | I2C driver |
| SD card | `bsp_driver_sd.c`, `sd_diskio.c`, `stm32f4xx_hal_sd.c` | status flags, data path, card state | polled block read and write | SDIO |
| SDRAM | `bsp_driver_sdram.c`, `sdram_diskio.c` | none | fixed start-up sequence | - |
| FatFs | `ff.c` and drivers | volume | never mounted in this build | - |
| Stereo matching | `../stereovision/*.m` | none (pure) | window search, curve fit, user interface | - |

What is hard in it, and what makes each part correct:

* **Mass storage.**  The host may stop, reset or change its mind between any two
  packets; completions are served later than they happen; one buffer and one
  command block are shared by both directions; errors come in the middle of a
  transfer.  Right means: a command reported PASSED moved exactly its blocks to
  exactly their places; nothing moves for a command that is over; the residue
  and the sense data tell the truth; the device can always be brought back to
  waiting for a wrapper.
* **Serial flash.**  A write is cut at sectors and at pages by nested loops, each
  with its own copy of address, length and place in the buffer; the chip wraps
  inside a page; the power may fail.  Right means: each byte is programmed once
  at its own address, nothing else changes, and the call returns.
* **Camera capture.**  The DMA stream runs on while its handler is late, changes
  targets by itself, and is aborted from two places.  Right means: the words of
  a frame land in one ring, in order; `main()` sees a whole frame; it never
  waits for ever; nothing is stored after an error or a stop.
* **USB core.**  Suspends, resumes, resets and set-up packets arrive between any
  two sections of the handler and are served in its own order; completions of one
  request are served after the next has arrived.  Right means: host and device
  agree on the state of the device, class data exists whenever it is used, a
  control read delivers its answer and nothing else, every request ends.
* **SD card.**  Commands, answers and data can be lost, and what one call leaves
  in the flags and in the card is where the next one starts.  Right means: a call
  that reports success has moved its blocks, and every call returns.
* **Stereo matching.**  A sum over a window is computed from a sum over the whole
  image, with rounding and mirrored borders.  Right means: the same match as a
  direct search.
* **I2C.**  Retries without end; one transfer in this build.

## 2. The plan

| | Modules | State |
|---|---|---|
| 1 | `MscBot`: BOT, SCSI, class requests, endpoints and host | done |
| 2 | `BlockService`, `MscBotService`: the promise to the host, and the refinement | done; refinement proved |
| 3 | `MscBotProofs` | types, discipline, two action properties proved |
| 3b | `MscBotMoves`, `MscBotServiceProofs` | what a command moves and reports, and the refinement, proved |
| 3c | `MscBotVerdictProofs` | verdicts, sense data and the range of a transfer, proved |
| 4 | `ExFlash`, `ExFlashProofs` | done; all safety properties proved |
| 5 | `DcmiCapture`, `DcmiCaptureProofs` | done; all safety properties proved |
| 6 | `UsbdCore`, `UsbdCoreProofs`: device states, EP0 stages, class data, suspend/resume/reset, host | done; all safety properties proved |
| 7 | `SdCard`, `SdCardProofs`: the polled block calls, the peripheral and the card | done; all three invariants proved |
| 8 | `StereoMatch`: the search of `stereomatch.m` against a direct one | done, by TLC |
| 9 | Zero-block commands in `MscBot` | done |
| 10 | A second capture: `HAL_DCMI_Start_DMA` after `HAL_DCMI_Stop` | open: no caller |
| 11 | Both storage units composed below `MscBot`: one unit that fails for good (section 7), one that refuses its last block (section 11) | open |
| 12 | I2C write and read with their retries | open: one transfer in this build |

`MscBot` came first because it is the largest piece of logic of its own and the
one whose failures lose data; the flash, the capture, the SD card and the USB
core are the other places where the firmware's own state meets hardware that
does not wait.

## 3. Mass storage: `MscBot`, `BlockService`, `MscBotService`

### State

| Variable | Code |
|---|---|
| `dev` | `USBD_MSC_BOT_HandleTypeDef` field by field (`state` is `bot_state`, `head`/`tail` are the sense indices, `blk_addr`/`blk_len` are `scsi_blk_addr`/`scsi_blk_len`), the storage's `Init` flag (`started`), the transfers of the two bulk endpoints (`tx`; `rx` says which buffer is armed), their STALL bits, and `written`, history of what has reached a medium for the current command |
| `irq` | endpoint completions that happened and whose interrupt is not served |
| `hphase`, `hcmd`, `hrem`, `hrecv`, `hres` | the host: where it is in a command, the command, what is left, what it received, how the last one ended |

Handlers are functions from handle to handle with the names of the code; a SCSI
command returns the handle and its result, 0 or -1, as in the code.  The actions
are `DevDataIn` and `DevDataOut` (an endpoint interrupt is served) and the steps
of the host.

### What the model takes from the code around it

* `HAL_PCD_IRQHandler` (`stm32f4xx_hal_pcd.c:289-438`) serves OUT endpoints, then
  IN endpoints, and only at its end reads one entry of the receive FIFO.  So an
  IN completion is never overtaken by an OUT packet that arrived after it, and
  both are served before a SETUP packet that followed them; `InPending`,
  `OutPending` and `Setup` say this.
* A packet lands in the buffer that is armed.  When the host still sends data
  while a wrapper is awaited, 64 bytes land in a 32-byte command block and run
  over `csw` and the sense list behind it (`OverCBW`).
* The status wrapper and short replies are taken by value when the transfer
  starts; block data stays in `bot_data` until it is sent (`BufferHeld` is about
  that).
* The STALL bits survive a port reset; the interrupt handler only clears
  interrupt flags.
* `Storage_GetCapacity_FS`, `IsReady` and `IsWriteProtected` cannot fail once the
  unit is started: their failing branches are dead in this build and left out.
* Division of an address by a block size of 0, before the first READ CAPACITY,
  yields 0 on this processor.
* The host is a Bulk-Only Transport initiator: one command at a time; on a stall
  it clears the halt and reads the status; when that fails, reset recovery
  (class reset, clear IN, clear OUT); it may give up at any point if `Timeouts`,
  and reset the port at any point if `PortResets`.

### Abstract service

`BlockService` is what the disk promises: one open command, blocks moved for it
in order, each at most once and only inside the medium, nothing moved when none
is open, PASSED only when all have moved.  `MscBotService` instantiates it with
the host's view (received blocks for a read, blocks on the medium for a write)
and `ImplementsService` is checked as a property with faults, time-outs and port
resets enabled.  It says nothing about how a failed command ends: it may have
moved any prefix.

### Properties

`Discipline` is the relation between the state machine, the endpoints and the
pending completions that everything else rests on and no line of the code
checks.  `IdleReady`/`IdleArmed`: recovery always ends in a device that waits for
a wrapper.  `PassedMovedAll`, `ResidueIsRest`, `ResidueReported`,
`VerdictIsOwn`, `SenseIsOfFailure`: what a verdict, a residue and the sense data
mean; `AcceptedInRange`, an accepted transfer stays on its unit, is violated
(section 11).  `TransmitWaits`, `BufferHeld`: the
shared endpoint and buffer.  `Answered`: every command gets a status, from a
working medium and a patient host.  `RefusalAnswered`: a command refused with a
STALL gets its status once the halt is cleared, also after faults and reset
recoveries; it is violated (section 11).

`VerdictIsOwn` and `SenseIsOfFailure` speak of a host that has asked for the
capacity of the unit it uses; before that the range check refuses everything.
`SenseIsOfFailure` needs a host that asks for the sense data after a failure
(`AutoSense`), as operating systems do: nothing else empties the ring.

### Bounds

Blocks of two units, so that a length can be wrong by less than a block; a media
buffer of two blocks and transfers of three, so that a transfer is longer than
the buffer and its last piece is short; a medium of three blocks (the second
unit of two); a sense ring of two entries, so that it wraps.  32-bit and 16-bit
arithmetic is modulo `U32 = 64` and `U16 = 8`, above every sum of these instances:
wrap-around is in the operators but the commands of the runs do not reach it (a
command that does is accepted out of range, section 11).  Which commands a run
enumerates is defined in `MCMscBot`: each run takes one command of each way
through the transport that its question needs.

### Fairness

`FairSpec` is used where `Answered` and `RefusalAnswered` are checked.  The interrupt handlers run
(they are hardware-triggered and cannot be masked here); a host in the middle of
a command goes on with it; nobody has to start a command.

## 4. Serial flash: `ExFlash`

The driver runs inside the USB interrupt and polls the chip; it is the only code
that touches it (the test routines in `main.c` are under `#if 0`).  A step of the
driver ends where it talks to the chip: `SPI_Flash_Write` up to its first page,
`WritePage` (write enable, page program), `WaitBusy` (the busy bit is clear: the
loops work out the next page or sector, or return).  `call` holds the locals of
the three nested functions.  `ChipProgram` finishes a page program, with the
address wrap of the chip; `PowerLoss` stops anything anywhere, with an arbitrary
part of the page done.

A cell holds the set of bytes programmed into it since it was erased, because
the chip can only clear bits: a singleton reads back, anything larger does not.
`before` is history: the memory when the write began.  SPI errors are not
modelled: the driver ignores them and has no other path.

That the chip is erased at the start is an assumption, the state in which it is
delivered: `SPI_Flash_Erase_Chip` has no caller, and a block that already holds
data is the subject of finding 3.

Properties: `PrefixWritten` (at any moment exactly the first bytes of the buffer
are in memory, each at its own address), `WrittenWhole`, `NoWrap`, `OwnBytesOnly`
(also when the power fails), `WriteReturns`.

Bounds: pages of two bytes, sectors of two pages, three sectors, every start
address and every length up to 11 bytes (nearly three sectors), two calls: all
alignments of a range against pages and sectors occur.  Fairness: the chip finishes a page program it has
begun, and the processor runs.

## 5. Camera capture: `DcmiCapture`

`dev` holds both handles, the registers the drivers read and write, and the flag
`main()` polls.  A length above `MaxItems` (0xFFFF) is halved until it fits, and
the stream then alternates between two targets, which `DCMI_DMAConvCplt` moves
on (`Retarget`).

* Steps of the processor: `MainStart`, `MainPrint`, `MainStop`, `DmaInterrupt`,
  `DcmiInterrupt`.  `HAL_DCMI_Start_DMA` is one step: nothing can happen before
  its last assignment, which enables the capture.  `HAL_DCMI_Stop` is one step
  too: a handler that interrupts it could only clear flags and abort the same
  stream.
* Hardware: `FrameStart`, `Word` (with or without the end of a line), `LostWord`,
  `DmaFault`, `FrameEnd`.  Aborting a running stream raises its completion flag.
* `main()` calls `HAL_DCMI_Start_DMA` once, as a snapshot, with 0x1006 words, one
  circular buffer.  The lengths of `GetSize()` (`bsp_driver_cam.c:120-144`) are
  the others the driver is meant for and use two buffers; so the model lets the
  length be any of `Lengths`.  `MainStop` is the driver's documented end of a
  capture; the call in `main.c` is commented out.
* `late` is history: the handler has missed a full buffer.  It can: a USB handler
  that programs flash takes tens of milliseconds.  `RingOrder` claims the ring
  only while not `late`; `TypeOK` and `Quiet` hold anyway.
* With hardware synchronisation the DCMI never raises `ERR`, so it is handled but
  not among the `Faults`.  `hdma.State` and the half-transfer interrupt, which
  nothing here reads or enables, are left out.

Properties: `RingOrder`, `PrintsWholeFrame`, `Quiet`, `MainLeaves` (the wait ends
also when the stream fails or words are lost: the frame end is reported
regardless).  Bounds: a stream limit of 2 words makes the lengths 2, 4 and 8 one, two and
four buffers; a frame of 11 words is longer than every ring, so the round of
buffers closes and starts again.  `HalvingAssumption`, that halving yields an even number of
non-empty buffers, is evaluated by TLC for the instance.  Deadlock is not
checked: a capture ends.  Fairness: `main()` and both handlers run and the camera
goes on sending.

## 6. The USB device core: `UsbdCore`

`HAL_PCD_IRQHandler` looks at its interrupt sources in a fixed order: OUT
endpoints, IN endpoints, wake-up and suspend, reset and enumeration, one entry of
the receive FIFO.  The bus goes on meanwhile, so each section is a step
(`HandleOut`, `HandleIn`, `HandleSleep`, `HandleReset`, `HandleRx`) and `at` says
which is next; an interrupt that arrives after its section waits for the next
pass.

| Variable | Code |
|---|---|
| `d` | `USBD_HandleTypeDef` (`state`, `old` is `dev_old_state`, `config`, `addr`, `class` is `pClassData`, `ep0` is `ep0_state`, `dlen` is `ep0_data_len`, `total`/`rem` of EP0, `setup` the request), the transfers and STALL bits of EP0 (`in`, `out`, `stallIn`, `stallOut`), its completions that are not served (`xin`, `xout`, `stup`), the latched interrupts (`wk`, `sp`, `rs`, `en`), the receive FIFO (`rxq`); `bulk`, the turn of the two bulk endpoints; `nullUse`, history: requests that used class data where there was none |
| `host`, `bus` | the request the host has open, what it has received and what it believes; whether the bus is on, suspended or in reset |

Handlers are functions of `d` with the names of the code, from
`USBD_LL_SetupStage` down to each standard request, and `USBD_MSC_Setup` for the
class requests.  What a bulk transfer does is `MscBot`'s subject; here `bulk` only
says where its next completion is.

**The assumption `Prompt`.**  A host suspends the bus after 3 ms of silence,
resumes it for 20 ms, holds a reset for 10 ms and leaves 10 ms after it; with
`Prompt` the handler has run within these times, and after the last SETUP packet
before the host resets the port.  It is the only assumption about time.  Without
it a suspend and its resume are latched together, the handler serves the resume
first (`WKUINT` stands before `USBSUSP`), and `dev_old_state` is restored before
it was saved: `TypeOK` itself fails.  A handler that programs flash sectors takes
longer than 3 ms, so the assumption is about when the host suspends, not a fact
of the firmware: hosts suspend idle devices, and a flash write is not idle.

Properties: `ClassWhenConfigured`, `NoNullUse` (one request is the exception:
`CLEAR_FEATURE(remote wakeup)` in ADDRESSED), `OwnCompletion` (a completion is
counted for the request it belongs to, though nothing compares them),
`ReadExact`, `HostAgrees`, `AnsweredOrNamed` (`NoAnswer` lists the requests that
get neither data, nor status, nor a halt), `BulkKept`, `Ends`.

**The assumption `HostRequests`.**  The proofs about what the host sees need to
know that its requests are `Legal`, with the direction, length and recipient the
USB specification gives them (requests the device does not know may have any),
that class requests name the interface, and that no descriptor is empty.  The
code checks little of this: a GET_STATUS, say, is answered with two bytes
however many were asked for.  `MCUsbdCore` assumes it of its own
requests, so that the runs evaluate it.

Bounds: packets of three bytes; descriptors of 2, 3 and 7 bytes, so that an
answer is short, exactly a packet and more than two packets, asked for with less,
the same and more (the empty packet is needed and is not); 32 requests, one of
each branch of the code.  Fairness: the interrupt is taken, and the host goes on
with the request it has open, giving up where it can only wait.

## 7. The SD card: `SdCard`

`SD_read` and `SD_write` reach `HAL_SD_ReadBlocks` and `HAL_SD_WriteBlocks`: set
the block length, send the transfer command, move the blocks by polling, stop a
transfer of several blocks, and for a write ask for the end of programming.
`pc` is the wait the call is in; the steps of the driver end at each wait.  `sta`
and `resp` are the status register and the last answer; `wire` the commands on
the line, `dpsm` the data path, `card` the card's own state machine, which answers
a command only in the states that the card's specification allows.  The line may
lose or garble a command, an answer or a block, `MaxFaults` times.

The calls run inside the USB interrupt, which nothing preempts: there is one call
at a time.  The bus has one data line.  `HAL_SD_Init` ran once before
(`main.c:862`), the card is identified and selected.

Properties: `OkMoved` (what `SD_OK` means), `OwnAnswer` (a command is judged by
its own answer; the flags of an earlier one never are), `Returns`.

Two exceptions are named in the properties, because the code has them:

* A read of one block never waits for the answer of its command; the check is
  under `#if DebugX` (`stm32f4xx_hal_sd.c:544`).  When the data fails, the answer
  stays in the flags, the next call takes it for its own and fails, and calls may
  go on one answer behind (`unread`).
* A write of several blocks drops the result of `HAL_SD_StopTransfer` (`:808`) and
  asks a card that still waits for data whether it has finished programming,
  for ever (`Asking`).

Bounds: three blocks, calls of one to three, three faults: enough for a fault in a
call, in what it does to recover and in the call after it.  Fairness: the driver
polls, and the peripheral ends every command and every transfer, by its time-outs
if nothing else.  The data time-out is 2^32 - 1 clocks, minutes inside the
interrupt, so "returns" is not "soon".

## 8. Stereo matching: `StereoMatch`

The four sections of `../stereovision/stereomatch.m`, one step each: costs of
pixels, costs of windows through an integral image, the search, the parabola.
`Single` and `Byte` are the classes of the matrices; `Mirror` is the border of
`imfilter`.

Properties: `WindowCostIsSad` (four corners give the sum of absolute differences,
term by term), `BestMatch` (the number found is the smallest disparity of least
cost among those whose window lies in both images), `SubpixelNear` (the parabola
has its lowest point within half a disparity of it).  The first two ask that a
single holds the sum over the image (`Exact`) and that a byte holds the numbers
(`Fits`); the run has instances on both sides: 6 bits of mantissa and images whose
sums pass 64.  At 24 bits the sum over an image of 450 by 375 may exceed 2^24.

What the model makes plain about the code: the window that is summed is
`WS - 1` by `WS - 1` pixels, those after the first row and column; a window of
one pixel has a single corner and its cost is the integral image itself; an image
of one row is summed along the wrong dimension (both are excluded by
`MatchAssumption`); in the columns from `D + 1` to `D + WS2 - 1` the parabola uses
the cost of a disparity that was no candidate, so that its lowest point may be far
(the exception of `SubpixelNear`); and line 72 takes the real part of a root,
which is the lowest point only while the parabola stays above zero.  The roots
themselves are not computed.  Bounds: images of 5 by 7 pixels and four grey
levels, so that windows of 3 and of 5 have interior and border pixels.

## 9. The runs

| Run | Shows | Size |
|---|---|---|
| `bot_recovery` | faults at every block transfer, refused wrappers, commands of no blocks and time-outs at every point: eight properties and the refinement | 358k states |
| `bot_commands` | working medium, patient host, every command legal or not: the verdict, the sense data, an answer | 170k |
| `bot_port_reset` | port resets at any moment on top of faults and time-outs, with a STALL left over: idle means armed; the refinement | 649k |
| `bot_two_luns` | violation: one capacity for two units | - |
| `bot_unanswered` | violation: after one reset recovery a refused command gets no status when the halt is cleared | - |
| `exflash` | two writes of any range, power loss anywhere | 226k |
| `exflash_rewrite` | violation: a block written twice holds neither content | - |
| `dcmi_capture` | one, two and four buffers, late handlers, overflows, DMA errors | 70k |
| `usbd_core` | 32 requests in any order, suspends, resumes and resets between any two sections of the handler | 364k |
| `sd_card` | reads and writes of one to three blocks, three faults anywhere | 129k |
| `sd_card_lost` | violation: after one data error the card is left where it answers nothing | - |
| `stereo_match` | 111 pairs of images, two windows, four disparities | 4.6k |

`bot_port_reset` checks `IdleArmed` instead of `IdleReady`: after a port reset a
halt may really be left.  `bot_commands` has no VERIFY10 that passes its first
check: it would violate `VerdictIsOwn` (section 11).  For every property of a passing run
`PROJECT.json` names a mutant, a small bug of the kind this code could have,
defined beside the operator it replaces, under which TLC finds the property
violated.

## 10. The proofs

| Module | Theorems | Assumptions |
|---|---|---|
| `MscBotProofs` | `TypeCorrect`, `DisciplineKept`, `TransmitWaitsAlways`, `BufferHeldAlways` | `ConstantsAssumption` |
| `MscBotMoves`, `MscBotServiceProofs` | `IdleArmedAlways`, `ResidueIsRestAlways`, `ResidueReportedAlways`, `PassedMovedAllAlways`, `IdleReadyAlways`, `ServiceRefinement` | `ConstantsAssumption`, `HostCommands`; `IdleReadyAlways` also no port resets |
| `MscBotVerdictProofs` | `BelowLimitAlways` | `ConstantsAssumption`, `HostCommands` |
| | `AcceptedInRangeAlways` | the same, and `SameCapacity` |
| | `VerdictIsOwnAlways`, `SenseIsOfFailureAlways` | `ConstantsAssumption`, `HostCommands`, `WellFormed`, no media faults, no port resets; the last also `AutoSense` |
| `ExFlashProofs` | `TypeCorrect`, `PrefixAlways`, `WholeAlways`, `NeverWraps`, `OwnBytesAlways` | `FlashAssumption` |
| `DcmiCaptureProofs` | `TypeCorrect`, `RingOrderAlways`, `QuietAlways`, `PrintsWholeFrameAlways` | `CaptureAssumption`, `HalvingAssumption` |
| `SdCardProofs` | `TypeCorrect`, `OwnAnswerAlways`, `OkMovedAlways` | `ConstantsAssumption` |
| `UsbdCoreProofs` | `TypeCorrect`, `ClassAlways`, `NoNullUseAlways` | `ConstantsAssumption`, `Prompt`; the last also `ClassToInterface` |
| | `OwnCompletionAlways`, `ReadExactAlways`, `HostAgreesAlways`, `AnsweredOrNamedAlways`, `BulkKeptAlways` | `ConstantsAssumption`, `Prompt`, `HostRequests` |

They hold for every medium, block, buffer, ring, page, sector, packet and frame
size, and, within the assumptions named, for every set of commands, requests,
descriptors and lengths and all combinations of faults, time-outs and resets.

**MscBot.**  The inductive invariant is `TypeOK /\ Discipline`.  `Discipline` is
already strong enough because it includes what the host's phase implies (for
instance that between the class reset and the end of recovery nothing is
pending).  `MscBotProofs` first shows operator by operator that a handler maps a
well-typed handle to a well-typed one; the delicate places are the lengths,
which must not go below zero.  Then, that a handler can only
leave the handle in one of four shapes (it answers, sends, receives or refuses),
that each shape keeps the discipline given what is pending, and then goes through
the host's steps.  The two action properties follow from the discipline before the step and the shape.

**MscBot implements BlockService.**  `PassedMovedAll` and the residue properties
say something about the end of a command, so alone they are far from inductive.
The invariant `Course` says for each moment of a command how the device's place,
the host's place and the transfers that are under way belong together:

| Part | Holds while | Says |
|---|---|---|
| `Fresh` | a good wrapper waits for its handler | it is the one the host sent last, and nothing has moved |
| `Reading` | a READ10 is in progress | blocks left, blocks that wait for the host and blocks it has received add up (`Offered` before the host takes them, `Taken` after) |
| `Writing` | a WRITE10 is in progress | the blocks written are the first ones, each in its place; what is left is what the host still sends |
| `Replying` | a short reply is on its way | it belongs to no block command, and the residue is what it does not fill |
| `Passed` | a status waits for the host | if it is its own and reports success, all blocks have moved (`AllMoved`) and its residue is the rest |
| `Armed` | the host may send a wrapper, or is about to | the buffer of the wrapper is the one that is armed |
| `Known` | always | the host's command is one `HostCommands` allows; how it ended and what is halted belong together |

`MscBotMoves` holds the lemmas: for one handler at a time, what it does to
`blk_addr`, `blk_len`, the residue and the transfer it starts, and the arithmetic
of whole blocks.  `MscBotServiceProofs` shows that each step keeps `Course`,
reads the properties off it, and goes through the steps once more for the
refinement: sending a wrapper is `Begin`; a packet of data that completes at least
one block is `Move`; reading the status, the end of a recovery, and a port reset
under an open command are `Finish`; a port reset between commands is `Reset`; all
else stutters.

`HostCommands` is what the proofs need to know of the commands, and `MCMscBot`
assumes it of its own, so that every run of `MscBot` evaluates it.  `Addressable`: block address and count
do not wrap 32 bits; the range check does not see the wrap (section 11).
`TakesItsData`: a host does not send data with a command for which the device
takes none, such as START_STOP_UNIT; a packet too many would be taken for
the next wrapper and `IdleArmed` would fail.

**Verdicts and sense data.**  `VerdictIsOwn` and `SenseIsOfFailure` speak of the
moment a command ends; their invariant follows the verdict from the decoding of
the command to the host, and stands on `Course`, which says whose command it is.

| Part | Says |
|---|---|
| `Steady` | what a verdict could depend on besides its command is fixed: the units are started, and a wrapper is only decoded with no halt left over from another command |
| `Judged` | a transfer in progress and a status PASSED belong to a command that `Refusal` accepts; a status FAILED, a halt of the IN endpoint and data that meets an awaited wrapper, to one that it rejects |
| `Sensed` | where the sense list is empty and where it holds the reason (`Listed`): empty when a wrapper is decoded, unless the command is REQUEST SENSE, one entry from the refusal until the host asks |
| `Clean` | the exception: data of the host has run over the wrapper, the status and the list (`OverCBW`), or is about to; then the status that waits is never taken for the host's own |

All of them claim something only when the limit of the range check is the
capacity of the command's unit (`Due`).  That makes the proof go through for a
medium that fails past its end: a READ10 accepted under the limit of another unit
fails in the middle, but then the limit is not `Due` (`Overrun`).  `Dismissed` and
`Admitted` are the two ends of a decoded wrapper, `InOutcome` and `OutOutcome` all
ends of the two completion handlers; each part of the invariant then has one lemma for
each of the two and one for each step of the host.

The assumptions are needed.  `WellFormed`: VERIFY10 without BYTCHK is judged by the range of
another command (section 11), and a wrapper the device may not read puts an entry
into the list that belongs to no command; `MCMscBot` assumes it of the commands of
`bot_commands`.  A medium that fails refuses commands that are right, and a port
reset leaves a halt behind for the next command.  Time-outs and recoveries at any
point are allowed, but after a class reset (`bot_status` is RECOVERY) a refused
command never gets its status (section 11), so that there `SenseIsOfFailure` has
nothing to say.

**The range of a transfer.**  `BelowLimitAlways` needs no more than
`HostCommands`: a transfer in progress ends at or below `scsi_blk_nbr` (`Inside`).
It is inductive because only the decoding of a wrapper starts a transfer, nothing
else writes the limit or the command block while one is in progress, and data that
runs over the command block leaves one that names no block.
The limit is always some unit's capacity (`Limited`).  So with `SameCapacity`,
that is with one unit (`ONLY_SDCARD` in `usbd_storage.c`) or units of one
size, `AcceptedInRange` holds, and the shared capacity is the only reason why it
does not in `bot_two_luns`, which is the build as configured: SD card and flash.

**ExFlash.**  The invariant adds to the properties the relation between the
three loops (`Loops`: address minus place in the buffer is the same at every
level; the current piece ends at the sector or at the end; a piece that is not
the last ends at a page boundary) and that the chip is only ever busy with the
page the call waits for (`ChipServes`).  The arithmetic (ranges, a page boundary
is kept by adding a page) is in lemmas about `%` at the beginning.

**DcmiCapture.**  The invariant `RingInv` says which buffer `c` of `n` is being
filled, that the target in use begins at its offset and that the spare target is
either the next buffer (completion served) or still the previous one (not
served), with the value of `XferCount` that belongs to each.  It is needed
because the handler never looks at which buffer was filled: it infers it from
`XferCount` and the current-target bit, and this is what makes the inference
right.  `Still` (after a reported overflow, or a stop, the stream is off) gives
`Quiet`.  For `PrintsWholeFrame` the invariant `Whole` says that as long as no error was
reported or waits to be, every word the camera sent was stored, and that neither
the flag of the frame nor its callback comes before the last one; what makes it
inductive is that no handler hides an error and that both handlers call back only
for the end of a frame (`Honest`).

**SdCard.**  The invariant `AnswerInv` says for each wait of a call what is on the
line, what the flags say and where the card is (`AtBlockLen`, `AtCommand`,
`AtData`, `AtStop`, `AtProgramming`).  Its core is `OneAnswer`: the command waited
for is alone on the line, or it is answered and the answer carries its index; and
`InStep`: driver, data path and card count the same blocks.  `OkMoved` alone is
far from inductive: it is a fact about the end of a call that rests on what each
wait before it left behind.  All of it is claimed only while nothing was left
unread, which is where the code gives it up.

**UsbdCore.**  The invariant is `TypeOK`, `ClassWhenConfigured` and `Order`: which
of suspend, resume, reset and SETUP can be latched together when the handler is
prompt.  `Order` is what makes the fixed order of the sections harmless: a resume
is never latched with its suspend, so `old` is the state the suspend found; a
reset finds no request unread.  `NoNullUse` then follows from the tests of the
state in each request; it assumes `ClassToInterface`, that class requests name the
interface, because the requests to the device are told apart by `bRequest` alone
and some are passed on to the class in every state.

What the host sees needs more: `Told`, which says how device, FIFO, endpoint and
host belong together at every moment.

| Part | Says |
|---|---|
| `Talk` | where the open control transfer is: its SETUP is in the FIFO, half read, or latched (`OnItsWay`); or it is served (`Served`): refused, without an answer, in its data stage (`Sending`: a packet is offered, one is taken and more follow, or the empty one is offered), acknowledged (`Acked`), or in its last stage (`Ended`) |
| `Deaf` | what is left of `Talk` once a CLEAR_FEATURE to the device has masked the control endpoint |
| `Belief` | the host is right about state and address, unless a reset is in progress |
| `Ferry` | a bulk completion on its way belongs to a device that is configured and awake, and the FIFO holds at most one |

The data stage is the delicate part.  `Offer`, `More` and `Empty` say that the
offset of the packet and `rem_length` add up to `total_length`, and that a packet
which is not the last is full; `ReadExact` reads the sum off when the last one is
taken.  Nothing in the code says whose completion the handler serves; that it is
the request's own follows from the order in which a pass looks at the interrupts:
the new SETUP is latched only after the section that served the old completion.
Every answer the code has gets a lemma (`SetupReply` collects them), and every
section and every step of the host one more that keeps `Told`.  That a
transfer ended by a reset leaves nothing behind for the next one is `Between`.

Only model-checked: liveness (`Answered`, `RefusalAnswered`, `WriteReturns`, `MainLeaves`, `Returns`,
`Ends`), which is out of the prover's reach, and `StereoMatch`, whose sums and
minima are induction over data.  What the halving loop of
`HAL_DCMI_Start_DMA` computes for every length is induction over data and not
proved: it is the assumption `HalvingAssumption`, evaluated for each instance.

## 11. Findings

With a run that shows them:

1. The range check uses the capacity of whichever unit was last asked
   (`usbd_msc_scsi.c:258`, `:651`): run `bot_two_luns`.  The 32-bit sum in the
   same line wraps too: with a READ10 of two blocks at the last address among the
   commands, `AcceptedInRange` fails with a single unit.  For units of one
   capacity and sums that do not wrap it is proved.
2. `bot_status` stays RECOVERY after a class reset, so a refused command is
   no longer answered (`usbd_msc_bot.c:387`): run `bot_unanswered`.  In its trace
   a write fault in the middle of a WRITE10 sends a packet of data where a wrapper
   is awaited, and the host recovers with a class reset; the next command the
   device refuses is stalled, the host clears the halt of the IN endpoint,
   `MSC_BOT_CplClrFeature` sends nothing, and the host waits for ever.  The fault
   and the recovery alone do not violate `RefusalAnswered`: in a variant in which
   `MSC_BOT_CBW_Decode` sets `bot_status` back to NORMAL it holds.
3. Nothing erases the flash before it is written again (`dataflash.c:124`): run
   `exflash_rewrite`.
4. A data error in a transfer of several blocks sends no stop command and leaves
   the card where it answers nothing more (`stm32f4xx_hal_sd.c:570`): run
   `sd_card_lost`.

In the models, without a run of their own:

* `SCSI_Verify10` checks the range the previous transfer left
  (`usbd_msc_scsi.c:628`); a VERIFY10 after a READ10 violates `VerdictIsOwn`.
* The last block of the flash cannot be read (`dataflash.c:72`: the bound is one
  less than that of the write).
* The unread answer and the endless question of section 7, the requests without
  an answer of section 6 (`NoAnswer`), and the columns of section 8 are named
  exceptions of the properties.

## 12. What is not modelled

* **I2C** (`main.c`, `stm32f4xx_hal_i2c.c`): `main()` makes a single transfer, the
  read of the chip version; the register writes are commented out.
* **A second capture**: the frame interrupt is disabled when it fires and the DCMI
  is disabled by `HAL_DCMI_Stop`, and `HAL_DCMI_Start_DMA` enables neither; no
  caller starts twice.
* **SD card**: identification and power-up (once, before USB starts), and the DMA,
  erase, wide-bus and card-status calls, which have no caller; calls of no blocks;
  `OUT_OF_RANGE` on the last block.
* **USB core**: disconnection (its interrupt is not enabled with VBUS sensing off),
  `USBD_Stop` and `USBD_DeInit` (no caller), start of frame and isochronous
  callbacks (the class has none), the texts of descriptors, FIFO words and
  registers of the controller.
* **Stereo matching**: the roots of the parabola, the user interfaces.
* Left out for good: SDRAM as a disk (compiled out), FatFs (vendored, never
  mounted), debug output (no property depends on it), clock, pin and peripheral
  bring-up (straight-line register code), CMSIS and the unused HAL drivers,
  `micropython` (vendored, not part of the firmware), and the board design data.
  They are nearly all of the repository's lines.  The erase operations and the
  cursor functions of `dataflash.c` have no caller.  In the modelled parts: the
  contents of short replies.
