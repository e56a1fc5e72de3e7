------------------------------- MODULE SdCard -------------------------------
(***************************************************************************)
(* The polled block transfers of the SD card: HAL_SD_ReadBlocks and        *)
(* HAL_SD_WriteBlocks (stm32f4xx_hal_sd.c) under the disk calls SD_read    *)
(* and SD_write, beside the SDIO peripheral and the card.                  *)
(*                                                                         *)
(* A call sends a command, polls the status flags of the peripheral until  *)
(* they say that an answer is in, judges it, and goes on; every wait is a  *)
(* step.  What the properties are about is what a call leaves behind: the  *)
(* flags in the status register and the state of the card outlive it, and  *)
(* the next call starts from there.                                        *)
(*                                                                         *)
(* The commands and the data cross a line that may corrupt them.           *)
(***************************************************************************)
EXTENDS Integers, Sequences

CONSTANTS
  Capacity,   \* the blocks of the card
  MaxCount,   \* the most blocks of one call, MSC_MEDIA_PACKET / 512
  Faults,     \* what the line may corrupt: "command", "data"
  MaxFaults   \* bound: how often it does

ASSUME ConstantsAssumption ==
  /\ Capacity \in Nat
  /\ MaxCount \in Nat \ {0}
  /\ Faults \subseteq {"command", "data"}
  /\ MaxFaults \in Nat

SET_BLOCKLEN      == 16
READ_SINGLE       == 17
READ_MULTIPLE     == 18
WRITE_SINGLE      == 24
WRITE_MULTIPLE    == 25
STOP_TRANSMISSION == 12
SEND_STATUS       == 13

Transfers == {READ_SINGLE, READ_MULTIPLE, WRITE_SINGLE, WRITE_MULTIPLE}
Commands  == Transfers \cup {SET_BLOCKLEN, STOP_TRANSMISSION, SEND_STATUS}

\* The end of a command.
Answers == {"CMDREND", "CCRCFAIL", "CTIMEOUT"}

\* DATAEND is the last block of a transfer (DBCKEND where there is one only),
\* DATAERR any of DTIMEOUT, DCRCFAIL, RXOVERR and TXUNDERR (STBITERR is of a
\* bus of four lines, and this one has a single line).
Ends    == {"DATAEND", "DATAERR"}
Flags   == Answers \cup Ends

VARIABLES
  pc,      \* what the driver waits for
  call,    \* its call: direction, first block, number of blocks
  ok,      \* the result of the last call: was it SD_OK?
  sta,     \* SDIO_STA, the status flags
  resp,    \* RESPCMD and RESP1 of the last answer: index, error bits, state
  wire,    \* the commands that are on the line
  dpsm,    \* the data path: direction, blocks it still expects
  card,    \* the card: state, next block, last command not understood?
  moved,   \* the card's blocks that the call has moved, in buffer order
  faults,  \* how often the line was at fault
  unread   \* history: is an answer left that a single-block read never read?

vars == <<pc, call, ok, sta, resp, wire, dpsm, card, moved, faults, unread>>

-----------------------------------------------------------------------------
(* The driver.                                                             *)

Multi == call.n > 1

TransferCommand ==
  CASE call.op = "read" /\ Multi   -> READ_MULTIPLE
    [] call.op = "read" /\ ~Multi  -> READ_SINGLE
    [] call.op = "write" /\ Multi  -> WRITE_MULTIPLE
    [] call.op = "write" /\ ~Multi -> WRITE_SINGLE

\* A command written over one that is still on the line: what becomes of the
\* two is not specified.
SDIO_SendCommand(c) ==
  wire' \in IF wire = << >> THEN {<<c>>} ELSE {wire, <<c>>, Append(wire, c)}

Quiet == UNCHANGED wire

\* Mutant: the length is that of one block less.
DataConfig_Short(way) == dpsm' = [way |-> way, left |-> call.n - 1]

SDIO_DataConfig(way) == dpsm' = [way |-> way, left |-> call.n]

\* SD_CmdResp1Error waits for an answer, without a time limit.
Answered == sta \cap Answers # {}

Judged(c) ==
  /\ sta \cap {"CTIMEOUT", "CCRCFAIL"} = {}
  /\ resp.cmd = c
  /\ ~resp.err

\* Mutant: the flags of a good answer are not cleared.
JudgedFlags_Keeps(c) ==
  CASE "CTIMEOUT" \in sta                          -> sta \ {"CTIMEOUT"}
    [] "CTIMEOUT" \notin sta /\ "CCRCFAIL" \in sta -> sta \ {"CCRCFAIL"}
    [] OTHER                                       -> sta

\* It clears the flag of the error it reports, no flag when the answer is that
\* to another command, and otherwise all of them.
JudgedFlags(c) ==
  CASE "CTIMEOUT" \in sta                          -> sta \ {"CTIMEOUT"}
    [] "CTIMEOUT" \notin sta /\ "CCRCFAIL" \in sta -> sta \ {"CCRCFAIL"}
    [] sta \cap {"CTIMEOUT", "CCRCFAIL"} = {} /\ resp.cmd # c -> sta
    [] OTHER                                       -> {}

Return(r) ==
  /\ pc' = "idle"
  /\ ok' = r
  /\ unread' = (unread \/ (call.op = "read" /\ ~Multi /\ ~r))

Go(to) ==
  /\ pc' = to
  /\ UNCHANGED <<ok, unread>>

\* SD_read and SD_write.  The host is slow: what was on the line is over.
Start(op, first, n) ==
  /\ pc = "idle" /\ wire = << >>
  /\ call' = [op |-> op, first |-> first, n |-> n]
  /\ pc' = "blocklen"
  /\ unread' = (unread /\ sta \cap Answers # {})
  /\ dpsm' = [dpsm EXCEPT !.way = "off"]
  /\ SDIO_SendCommand(SET_BLOCKLEN)
  /\ moved' = << >>
  /\ UNCHANGED <<ok, sta, resp, card, faults>>

\* A read opens the data path before the command.  The answer to the command
\* that reads a single block is not waited for: that code is left out.
BlockLenDone ==
  /\ pc = "blocklen" /\ Answered
  /\ sta' = JudgedFlags(SET_BLOCKLEN)
  /\ \/ ~Judged(SET_BLOCKLEN) /\ Return(FALSE) /\ Quiet /\ UNCHANGED dpsm
     \/ /\ Judged(SET_BLOCKLEN)
        /\ IF call.op = "read" THEN SDIO_DataConfig("in") ELSE UNCHANGED dpsm
        /\ SDIO_SendCommand(TransferCommand)
        /\ Go(IF call.op = "read" /\ ~Multi THEN "data" ELSE "command")
  /\ UNCHANGED <<call, resp, card, moved, faults>>

CommandDone ==
  /\ pc = "command" /\ Answered
  /\ sta' = JudgedFlags(TransferCommand)
  /\ \/ ~Judged(TransferCommand) /\ Return(FALSE) /\ UNCHANGED dpsm
     \/ /\ Judged(TransferCommand)
        /\ IF call.op = "write" THEN SDIO_DataConfig("out") ELSE UNCHANGED dpsm
        /\ Go("data")
  /\ Quiet
  /\ UNCHANGED <<call, resp, card, moved, faults>>

\* Mutant: the data errors are not looked at.
Finish_NoErrors(flags, r) ==
  /\ sta' = {}
  /\ IF call.op = "read"
     THEN Return(r) /\ Quiet
     ELSE Go("programming") /\ SDIO_SendCommand(SEND_STATUS)

\* The end of the data phase, and after it, with the result r of the stop
\* command: a data error is returned at once.  A write goes on to ask for the
\* state of the card, and forgets r.
Finish(flags, r) ==
  IF "DATAERR" \in flags
  THEN sta' = flags \ {"DATAERR"} /\ Return(FALSE) /\ Quiet
  ELSE /\ sta' = {}
       /\ IF call.op = "read"
          THEN Return(r) /\ Quiet
          ELSE Go("programming") /\ SDIO_SendCommand(SEND_STATUS)

DataDone ==
  /\ pc = "data" /\ sta \cap Ends # {}
  /\ IF Multi /\ "DATAEND" \in sta
     THEN Go("stop") /\ SDIO_SendCommand(STOP_TRANSMISSION) /\ UNCHANGED sta
     ELSE Finish(sta, TRUE)
  /\ UNCHANGED <<call, resp, dpsm, card, moved, faults>>

StopDone ==
  /\ pc = "stop" /\ Answered
  /\ Finish(JudgedFlags(STOP_TRANSMISSION), Judged(STOP_TRANSMISSION))
  /\ UNCHANGED <<call, resp, dpsm, card, moved, faults>>

\* Mutant: a card that has finished is waited for, too.
Busy_Ready == {"prg", "rcv", "tran"}

Busy == {"prg", "rcv"}

\* SD_IsCardProgramming, again and again.
Programming ==
  /\ pc = "programming" /\ Answered
  /\ sta' = JudgedFlags(SEND_STATUS)
  /\ IF Judged(SEND_STATUS) /\ resp.state \in Busy
     THEN Go("programming") /\ SDIO_SendCommand(SEND_STATUS)
     ELSE Return(Judged(SEND_STATUS)) /\ Quiet
  /\ UNCHANGED <<call, resp, dpsm, card, moved, faults>>

Driver == BlockLenDone \/ CommandDone \/ DataDone \/ StopDone \/ Programming

-----------------------------------------------------------------------------
(* The peripheral, the line and the card.                                  *)

Fault(kind) ==
  /\ kind \in Faults /\ faults < MaxFaults
  /\ faults' = faults + 1

Legal(c) ==
  CASE c = SEND_STATUS       -> TRUE
    [] c = STOP_TRANSMISSION -> card.state \in {"data", "rcv"}
    [] OTHER                 -> card.state = "tran"

\* What the card is after it has taken a command.
Taken(c) ==
  [card EXCEPT
     !.lost = FALSE,
     !.state = CASE c \in {READ_SINGLE, READ_MULTIPLE}   -> "data"
                 [] c \in {WRITE_SINGLE, WRITE_MULTIPLE} -> "rcv"
                 [] c = STOP_TRANSMISSION ->
                      IF @ = "rcv" THEN "prg" ELSE "tran"
                 [] OTHER -> @,
     !.next = IF c \in Transfers THEN call.first ELSE @,
     !.open = IF c \in Transfers THEN c \in {READ_MULTIPLE, WRITE_MULTIPLE}
                                 ELSE @]

Reply(c, err) == resp' = [cmd |-> c, err |-> err, state |-> card.state]

Off(c) ==
  /\ wire # << >> /\ c = Head(wire)
  /\ wire' = Tail(wire)
  /\ UNCHANGED <<pc, call, ok, dpsm, moved, unread>>

\* The answer tells of an earlier command that was not understood.
Reached(c) ==
  /\ Off(c) /\ Legal(c)
  /\ card' = Taken(c)
  /\ sta' = sta \cup {"CMDREND"}
  /\ Reply(c, card.lost)
  /\ UNCHANGED faults

\* A card does not answer a command that is illegal in its state.
Ignored(c) ==
  /\ Off(c) /\ ~Legal(c)
  /\ card' = [card EXCEPT !.lost = TRUE]
  /\ sta' = sta \cup {"CTIMEOUT"}
  /\ UNCHANGED <<resp, faults>>

\* The command is corrupted, and not understood.
Lost(c) ==
  /\ Off(c) /\ Fault("command")
  /\ card' = [card EXCEPT !.lost = TRUE]
  /\ sta' = sta \cup {"CTIMEOUT"}
  /\ UNCHANGED resp

\* The answer is corrupted: its CRC is wrong, or it is not seen at all.
Garbled(c) ==
  /\ Off(c) /\ Legal(c) /\ Fault("command")
  /\ card' = Taken(c)
  /\ \/ sta' = sta \cup {"CCRCFAIL"} /\ Reply(c, card.lost)
     \/ sta' = sta \cup {"CTIMEOUT"} /\ UNCHANGED resp

\* The card cannot do it (the block is unreadable, or locked).
Refused(c) ==
  /\ Off(c) /\ Legal(c) /\ c \in Transfers /\ Fault("command")
  /\ card' = [card EXCEPT !.lost = FALSE]
  /\ sta' = sta \cup {"CMDREND"}
  /\ Reply(c, TRUE)

Answer == \E c \in Commands :
  Reached(c) \/ Ignored(c) \/ Lost(c) \/ Garbled(c) \/ Refused(c)

\* A block has crossed: the next one follows, unless it was the only one.
Crossed(after) ==
  [card EXCEPT !.next = @ + 1, !.state = IF card.open THEN @ ELSE after]

Passed(after) ==
  /\ card' = Crossed(after)
  /\ moved' = Append(moved, card.next)
  /\ dpsm' = IF dpsm.left = 1 THEN [way |-> "off", left |-> 0]
                              ELSE [dpsm EXCEPT !.left = @ - 1]
  /\ sta' = IF dpsm.left = 1 THEN sta \cup {"DATAEND"} ELSE sta
  /\ UNCHANGED faults

\* The data path gives up.
Broken ==
  /\ dpsm' = [dpsm EXCEPT !.way = "off"]
  /\ sta' = sta \cup {"DATAERR"}
  /\ UNCHANGED moved

Sending == card.state = "data" /\ card.next < Capacity

BlockIn ==
  /\ pc = "data" /\ dpsm.way = "in" /\ Sending
  /\ \/ Passed("tran")
     \/ Fault("data") /\ Broken /\ card' = Crossed("tran")
  /\ UNCHANGED <<pc, call, ok, resp, wire, unread>>

BlockOut ==
  /\ pc = "data" /\ dpsm.way = "out" /\ card.state = "rcv"
  /\ \/ Passed("prg")
     \/ /\ Fault("data") /\ Broken
        /\ card' = [card EXCEPT !.state = IF card.open THEN @ ELSE "tran"]
  /\ UNCHANGED <<pc, call, ok, resp, wire, unread>>

\* Nobody takes the block of a card that goes on sending: with the data path
\* still open the FIFO overruns.
BlockLost ==
  /\ pc # "data" /\ pc # "command" /\ Sending
  /\ card' = Crossed("tran")
  /\ IF dpsm.way = "in" THEN Broken ELSE UNCHANGED <<dpsm, sta, moved>>
  /\ UNCHANGED <<pc, call, ok, resp, wire, faults, unread>>

\* Nothing comes, or nothing is taken: the time-out of the data path, 2^32 - 1
\* clocks, or the missing CRC status.
DataTimeout ==
  /\ pc = "data" /\ wire = << >>
  /\ \/ dpsm.way = "in" /\ ~Sending
     \/ dpsm.way = "out" /\ card.state # "rcv"
  /\ Broken
  /\ UNCHANGED <<pc, call, ok, resp, wire, card, faults, unread>>

Programmed ==
  /\ card.state = "prg"
  /\ card' = [card EXCEPT !.state = "tran"]
  /\ UNCHANGED <<pc, call, ok, sta, resp, wire, dpsm, moved, faults, unread>>

Hardware == Answer \/ BlockIn \/ BlockOut \/ DataTimeout \/ Programmed

-----------------------------------------------------------------------------

\* HAL_SD_Init has selected the card, and its last answer was judged.
Init ==
  /\ pc = "idle" /\ ok = TRUE
  /\ call = [op |-> "read", first |-> 0, n |-> 0]
  /\ sta = {} /\ resp = [cmd |-> 0, err |-> FALSE, state |-> "tran"]
  /\ wire = << >>
  /\ dpsm = [way |-> "off", left |-> 0]
  /\ card = [state |-> "tran", next |-> 0, open |-> FALSE, lost |-> FALSE]
  /\ moved = << >>
  /\ faults = 0 /\ unread = FALSE

\* The range was checked by the SCSI layer.
Calls == \E op \in {"read", "write"}, first \in 0 .. Capacity - 1,
           n \in 1 .. MaxCount :
             first + n <= Capacity /\ Start(op, first, n)

Next == Calls \/ Driver \/ Hardware \/ BlockLost

Spec == Init /\ [][Next]_vars

\* The driver polls; the peripheral ends every command and every transfer.
FairSpec == Spec /\ WF_vars(Driver) /\ WF_vars(Answer)
              /\ WF_vars(BlockIn \/ BlockOut \/ DataTimeout)
              /\ WF_vars(Programmed)

-----------------------------------------------------------------------------
(* Properties.                                                             *)

CardStates == {"tran", "data", "rcv", "prg"}

\* Types.  The data path never expects less than no block.
TypeOK ==
  /\ pc \in {"idle", "blocklen", "command", "data", "stop", "programming"}
  /\ call \in [op : {"read", "write"}, first : Nat, n : 0 .. MaxCount]
  /\ ok \in BOOLEAN
  /\ sta \in SUBSET Flags
  /\ resp \in [cmd : Commands \cup {0}, err : BOOLEAN, state : CardStates]
  /\ wire \in Seq(Commands)
  /\ dpsm \in [way : {"off", "in", "out"}, left : 0 .. MaxCount]
  /\ card \in [state : CardStates, next : Nat, open : BOOLEAN, lost : BOOLEAN]
  /\ moved \in Seq(Nat)
  /\ faults \in Nat
  /\ unread \in BOOLEAN

\* A call that returns SD_OK has moved every block it was asked for, each at
\* its own place, whatever the calls before it have left in the flags and in
\* the card (HAL_SD_ReadBlocks, HAL_SD_WriteBlocks).  The exception is the one
\* of OwnAnswer: judged by an old answer, a read may take the blocks that a
\* card sends for an earlier call.
OkMoved ==
  pc = "idle" /\ ok /\ ~unread /\ call.n > 0 =>
    moved = [i \in 1 .. call.n |-> call.first + i - 1]

Waited ==
  CASE pc = "blocklen"    -> SET_BLOCKLEN
    [] pc = "command"     -> TransferCommand
    [] pc = "stop"        -> STOP_TRANSMISSION
    [] pc = "programming" -> SEND_STATUS
    [] OTHER              -> 0

\* A wait never ends while its own command is still on the line: no answer is
\* left in the flags for a later command to be judged by, except by a read of
\* a single block that fails, whose answer is never looked at; and that ends
\* with the first call that finds no answer there (HAL_SD_ReadBlocks,
\* SD_CmdResp1Error).
OwnAnswer ==
  Waited # 0 /\ Answered /\ (\E i \in DOMAIN wire : wire[i] = Waited) => unread

\* Every call returns, except a write of several blocks whose stop command was
\* lost: it asks a card that waits for data whether it has finished.
Asking == pc = "programming" /\ card.state = "rcv"
Returns == pc # "idle" ~> pc = "idle" \/ Asking

\* A call leaves the card ready for the next one.
ReadyAgain == pc = "idle" => card.state = "tran"
=============================================================================
