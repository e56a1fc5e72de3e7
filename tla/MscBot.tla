------------------------------- MODULE MscBot -------------------------------
(***************************************************************************)
(* The mass-storage function of the firmware: the Bulk-Only Transport      *)
(* state machine (usbd_msc_bot.c), the SCSI commands it dispatches to      *)
(* (usbd_msc_scsi.c), the class requests that reset it (usbd_msc.c) and    *)
(* the storage callbacks behind it (usbd_storage.c), together with the USB *)
(* host that drives it.                                                    *)
(*                                                                         *)
(* Every handler of the code runs to completion inside OTG_FS_IRQHandler,  *)
(* so a handler is one step.  It is written as a function from the record  *)
(* dev (USBD_MSC_BOT_HandleTypeDef and the state of the two bulk           *)
(* endpoints) to the record it leaves.  The bus runs beside the handlers:  *)
(* a packet moves when the endpoint is armed, and the handler that the     *)
(* completion interrupt calls runs later.                                  *)
(*                                                                         *)
(* Sizes are counted in units; a block is BlkSize units, a full packet is  *)
(* one unit and every short reply (INQUIRY, sense data, ...) is one unit.  *)
(***************************************************************************)
EXTENDS Integers, Sequences

CONSTANTS
  Capacity,     \* [LUN -> blocks], what Storage_GetCapacity_FS reports
  BlkSize,      \* units in a block (512 bytes)
  Slots,        \* blocks in bot_data: MSC_MEDIA_PACKET / 512
  SenseDepth,   \* SENSE_LIST_DEEPTH
  U32, U16,     \* number of values of a uint32_t and of a uint16_t
  Commands,     \* the command blocks the host may send
  MediaFaults,  \* may Storage_Read_FS / Storage_Write_FS fail?
  Timeouts,     \* may the host give up on a command and reset?
  PortResets,   \* may the host reset the port and configure again?
  AutoSense     \* does the host send REQUEST SENSE after a failed command?

Luns == DOMAIN Capacity
MediaPacket == Slots * BlkSize

BlockOps == {"READ10", "WRITE10"}
InfoOps  == {"INQUIRY", "READ_CAPACITY10", "READ_FORMAT_CAPACITIES",
             "MODE_SENSE6", "MODE_SENSE10", "REQUEST_SENSE"}
ControlOps == {"TEST_UNIT_READY", "START_STOP_UNIT", "VERIFY10"}
SenseCodes == {"NONE", "JUNK", "INVALID_CDB", "INVALID_FIELED_IN_COMMAND",
               "MEDIUM_NOT_PRESENT", "ADDRESS_OUT_OF_RANGE",
               "UNRECOVERED_READ_ERROR", "WRITE_FAULT"}

\* A command block wrapper.  ok: its length, signature, LUN number and
\* bCBLength pass MSC_BOT_CBW_Decode's check.  alloc: params[4] of the short
\* replies.  flag: the EVPD bit of INQUIRY, the BYTCHK bit of VERIFY10.
CommandType == [op : BlockOps \cup InfoOps \cup ControlOps \cup {"UNKNOWN"},
                lun : Luns, lba : Nat, nblk : Nat, dir : {"in", "out"},
                dlen : Nat, alloc : {0, 1}, flag : BOOLEAN, ok : BOOLEAN]

Min2(a, b) == IF a < b THEN a ELSE b

ASSUME ConstantsAssumption ==
  /\ BlkSize \in Nat \ {0, 1}
  /\ Slots \in Nat \ {0}
  /\ SenseDepth \in Nat \ {0}
  /\ U32 \in Nat \ {0}
  /\ U16 \in Nat \ {0}
  /\ 0 \in Luns
  /\ \A l \in Luns : Capacity[l] \in Nat
  /\ Commands \subseteq CommandType
  /\ {MediaFaults, Timeouts, PortResets, AutoSense} \subseteq BOOLEAN

VARIABLES
  dev,     \* the class handle and the bulk endpoints
  irq,     \* endpoint completions not serviced yet, in bus order
  hphase,  \* what the host is doing
  hcmd,    \* the command it is doing it for
  hrem,    \* units it still has to move in the data phase
  hrecv,   \* blocks it has received
  hres     \* how its last command ended

vars == <<dev, irq, hphase, hcmd, hrem, hrecv, hres>>

Tags == {0, 1}
JunkTag == 2

\* What a data packet leaves in hmsc->cbw when that is where it lands.
JunkCBW == [tag |-> JunkTag, op |-> "UNKNOWN", lun |-> 0, lba |-> 0,
            nblk |-> 0, dir |-> "out", dlen |-> 0, alloc |-> 0,
            flag |-> FALSE, ok |-> FALSE]

NoXfer == [kind |-> "none"]

\* bot_data, block by block: a block of a medium, or of the host's data, is
\* known by its number; a short reply by what it says.
Block(n) == [blk |-> n]
Info(what) == [what |-> what]
Blocks == [blk : Int]
Infos  == [what : SenseCodes \cup InfoOps]
Slot   == Blocks \cup Infos

-----------------------------------------------------------------------------
(* Endpoints and sense data.                                               *)

USBD_LL_Transmit(d, xfer) == [d EXCEPT !.tx = xfer]

USBD_LL_PrepareReceive(d, buf, len) == [d EXCEPT !.rx = buf, !.rx_len = len]

\* Mutant: the index does not wrap.
SenseCode_NoWrap(d, asc) ==
  [d EXCEPT !.sense[d.tail] = asc, !.tail = d.tail + 1]

\* The list is a ring that only RequestSense advances at the head.
SCSI_SenseCode(d, asc) ==
  [d EXCEPT !.sense[d.tail] = asc, !.tail = (d.tail + 1) % SenseDepth]

Good(d) == [dev |-> d, ret |-> 0]
Bad(d, asc) == [dev |-> SCSI_SenseCode(d, asc), ret |-> -1]

\* Storage_IsReady_FS: started by the first Storage_Init_FS, for every LUN.
IsReady(d) == d.started

(* The BOT replies.                                                        *)

\* Mutant: the residue keeps the length the host asked for.
SendData_NoResidue(d) ==
  USBD_LL_Transmit([d EXCEPT !.csw.status = "PASSED", !.state = "SEND_DATA"],
                   [kind |-> "info", len |-> Min2(d.cbw.dlen, d.data_length),
                    what |-> d.data[1]])

MSC_BOT_SendData(d) ==
  LET len == Min2(d.cbw.dlen, d.data_length)
  IN  USBD_LL_Transmit([d EXCEPT !.csw.residue = @ - len,
                                 !.csw.status = "PASSED",
                                 !.state = "SEND_DATA"],
                       [kind |-> "info", len |-> len, what |-> d.data[1]])

MSC_BOT_SendCSW(d, status) ==
  LET c == [d EXCEPT !.csw.status = status, !.state = "IDLE"]
  IN  USBD_LL_PrepareReceive(
        USBD_LL_Transmit(c, [kind |-> "csw", csw |-> c.csw]), "cbw", 1)

MSC_BOT_Abort(d) ==
  LET out == d.cbw.dir = "out" /\ d.cbw.dlen # 0 /\ d.status = "NORMAL"
      h   == [d EXCEPT !.halt_out = @ \/ out, !.halt_in = TRUE]
  IN  IF d.status = "ERROR" THEN USBD_LL_PrepareReceive(h, "cbw", 1) ELSE h

-----------------------------------------------------------------------------
(* The SCSI commands.  Each returns the handle it leaves and 0 or -1.      *)

SCSI_TestUnitReady(d) ==
  CASE d.cbw.dlen # 0 -> Bad(d, "INVALID_CDB")
    [] d.cbw.dlen = 0 /\ ~IsReady(d) ->
         Bad([d EXCEPT !.state = "NO_DATA"], "MEDIUM_NOT_PRESENT")
    [] OTHER -> Good([d EXCEPT !.data_length = 0])

InfoReply(d, what, len) ==
  Good([d EXCEPT !.data[1] = Info(what), !.data_length = len])

SCSI_Inquiry(d) ==
  InfoReply(d, d.cbw.op, IF d.cbw.flag THEN 1 ELSE d.cbw.alloc)

SCSI_ReadFormatCapacity(d) == InfoReply(d, d.cbw.op, 1)

SCSI_ModeSense(d) == InfoReply(d, d.cbw.op, 1)

\* The last command to reach this point decides, for every LUN, the limit
\* SCSI_CheckAddressRange uses.
SCSI_ReadCapacity10(d) ==
  InfoReply([d EXCEPT !.blk_nbr = Capacity[d.cbw.lun], !.blk_size = BlkSize],
            d.cbw.op, 1)

\* Mutant: the entry stays at the head of the list.
RequestSense_Keeps(d) ==
  InfoReply(d, IF d.head = d.tail THEN "NONE" ELSE d.sense[d.head], d.cbw.alloc)

SCSI_RequestSense(d) ==
  IF d.head = d.tail
  THEN InfoReply(d, "NONE", d.cbw.alloc)
  ELSE InfoReply([d EXCEPT !.head = (d.head + 1) % SenseDepth],
                 d.sense[d.head], d.cbw.alloc)

SCSI_StartStopUnit(d) == Good([d EXCEPT !.data_length = 0])

\* Mutant: off by one.
AddressRange_Short(d, blk_offset, blk_nbr) == blk_offset + blk_nbr < d.blk_nbr

\* uint32_t sum, uint16_t count, and the capacity of whichever LUN
\* SCSI_ReadCapacity10 was last asked about.
SCSI_CheckAddressRange(d, blk_offset, blk_nbr) ==
  (blk_offset + (blk_nbr % U16)) % U32 <= d.blk_nbr

SCSI_Verify10(d) ==
  CASE d.cbw.flag -> Bad(d, "INVALID_FIELED_IN_COMMAND")
    [] ~d.cbw.flag /\ ~SCSI_CheckAddressRange(d, d.blk_addr, d.blk_len) ->
         Bad(d, "ADDRESS_OUT_OF_RANGE")
    [] OTHER -> Good([d EXCEPT !.data_length = 0])

\* Division by the block size; it is 0 until the first READ CAPACITY, and
\* UDIV by zero gives 0.
Blk(d, n) == IF d.blk_size = 0 THEN 0 ELSE n \div d.blk_size

\* Storage_Read_FS and Storage_Write_FS: a medium has no block past its end.
MediumDone(d, len, ok) ==
  ok /\ Blk(d, d.blk_addr) + Blk(d, len) <= Capacity[d.cbw.lun]

\* Mutants: the address, or the residue, is not moved on.
Moved_SameAddress(d, len) ==
  [d EXCEPT !.blk_len = @ - len, !.csw.residue = @ - len]
Moved_NoResidue(d, len) ==
  [d EXCEPT !.blk_addr = (@ + len) % U32, !.blk_len = @ - len]

\* The bookkeeping both directions share.
Moved(d, len) ==
  [d EXCEPT !.blk_addr = (@ + len) % U32, !.blk_len = @ - len,
            !.csw.residue = @ - len]

SCSI_ProcessRead(d, ok) ==
  LET len  == Min2(d.blk_len, MediaPacket)
      n    == Blk(d, len)
      at   == Blk(d, d.blk_addr)
      full == [d EXCEPT !.data = [i \in 1 .. Slots |->
                 IF i <= n THEN Block(at + i - 1) ELSE d.data[i]]]
      sent == Moved(USBD_LL_Transmit(full,
                [kind |-> "blocks", len |-> len,
                 blks |-> [i \in 1 .. n |-> full.data[i]]]), len)
  IN  IF ~MediumDone(d, len, ok)
      THEN Bad(d, "UNRECOVERED_READ_ERROR")
      ELSE Good([sent EXCEPT
                   !.state = IF sent.blk_len = 0 THEN "LAST_DATA_IN" ELSE @])

SCSI_ProcessWrite(d, ok) ==
  LET len  == Min2(d.blk_len, MediaPacket)
      at   == Blk(d, d.blk_addr)
      new  == {<<d.cbw.lun, at + i - 1, d.data[i]>> : i \in 1 .. Blk(d, len)}
      done == Moved([d EXCEPT !.written = @ \cup new], len)
  IN  IF ~MediumDone(d, len, ok)
      THEN Bad(d, "WRITE_FAULT")
      ELSE Good(IF done.blk_len = 0
                THEN MSC_BOT_SendCSW(done, "PASSED")
                ELSE USBD_LL_PrepareReceive(done, "data",
                                            Min2(done.blk_len, MediaPacket)))

\* What READ10 and WRITE10 take from the command block.
CdbRange(d) == [d EXCEPT !.blk_addr = d.cbw.lba, !.blk_len = d.cbw.nblk]
InUnits(d) == [d EXCEPT !.blk_addr = (@ * d.blk_size) % U32,
                        !.blk_len = (@ * d.blk_size) % U32]

SCSI_Read10(d, ok) ==
  LET r == CdbRange(d)
      u == [InUnits(r) EXCEPT !.state = "DATA_IN"]
  IN  CASE d.state # "IDLE" ->
             SCSI_ProcessRead([d EXCEPT !.data_length = MediaPacket], ok)
        [] d.state = "IDLE" /\ d.cbw.dir # "in" -> Bad(d, "INVALID_CDB")
        [] d.state = "IDLE" /\ d.cbw.dir = "in" /\ ~IsReady(d) ->
             Bad(d, "MEDIUM_NOT_PRESENT")
        [] OTHER ->
             IF ~SCSI_CheckAddressRange(r, r.blk_addr, r.blk_len)
             THEN Bad(r, "ADDRESS_OUT_OF_RANGE")
             ELSE IF d.cbw.dlen # u.blk_len
             THEN Bad(u, "INVALID_CDB")
             ELSE SCSI_ProcessRead([u EXCEPT !.data_length = MediaPacket], ok)

SCSI_Write10(d, ok) ==
  LET r == CdbRange(d)
      u == InUnits(r)
  IN  CASE d.state # "IDLE" -> SCSI_ProcessWrite(d, ok)
        [] d.state = "IDLE" /\ d.cbw.dir = "in" -> Bad(d, "INVALID_CDB")
        [] d.state = "IDLE" /\ d.cbw.dir # "in" /\ ~IsReady(d) ->
             Bad(d, "MEDIUM_NOT_PRESENT")
        [] OTHER ->
             IF ~SCSI_CheckAddressRange(r, r.blk_addr, r.blk_len)
             THEN Bad(r, "ADDRESS_OUT_OF_RANGE")
             ELSE IF d.cbw.dlen # u.blk_len
             THEN Bad(u, "INVALID_CDB")
             ELSE Good(USBD_LL_PrepareReceive(
                         [u EXCEPT !.state = "DATA_OUT"],
                         "data", Min2(u.blk_len, MediaPacket)))

SCSI_ProcessCmd(d, ok) ==
  CASE d.cbw.op = "TEST_UNIT_READY"        -> SCSI_TestUnitReady(d)
    [] d.cbw.op = "REQUEST_SENSE"          -> SCSI_RequestSense(d)
    [] d.cbw.op = "INQUIRY"                -> SCSI_Inquiry(d)
    [] d.cbw.op = "START_STOP_UNIT"        -> SCSI_StartStopUnit(d)
    [] d.cbw.op \in {"MODE_SENSE6", "MODE_SENSE10"} -> SCSI_ModeSense(d)
    [] d.cbw.op = "READ_FORMAT_CAPACITIES" -> SCSI_ReadFormatCapacity(d)
    [] d.cbw.op = "READ_CAPACITY10"        -> SCSI_ReadCapacity10(d)
    [] d.cbw.op = "READ10"                 -> SCSI_Read10(d, ok)
    [] d.cbw.op = "WRITE10"                -> SCSI_Write10(d, ok)
    [] d.cbw.op = "VERIFY10"               -> SCSI_Verify10(d)
    [] OTHER                               -> Bad(d, "INVALID_CDB")

-----------------------------------------------------------------------------
(* The Bulk-Only Transport handlers.                                       *)

MSC_BOT_CBW_Decode(d0, ok) ==
  LET d == [d0 EXCEPT !.csw.tag = d0.cbw.tag, !.csw.residue = d0.cbw.dlen]
      r == SCSI_ProcessCmd(d, ok)
      e == r.dev
  IN  CASE ~d.cbw.ok ->
             MSC_BOT_Abort([SCSI_SenseCode(d, "INVALID_CDB")
                              EXCEPT !.status = "ERROR"])
        [] d.cbw.ok /\ r.ret < 0 ->
             IF e.state = "NO_DATA" THEN MSC_BOT_SendCSW(e, "FAILED")
                                    ELSE MSC_BOT_Abort(e)
        [] OTHER ->
             IF e.state \in {"DATA_IN", "DATA_OUT", "LAST_DATA_IN"} THEN e
             ELSE IF e.data_length > 0 THEN MSC_BOT_SendData(e)
             ELSE MSC_BOT_SendCSW(e, "PASSED")

\* Mutant: the failure is answered as a success.
ContinueOrFail_Passed(d, ok) ==
  LET r == SCSI_ProcessCmd(d, ok)
  IN  IF r.ret < 0 THEN MSC_BOT_SendCSW(r.dev, "PASSED") ELSE r.dev

\* A data stage that fails is answered at once with a CSW.
ContinueOrFail(d, ok) ==
  LET r == SCSI_ProcessCmd(d, ok)
  IN  IF r.ret < 0 THEN MSC_BOT_SendCSW(r.dev, "FAILED") ELSE r.dev

MSC_BOT_DataIn(d, ok) ==
  CASE d.state = "DATA_IN" -> ContinueOrFail(d, ok)
    [] d.state \in {"SEND_DATA", "LAST_DATA_IN"} -> MSC_BOT_SendCSW(d, "PASSED")
    [] OTHER -> d

MSC_BOT_DataOut(d, ok) ==
  CASE d.state = "IDLE" -> MSC_BOT_CBW_Decode(d, ok)
    [] d.state = "DATA_OUT" -> ContinueOrFail(d, ok)
    [] OTHER -> d

\* Mutant: no wrapper is awaited after a reset.
Reset_NoRearm(d) == [d EXCEPT !.state = "IDLE", !.status = "RECOVERY"]

MSC_BOT_Reset(d) ==
  USBD_LL_PrepareReceive([d EXCEPT !.state = "IDLE", !.status = "RECOVERY"],
                         "cbw", 1)

\* Mutant: the packet stays in the FIFO.
FlushEP_Keeps(d, ep) == d

\* Flushing the IN FIFO cancels the transfer that was waiting in it.
USBD_LL_FlushEP(d, ep) == IF ep = "in" THEN [d EXCEPT !.tx = NoXfer] ELSE d

\* Storage_Init_FS, both FIFOs flushed, the first CBW awaited.  The memory
\* of the other fields is static: a new configuration does not clear it.
MSC_BOT_Init(d) ==
  USBD_LL_PrepareReceive(
    USBD_LL_FlushEP([d EXCEPT !.state = "IDLE", !.status = "NORMAL",
                              !.head = 0, !.tail = 0, !.started = TRUE], "in"),
    "cbw", 1)

\* Mutant: clearing the halt of the IN endpoint sends no status.
CplClrFeature_NoCSW(d, ep) ==
  IF d.status = "ERROR" THEN [d EXCEPT !.halt_in = TRUE, !.status = "NORMAL"]
  ELSE d

MSC_BOT_CplClrFeature(d, ep) ==
  CASE d.status = "ERROR" -> [d EXCEPT !.halt_in = TRUE, !.status = "NORMAL"]
    [] d.status # "ERROR" /\ ep = "in" /\ d.status # "RECOVERY" ->
         MSC_BOT_SendCSW(d, "FAILED")
    [] OTHER -> d

\* CLEAR_FEATURE(ENDPOINT_HALT): USBD_StdEPReq clears the halt, then
\* USBD_MSC_Setup flushes, closes and opens the endpoint and completes.
ClearFeature(d, ep) ==
  LET c == IF ep = "in" THEN [d EXCEPT !.halt_in = FALSE]
                        ELSE [d EXCEPT !.halt_out = FALSE]
  IN  MSC_BOT_CplClrFeature(USBD_LL_FlushEP(c, ep), ep)

-----------------------------------------------------------------------------
(* The state at power-up, and the interrupt handlers.                      *)

ColdDev ==
  [state |-> "IDLE", status |-> "NORMAL", data_length |-> 0, 
   data |-> [i \in 1 .. Slots |-> Info("NONE")],
   cbw |-> JunkCBW, csw |-> [tag |-> JunkTag, residue |-> 0,
                             status |-> "PASSED"],
   sense |-> [i \in 0 .. SenseDepth - 1 |-> "NONE"], head |-> 0, tail |-> 0,
   blk_size |-> 0, blk_nbr |-> 0, blk_addr |-> 0, blk_len |-> 0,
   started |-> FALSE, tx |-> NoXfer, rx |-> "none", rx_len |-> 0,
   halt_in |-> FALSE, halt_out |-> FALSE, written |-> {}]

\* The host has configured the device for the first time.
Init ==
  /\ dev = MSC_BOT_Init(ColdDev)
  /\ irq = << >>
  /\ hphase = "idle"
  /\ hcmd = JunkCBW
  /\ hrem = 0
  /\ hrecv = << >>
  /\ hres = "none"

host == <<hphase, hcmd, hrem, hrecv, hres>>

StorageOutcomes == IF MediaFaults THEN BOOLEAN ELSE {TRUE}

\* HAL_PCD_IRQHandler reads the receive FIFO after it has served both
\* endpoints, one entry a pass.  So an IN completion is never overtaken by an
\* OUT packet that arrived after it, and both are served before a SETUP
\* packet that followed them on the bus.
InPending == irq \in {<<"in">>, <<"in", "out">>, <<"out", "in">>}
OutPending == irq \in {<<"out">>, <<"in", "out">>, <<"out", "in">>}

DevDataIn ==
  /\ InPending
  /\ irq' = IF Head(irq) = "in" THEN Tail(irq) ELSE <<"out">>
  /\ \E ok \in StorageOutcomes : dev' = MSC_BOT_DataIn(dev, ok)
  /\ UNCHANGED host

DevDataOut ==
  /\ irq # << >>
  /\ Head(irq) = "out"
  /\ irq' = Tail(irq)
  /\ \E ok \in StorageOutcomes : dev' = MSC_BOT_DataOut(dev, ok)
  /\ UNCHANGED host

\* A control request the host makes; the device serves it after everything
\* that came before it.
Setup(d) ==
  /\ irq = << >>
  /\ dev' = d
  /\ UNCHANGED irq

-----------------------------------------------------------------------------
(* The host: a Bulk-Only Transport initiator that sends one command at a   *)
(* time, moves its data, takes its status and falls back on reset          *)
(* recovery when the device does not follow the protocol.                  *)

Tagged(c, t) == [tag |-> t, op |-> c.op, lun |-> c.lun, lba |-> c.lba,
                 nblk |-> c.nblk, dir |-> c.dir, dlen |-> c.dlen,
                 alloc |-> c.alloc, flag |-> c.flag, ok |-> c.ok]

DataPhase(c) == IF c.dlen = 0 THEN "status"
                ELSE IF c.dir = "in" THEN "dataIn" ELSE "dataOut"

\* dev.written is history: what has reached a medium since this command.
HostSendCBW(c) ==
  /\ hphase = "idle"
  /\ dev.rx = "cbw"
  /\ ~dev.halt_out
  /\ AutoSense /\ hres = "FAILED" => c.op = "REQUEST_SENSE"
  /\ hcmd' = Tagged(c, (hcmd.tag + 1) % 2)
  /\ dev' = [dev EXCEPT !.cbw = hcmd', !.rx = "none", !.written = {}]
  /\ irq' = Append(irq, "out")
  /\ hphase' = DataPhase(c)
  /\ hrem' = c.dlen
  /\ hrecv' = << >>
  /\ hres' = "none"

\* len units of the host's data, from unit pos on, fill bot_data.
HostBlocks(pos, len) ==
  [i \in 1 .. Slots |-> IF i <= len \div BlkSize
                       THEN Block((pos \div BlkSize) + i - 1)
                       ELSE dev.data[i]]

\* A packet of data that lands in hmsc->cbw is longer than the wrapper and
\* runs over csw and the sense list that follow it.
OverCBW(d) == [d EXCEPT !.cbw = JunkCBW,
                        !.csw = [tag |-> JunkTag, residue |-> 0,
                                 status |-> "JUNK"],
                        !.sense = [i \in DOMAIN d.sense |-> "JUNK"]]

HostSendData ==
  LET len == IF dev.rx = "data" THEN Min2(hrem, dev.rx_len) ELSE 1
      d   == IF dev.rx = "data"
             THEN [dev EXCEPT !.data = HostBlocks(hcmd.dlen - hrem, len)]
             ELSE OverCBW(dev)
  IN  /\ hphase = "dataOut"
      /\ dev.rx # "none"
      /\ ~dev.halt_out
      /\ dev' = [d EXCEPT !.rx = "none"]
      /\ irq' = Append(irq, "out")
      /\ hrem' = hrem - len
      /\ hphase' = IF hrem' = 0 THEN "status" ELSE hphase
      /\ UNCHANGED <<hcmd, hrecv, hres>>

\* The host takes the packet that waits on the IN endpoint.
HostTakes(x) ==
  /\ dev.tx = x
  /\ ~dev.halt_in
  /\ dev' = [dev EXCEPT !.tx = NoXfer]
  /\ irq' = Append(irq, "in")
  /\ UNCHANGED hcmd

\* Anything but full blocks is a short packet and ends the data phase; a CSW
\* that comes here is lost on the host.
HostReceiveData ==
  /\ hphase = "dataIn"
  /\ dev.tx.kind # "none"
  /\ HostTakes(dev.tx)
  /\ LET len == IF dev.tx.kind = "csw" THEN 0 ELSE dev.tx.len
         got == IF dev.tx.kind = "blocks" THEN dev.tx.blks ELSE << >>
     IN  /\ hrem' = hrem - len
         /\ hrecv' = hrecv \o got
         /\ hphase' = IF got # << >> /\ hrem' # 0 THEN "dataIn" ELSE "status"
  /\ UNCHANGED hres

HostReceiveCSW ==
  /\ hphase \in {"status", "status2"}
  /\ dev.tx.kind = "csw"
  /\ dev.tx.csw.tag = hcmd.tag
  /\ HostTakes(dev.tx)
  /\ hphase' = "idle"
  /\ hres' = dev.tx.csw.status
  /\ UNCHANGED <<hrem, hrecv>>

\* No valid CSW where one is due: reset recovery.
HostReceiveInvalid ==
  /\ hphase \in {"status", "status2"}
  /\ \/ dev.tx.kind \in {"blocks", "info"}
     \/ dev.tx.kind = "csw" /\ dev.tx.csw.tag # hcmd.tag
  /\ HostTakes(dev.tx)
  /\ hphase' = "reset"
  /\ UNCHANGED <<hrem, hrecv, hres>>

\* STALL: the host clears the halt and goes on to the status; a second STALL
\* of the status leads to reset recovery.
HostClearHalt ==
  /\ \/ /\ hphase = "dataOut" /\ dev.halt_out
        /\ Setup(ClearFeature(dev, "out"))
        /\ hphase' = "status"
     \/ /\ hphase \in {"dataIn", "status"} /\ dev.halt_in
        /\ Setup(ClearFeature(dev, "in"))
        /\ hphase' = IF hphase = "dataIn" THEN "status" ELSE "status2"
  /\ UNCHANGED <<hcmd, hrem, hrecv, hres>>

HostStalledAgain ==
  /\ \/ hphase = "status2" /\ dev.halt_in
     \/ hphase = "idle" /\ dev.halt_out
  /\ hphase' = "reset"
  /\ UNCHANGED <<dev, irq, hcmd, hrem, hrecv, hres>>

HostTimeout ==
  /\ Timeouts
  /\ hphase \in {"dataIn", "dataOut", "status", "status2"}
  /\ hphase' = "reset"
  /\ UNCHANGED <<dev, irq, hcmd, hrem, hrecv, hres>>

\* Reset recovery: the class reset, then both halts cleared.
HostResetRecovery ==
  /\ \/ /\ hphase = "reset"
        /\ Setup(MSC_BOT_Reset(dev))
        /\ hphase' = "clear_in"
        /\ UNCHANGED hres
     \/ /\ hphase = "clear_in"
        /\ Setup(ClearFeature(dev, "in"))
        /\ hphase' = "clear_out"
        /\ UNCHANGED hres
     \/ /\ hphase = "clear_out"
        /\ Setup(ClearFeature(dev, "out"))
        /\ hphase' = "idle"
        /\ hres' = "RESET"
  /\ UNCHANGED <<hcmd, hrem, hrecv>>

\* Port reset and enumeration: the interrupt handler discards the endpoint
\* interrupts, MSC_BOT_DeInit and MSC_BOT_Init run; no one clears a halt.
HostPortReset ==
  /\ PortResets
  /\ dev' = MSC_BOT_Init([dev EXCEPT !.state = "IDLE"])
  /\ irq' = << >>
  /\ hphase' = "idle"
  /\ hres' = "RESET"
  /\ UNCHANGED <<hcmd, hrem, hrecv>>

HostStep ==
  \/ HostSendData
  \/ HostReceiveData
  \/ HostReceiveCSW
  \/ HostReceiveInvalid
  \/ HostClearHalt
  \/ HostStalledAgain
  \/ HostResetRecovery

Next ==
  \/ DevDataIn
  \/ DevDataOut
  \/ \E c \in Commands : HostSendCBW(c)
  \/ HostStep
  \/ HostTimeout
  \/ HostPortReset

Spec == Init /\ [][Next]_vars

\* The interrupt handlers run, and a host in the middle of a command goes on
\* with it; nobody has to start a command.
Fairness ==
  /\ WF_vars(DevDataIn)
  /\ WF_vars(DevDataOut)
  /\ WF_vars(HostStep)
  /\ WF_vars(HostTimeout)

FairSpec == Spec /\ Fairness

-----------------------------------------------------------------------------
(* What the theorems about whole transfers assume of the host, and every   *)
(* instance checked by TLC satisfies.                                      *)

\* The blocks of a transfer are counted in 16 bits, and their byte addresses
\* fit in the 32 bits of scsi_blk_addr.
Addressable(c) ==
  c.op \in BlockOps => c.nblk < U16 /\ (c.lba + c.nblk) * BlkSize < U32

\* WRITE10 is the only command the device supports that takes data from the
\* host: any other that comes with some is one it refuses.
TakesItsData(c) ==
  c.dir = "out" /\ c.dlen # 0 =>
    c.op \in BlockOps \cup {"TEST_UNIT_READY", "UNKNOWN"}

Sane(c) == c.ok => Addressable(c) /\ TakesItsData(c)

HostCommands == \A c \in Commands : Sane(c)

\* VERIFY10 without BYTCHK checks whatever range the transfer before it left,
\* so its verdict is not its own: the theorems on verdicts are about hosts
\* that do not send it, nor a wrapper the device may not read at all.
WellFormed == \A c \in Commands : c.ok /\ (c.op = "VERIFY10" => c.flag)

\* One unit (ONLY_SDCARD in usbd_storage.c), or units of one size.
SameCapacity == \A k, l \in Luns : Capacity[k] = Capacity[l]

-----------------------------------------------------------------------------
(* Properties.                                                             *)

CBWType == [tag : Tags \cup {JunkTag}, op : BlockOps \cup InfoOps \cup
              ControlOps \cup {"UNKNOWN"}, lun : Luns, lba : Nat, nblk : Nat,
            dir : {"in", "out"}, dlen : Nat, alloc : {0, 1},
            flag : BOOLEAN, ok : BOOLEAN]

States == {"IDLE", "DATA_OUT", "DATA_IN", "LAST_DATA_IN", "SEND_DATA",
           "NO_DATA"}
Statuses == {"PASSED", "FAILED", "JUNK"}
CSWType == [tag : Tags \cup {JunkTag}, residue : Int, status : Statuses]

XferType ==
  {NoXfer} \cup [kind : {"info"}, len : Nat, what : Slot]
           \cup [kind : {"blocks"}, len : Nat, blks : Seq(Slot)]
           \cup [kind : {"csw"}, csw : CSWType]

DevType ==
  [state : States, status : {"NORMAL", "RECOVERY", "ERROR"}, data_length : Nat,
   data : [1 .. Slots -> Slot], cbw : CBWType, csw : CSWType,
   sense : [0 .. SenseDepth - 1 -> SenseCodes],
   head : 0 .. SenseDepth - 1, tail : 0 .. SenseDepth - 1,
   blk_size : {0, BlkSize}, blk_nbr : Nat, blk_addr : Nat, blk_len : Nat,
   started : BOOLEAN, tx : XferType, rx : {"none", "cbw", "data"},
   rx_len : Nat, halt_in : BOOLEAN, halt_out : BOOLEAN,
   written : SUBSET (Luns \X Int \X Slot)]

\* Every variable keeps its type: the indices of the sense ring stay inside
\* it, the counters of a transfer never go below zero, and a completion is
\* pending at most once for each endpoint.
TypeOK ==
  /\ dev \in DevType
  /\ irq \in {<< >>, <<"in">>, <<"out">>, <<"in", "out">>, <<"out", "in">>}
  /\ hphase \in {"idle", "dataIn", "dataOut", "status", "status2", "reset",
                 "clear_in", "clear_out"}
  /\ hcmd \in CBWType
  /\ hrem \in Int
  /\ hrecv \in Seq(Slot)
  /\ hres \in {"none", "RESET"} \cup Statuses

\* Whenever the host may send a command the device waits for one: its state
\* machine is idle, a CBW buffer is armed and no answer is left over, however
\* the last command ended.
IdleArmed ==
  hphase = "idle" =>
    /\ dev.state = "IDLE"
    /\ dev.rx = "cbw"
    /\ dev.tx = NoXfer

\* ... and, unless the port was reset, no endpoint is halted: recovery after
\* a failure, a time-out or a refused wrapper always ends where it should.
IdleReady == IdleArmed /\ (hphase = "idle" => ~dev.halt_in /\ ~dev.halt_out)

InStates == {"DATA_IN", "SEND_DATA", "LAST_DATA_IN"}

\* The discipline the handlers keep between the state machine, the two
\* endpoints and the completions on their way, with nothing in the code that
\* checks it: an endpoint with a completion pending is not armed; while data
\* goes one way nothing is armed or pending the other way; the command block
\* stays the one the transfer belongs to; a status is only sent from IDLE;
\* and a good wrapper is only decoded when no IN transfer or completion is
\* left from before it.
Discipline ==
  /\ OutPending => dev.rx = "none"
  /\ InPending => dev.tx = NoXfer
  /\ dev.state \in InStates /\ (dev.tx # NoXfer \/ InPending) =>
       /\ dev.rx = "none"
       /\ ~OutPending
       /\ dev.state = "DATA_IN" => dev.cbw.op = "READ10"
  /\ dev.state = "DATA_OUT" =>
       /\ dev.tx = NoXfer
       /\ ~InPending
       /\ dev.rx # "cbw"
       /\ dev.cbw.op = "WRITE10"
  /\ dev.rx = "data" => dev.state = "DATA_OUT"
  /\ dev.tx.kind = "csw" => dev.state = "IDLE"
  /\ OutPending /\ dev.state = "IDLE" /\ dev.cbw.ok =>
       dev.tx = NoXfer /\ irq # <<"out", "in">>
  /\ hphase = "idle" =>
       /\ dev.state = "IDLE"
       /\ dev.tx = NoXfer
       /\ OutPending => ~dev.cbw.ok
  /\ hphase \in {"clear_in", "clear_out"} =>
       /\ irq = << >>
       /\ dev.state = "IDLE"
       /\ dev.status = "RECOVERY"
       /\ hphase = "clear_out" => dev.tx = NoXfer

\* A READ10 or WRITE10 the host sees PASSED moved exactly the blocks its
\* command block names, in order, and each to its own place.
PassedMovedAll ==
  hphase = "idle" /\ hres = "PASSED" =>
    /\ hcmd.op = "READ10" =>
         hrecv = [i \in 1 .. hcmd.nblk |-> Block(hcmd.lba + i - 1)]
    /\ hcmd.op = "WRITE10" =>
         dev.written = {<<hcmd.lun, hcmd.lba + i, Block(i)>> :
                          i \in 0 .. hcmd.nblk - 1}

\* The residue of a transfer in progress is what is left of it.
ResidueIsRest ==
  /\ dev.state \in {"DATA_OUT", "LAST_DATA_IN"} => dev.csw.residue = dev.blk_len
  /\ dev.state = "DATA_IN" /\ dev.tx.kind = "blocks"
       => dev.csw.residue = dev.blk_len

\* A status that reports success reports, as its residue, exactly what the
\* host asked for and did not get or did not send.
ResidueReported ==
  hphase \in {"status", "status2"} /\ dev.tx.kind = "csw" =>
    (dev.tx.csw.tag = hcmd.tag /\ dev.tx.csw.status = "PASSED"
       => dev.tx.csw.residue = hrem)

\* A handler never starts an IN transfer over one that the host has not
\* taken: the driver has one transfer per endpoint and would drop the first.
\* (Clearing a halt flushes the endpoint, so there it may.)
TransmitWaits ==
  [][dev.tx # NoXfer /\ ~dev.halt_in /\ dev'.tx # dev.tx
       => dev'.tx = NoXfer]_vars

\* bot_data is not filled, by the medium or by the host, while the IN
\* endpoint still sends from it.
BufferHeld ==
  [][dev.tx.kind \in {"info", "blocks"} /\ dev'.tx = dev.tx
       => dev'.data = dev.data]_vars

\* Why a well-formed command has to be refused; "NONE" if it has not.
Refusal(c) ==
  CASE c.op = "TEST_UNIT_READY" /\ c.dlen # 0 -> "INVALID_CDB"
    [] c.op = "VERIFY10" /\ c.flag -> "INVALID_FIELED_IN_COMMAND"
    [] c.op = "VERIFY10" /\ ~c.flag /\ c.lba + c.nblk > Capacity[c.lun] ->
         "ADDRESS_OUT_OF_RANGE"
    [] c.op \in BlockOps /\ c.dir # (IF c.op = "READ10" THEN "in" ELSE "out") ->
         "INVALID_CDB"
    [] c.op \in BlockOps /\ c.dir = (IF c.op = "READ10" THEN "in" ELSE "out") ->
         IF c.lba + c.nblk > Capacity[c.lun] THEN "ADDRESS_OUT_OF_RANGE"
         ELSE IF c.dlen # c.nblk * BlkSize THEN "INVALID_CDB" ELSE "NONE"
    [] c.op = "UNKNOWN" -> "INVALID_CDB"
    [] OTHER -> "NONE"

\* The verdict on a command depends on that command and its own unit alone,
\* not on the commands before it, once the host has asked for the capacity.
VerdictIsOwn ==
  hphase = "idle" /\ hres \in {"PASSED", "FAILED"}
    /\ dev.blk_nbr = Capacity[hcmd.lun]
    => (hres = "PASSED" <=> Refusal(hcmd) = "NONE")

\* After a refusal the sense list holds one entry, the reason of that refusal:
\* nothing stale in front of it and nothing lost.
SenseIsOfFailure ==
  hphase = "idle" /\ hres = "FAILED" /\ dev.blk_nbr = Capacity[hcmd.lun] =>
    /\ dev.tail = (dev.head + 1) % SenseDepth
    /\ dev.sense[dev.head] = Refusal(hcmd)

\* A transfer is only ever accepted inside the logical unit it is addressed to
\* (usbd_msc_scsi.c: "check if LBA address is in the right range").
AcceptedInRange ==
  dev.state \in {"DATA_IN", "DATA_OUT", "LAST_DATA_IN"} =>
    dev.cbw.lba + dev.cbw.nblk <= Capacity[dev.cbw.lun]

\* Every command the host sends is answered by a status, without the host
\* having to time out.
Answered ==
  hphase # "idle" ~> hphase = "idle" /\ hres \in {"PASSED", "FAILED"}

\* The host has met the STALL that answers its command.  A wrapper the device
\* does not accept is another matter: that one ends in reset recovery.
Refusing ==
  /\ hphase \in {"dataIn", "status"}
  /\ dev.halt_in
  /\ dev.cbw.ok
  /\ dev.cbw.tag = hcmd.tag

\* A command the device refuses gets its status: the host clears the halt of
\* the IN endpoint, and the CSW that follows tells it of the failure
\* (usbd_msc_bot.c, MSC_BOT_CplClrFeature: "Complete the clear feature
\* request").
RefusalAnswered == Refusing ~> hphase = "idle" /\ hres = "FAILED"

=============================================================================
