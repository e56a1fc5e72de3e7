------------------------------ MODULE UsbdCore ------------------------------
(***************************************************************************)
(* The USB device core of the firmware (usbd_core.c, usbd_ctlreq.c,        *)
(* usbd_ioreq.c): enumeration, the control endpoint, suspend and resume,   *)
(* and the making and unmaking of the mass-storage class behind it, under  *)
(* the interrupt handler of the controller driver (stm32f4xx_hal_pcd.c)    *)
(* that calls it, beside the bus and the host.                             *)
(*                                                                         *)
(* The handler looks at its interrupt sources in a fixed order, one        *)
(* section after the other, while the bus goes on: a section is a step.    *)
(* The record d is what the device side keeps: the USBD handle, the        *)
(* registers of endpoint 0, the latched interrupts and the receive FIFO.   *)
(*                                                                         *)
(* What the class does with a bulk transfer is the subject of MscBot; here *)
(* its two bulk endpoints take turns, and bulk says which one is armed, or *)
(* which completion is on its way to the class.                            *)
(***************************************************************************)
EXTENDS Integers, Sequences

CONSTANTS
  MaxPacket,  \* USB_MAX_EP0_SIZE
  DescLen,    \* [descriptor -> bytes], the descriptors the device has
  Requests,   \* the SETUP packets the host may send
  Prompt      \* is the handler served before the bus is idle for 3 ms?

USBD_MAX_NUM_INTERFACES == 1
USBD_MAX_NUM_CONFIGURATION == 1
EP_HALT == 0
REMOTE_WAKEUP == 1
MSC_EPOUT == 1
MSC_EPIN == 129

Names == {"GET_DESCRIPTOR", "SET_ADDRESS", "SET_CONFIGURATION",
          "GET_CONFIGURATION", "GET_STATUS", "SET_FEATURE", "CLEAR_FEATURE",
          "GET_INTERFACE", "SET_INTERFACE", "GET_MAX_LUN", "BOT_RESET",
          "UNKNOWN"}

\* A SETUP packet.  to, kind and dir: the fields of bmRequest.  val: wValue (a
\* descriptor, a feature, an address, a configuration).  idx: wIndex, an
\* interface or the address of an endpoint.
RequestType ==
  [to : {"device", "interface", "endpoint", "other"},
   kind : {"standard", "class"}, dir : {"in", "out"},
   req : Names, val : Nat, idx : Nat, len : Nat]

ASSUME ConstantsAssumption ==
  /\ MaxPacket \in Nat \ {0}
  /\ \A k \in DOMAIN DescLen : DescLen[k] \in Nat
  /\ Requests \subseteq RequestType
  /\ Prompt \in BOOLEAN

VARIABLES
  d,     \* the device
  at,    \* the section HAL_PCD_IRQHandler looks at next
  host,  \* the host: the request it has open and what it believes
  bus    \* "on", "suspended" or "reset"

vars == <<d, at, host, bus>>

Min2(a, b) == IF a < b THEN a ELSE b

\* Where the bytes of an IN packet come from: the answer to a request, the
\* empty packet that ends a data stage, or the status stage.
Source(r) == <<r.req, r.val>>
Zlp       == <<"ZLP", 0>>
Status    == <<"STATUS", 0>>
None      == <<"NONE", 0>>

NoIn == [on |-> FALSE, src |-> None, off |-> 0, len |-> 0]
NoRequest == [to |-> "other", kind |-> "standard", dir |-> "in",
              req |-> "UNKNOWN", val |-> 0, idx |-> 0, len |-> 0]

-----------------------------------------------------------------------------
(* Endpoint 0 (usbd_conf.c, stm32f4xx_ll_usb.c, usbd_ioreq.c).             *)

\* USB_EP0StartXfer sends one packet, however long the transfer.
USBD_LL_Transmit(e, src, off, len) ==
  [e EXCEPT !.in = [on |-> TRUE, src |-> src, off |-> off,
                    len |-> Min2(len, MaxPacket)]]

\* ep0_data_len is the wLength that USBD_LL_SetupStage has left there.
USBD_CtlSendData(e, r, len) ==
  USBD_LL_Transmit([e EXCEPT !.ep0 = "DATA_IN", !.dlen = r.len,
                             !.total = len, !.rem = len], Source(r), 0, len)

\* Mutant: every packet is taken from the start of the buffer.
CtlContinue_SameBuffer(e, len) == USBD_LL_Transmit(e, e.in.src, 0, len)

\* The driver has moved xfer_buff past the packet it has loaded.
USBD_CtlContinueSendData(e, len) ==
  USBD_LL_Transmit(e, e.in.src, e.in.off + e.in.len, len)

USBD_CtlSendStatus(e) ==
  USBD_LL_Transmit([e EXCEPT !.ep0 = "STATUS_IN"], Status, 0, 0)

\* The lengths and the pointer of a data stage are not looked at again.
Forget(e) == [e EXCEPT !.dlen = 0, !.total = 0, !.rem = 0, !.in = NoIn]

USBD_CtlReceiveStatus(e) ==
  [Forget(e) EXCEPT !.ep0 = "STATUS_OUT", !.out = TRUE]

USBD_CtlError(e) == [e EXCEPT !.stallIn = TRUE, !.stallOut = TRUE]

-----------------------------------------------------------------------------
(* The class, as the core sees it (usbd_msc.c).                            *)

InFlight == {"outFifo", "outDone", "inDone"}

\* Init opens the endpoints and arms the OUT one for a command.
USBD_SetClassConfig(e) == [e EXCEPT !.class = TRUE, !.bulk = "outArmed"]

\* DeInit closes the endpoints: a completion that is on its way is masked.
USBD_ClrClassConfig(e) ==
  [e EXCEPT !.class = FALSE,
            !.bulk = IF @ \in InFlight THEN "lost" ELSE "closed"]

\* USB_FlushRxFifo: everything that was received and not yet read.
FlushRx(e) == [e EXCEPT !.rxq = << >>,
                        !.bulk = IF @ = "outFifo" THEN "lost" ELSE @]

\* CLEAR_FEATURE: the endpoint named by wIndex is flushed, closed and opened
\* again as the bulk endpoint of its direction.  With wIndex 0, that of a
\* request to the device, the one that is closed is the control endpoint: its
\* interrupts stay masked.
ClearFeature(e, r) ==
  CASE r.idx = 0           -> [FlushRx(e) EXCEPT !.masked = TRUE]
    [] r.idx = MSC_EPOUT   -> FlushRx(e)
    [] OTHER               -> e

\* The requests whose handling looks at pdev->pClassData.
UsesClassData(r) == r.kind = "class" \/ r.req \in
  {"GET_INTERFACE", "SET_INTERFACE", "CLEAR_FEATURE"}

ClassAnswer(e, r) ==
  CASE r.kind = "class" /\ r.req = "GET_MAX_LUN"
         /\ r.val = 0 /\ r.len = 1 /\ r.dir = "in" -> USBD_CtlSendData(e, r, 1)
    [] r.kind = "class" /\ r.req = "BOT_RESET"
         /\ r.val = 0 /\ r.len = 0 /\ r.dir = "out" -> e
    [] r.kind = "standard" /\ r.req = "GET_INTERFACE" -> USBD_CtlSendData(e, r, 1)
    [] r.kind = "standard" /\ r.req = "CLEAR_FEATURE" -> ClearFeature(e, r)
    [] r.kind = "standard" /\ r.req # "GET_INTERFACE"
         /\ r.req # "CLEAR_FEATURE" -> e
    [] OTHER -> USBD_CtlError(e)

USBD_MSC_Setup(e, r) ==
  ClassAnswer([e EXCEPT !.nullUse =
                 IF UsesClassData(r) /\ ~e.class THEN @ \cup {r} ELSE @], r)

-----------------------------------------------------------------------------
(* The standard requests (usbd_ctlreq.c).                                  *)

USBD_GetDescriptor(e, r) ==
  CASE r.val \notin DOMAIN DescLen -> USBD_CtlError(e)
    [] r.val \in DOMAIN DescLen /\ DescLen[r.val] # 0 /\ r.len # 0 ->
         USBD_CtlSendData(e, r, Min2(DescLen[r.val], r.len))
    [] OTHER -> e

USBD_SetAddress(e, r) ==
  IF r.idx = 0 /\ r.len = 0 /\ e.state # "CONFIGURED"
  THEN [USBD_CtlSendStatus(e) EXCEPT
          !.addr = r.val, !.state = IF r.val # 0 THEN "ADDRESSED" ELSE "DEFAULT"]
  ELSE USBD_CtlError(e)

\* The class of this firmware always takes the configuration, so the error
\* path of USBD_SetClassConfig is left out.
USBD_SetConfig(e, r) ==
  CASE r.val > USBD_MAX_NUM_CONFIGURATION
         \/ e.state \notin {"ADDRESSED", "CONFIGURED"} -> USBD_CtlError(e)
    [] e.state = "ADDRESSED" /\ r.val \in 1 .. USBD_MAX_NUM_CONFIGURATION ->
         USBD_CtlSendStatus(USBD_SetClassConfig(
           [e EXCEPT !.config = r.val, !.state = "CONFIGURED"]))
    [] e.state = "CONFIGURED" /\ r.val = 0 ->
         USBD_CtlSendStatus(USBD_ClrClassConfig(
           [e EXCEPT !.config = 0, !.state = "ADDRESSED"]))
    [] e.state = "CONFIGURED" /\ r.val \in 1 .. USBD_MAX_NUM_CONFIGURATION
         /\ r.val # e.config ->
         USBD_CtlSendStatus(USBD_SetClassConfig(
           [USBD_ClrClassConfig(e) EXCEPT !.config = r.val]))
    [] OTHER -> USBD_CtlSendStatus(e)

USBD_GetConfig(e, r) ==
  IF r.len = 1 /\ e.state \in {"ADDRESSED", "CONFIGURED"}
  THEN USBD_CtlSendData(e, r, 1) ELSE USBD_CtlError(e)

USBD_GetStatus(e, r) ==
  IF e.state \in {"ADDRESSED", "CONFIGURED"}
  THEN USBD_CtlSendData(e, r, 2) ELSE USBD_CtlError(e)

\* Any other feature gets no answer.
USBD_SetFeature(e, r) ==
  IF r.val = REMOTE_WAKEUP THEN USBD_CtlSendStatus(USBD_MSC_Setup(e, r)) ELSE e

USBD_ClrFeature(e, r) ==
  CASE e.state \notin {"ADDRESSED", "CONFIGURED"} -> USBD_CtlError(e)
    [] e.state \in {"ADDRESSED", "CONFIGURED"} /\ r.val = REMOTE_WAKEUP ->
         USBD_CtlSendStatus(USBD_MSC_Setup(e, r))
    [] OTHER -> e

USBD_StdDevReq(e, r) ==
  CASE r.req = "GET_DESCRIPTOR"    -> USBD_GetDescriptor(e, r)
    [] r.req = "SET_ADDRESS"       -> USBD_SetAddress(e, r)
    [] r.req = "SET_CONFIGURATION" -> USBD_SetConfig(e, r)
    [] r.req = "GET_CONFIGURATION" -> USBD_GetConfig(e, r)
    [] r.req = "GET_STATUS"        -> USBD_GetStatus(e, r)
    [] r.req = "SET_FEATURE"       -> USBD_SetFeature(e, r)
    [] r.req = "CLEAR_FEATURE"     -> USBD_ClrFeature(e, r)
    [] OTHER                       -> USBD_CtlError(e)

\* Mutant: not only when configured.
StdItfReq_Any(e, r) ==
  IF r.idx <= USBD_MAX_NUM_INTERFACES
  THEN IF r.len = 0 THEN USBD_CtlSendStatus(USBD_MSC_Setup(e, r))
                    ELSE USBD_MSC_Setup(e, r)
  ELSE USBD_CtlError(e)

\* With no data stage the status is sent even if the class has refused.
USBD_StdItfReq(e, r) ==
  IF e.state = "CONFIGURED" /\ r.idx <= USBD_MAX_NUM_INTERFACES
  THEN IF r.len = 0 THEN USBD_CtlSendStatus(USBD_MSC_Setup(e, r))
                    ELSE USBD_MSC_Setup(e, r)
  ELSE USBD_CtlError(e)

\* The halts of the bulk endpoints belong to MscBot.  In ADDRESSED nothing
\* answers these requests, nor any other request to an endpoint ever.
USBD_StdEPReq(e, r) ==
  CASE r.req \in {"SET_FEATURE", "CLEAR_FEATURE", "GET_STATUS"}
         /\ e.state \notin {"ADDRESSED", "CONFIGURED"} -> USBD_CtlError(e)
    [] r.req = "SET_FEATURE" /\ e.state = "CONFIGURED" ->
         USBD_CtlSendStatus(USBD_MSC_Setup(e, r))
    [] r.req = "CLEAR_FEATURE" /\ e.state = "CONFIGURED" /\ r.val = EP_HALT ->
         USBD_CtlSendStatus(IF r.idx % 128 # 0 THEN USBD_MSC_Setup(e, r) ELSE e)
    [] r.req = "GET_STATUS" /\ e.state = "CONFIGURED" -> USBD_CtlSendData(e, r, 2)
    [] OTHER -> e

-----------------------------------------------------------------------------
(* The core (usbd_core.c).                                                 *)

USBD_LL_SetupStage(c, r) ==
  LET e == [Forget(c) EXCEPT !.ep0 = "SETUP"]
  IN  CASE r.to = "device"    -> USBD_StdDevReq(e, r)
        [] r.to = "interface" -> USBD_StdItfReq(e, r)
        [] r.to = "endpoint"  -> USBD_StdEPReq(e, r)
        [] OTHER -> IF r.dir = "in" THEN [e EXCEPT !.stallIn = TRUE]
                                    ELSE [e EXCEPT !.stallOut = TRUE]

\* Mutant: no empty packet after a data stage of whole packets.
DataIn0_NoZlp(e) ==
  IF e.ep0 # "DATA_IN" THEN e
  ELSE IF e.rem > MaxPacket
  THEN USBD_CtlContinueSendData([e EXCEPT !.rem = @ - MaxPacket],
                                e.rem - MaxPacket)
  ELSE USBD_CtlReceiveStatus(e)

\* Mutant: the last packet is taken off too.
DataIn0_Under(e) ==
  CASE e.ep0 # "DATA_IN" -> e
    [] e.ep0 = "DATA_IN" /\ e.rem > 0 ->
         USBD_CtlContinueSendData([e EXCEPT !.rem = @ - MaxPacket],
                                  e.rem - MaxPacket)
    [] OTHER -> USBD_CtlReceiveStatus(e)

\* USBD_LL_DataInStage for endpoint 0.
DataIn0(e) ==
  CASE e.ep0 # "DATA_IN" -> e
    [] e.ep0 = "DATA_IN" /\ e.rem > MaxPacket ->
         USBD_CtlContinueSendData([e EXCEPT !.rem = @ - MaxPacket],
                                  e.rem - MaxPacket)
    [] e.ep0 = "DATA_IN" /\ e.rem <= MaxPacket
         /\ e.total % MaxPacket = 0 /\ e.total >= MaxPacket /\ e.total < e.dlen ->
         USBD_LL_Transmit([e EXCEPT !.dlen = 0], Zlp, 0, 0)
    [] OTHER -> USBD_CtlReceiveStatus(e)

\* USBD_LL_DataInStage and USBD_LL_DataOutStage for the bulk endpoints: the
\* class, if the device is configured, goes on to the other endpoint.
ToClass(e, next) ==
  [e EXCEPT !.bulk = IF e.state = "CONFIGURED" THEN next ELSE "lost"]

\* Mutant: the class survives the reset.
LL_Reset_KeepsClass(e) == [e EXCEPT !.state = "DEFAULT", !.masked = FALSE]

USBD_LL_Reset(e) ==
  LET r == [e EXCEPT !.state = "DEFAULT", !.masked = FALSE]
  IN  IF r.class THEN USBD_ClrClassConfig(r) ELSE r

USBD_LL_Suspend(e) == [e EXCEPT !.old = e.state, !.state = "SUSPENDED"]

\* Mutant: resume goes back to where enumeration starts.
LL_Resume_Default(e) == [e EXCEPT !.state = "DEFAULT"]

USBD_LL_Resume(e) == [e EXCEPT !.state = e.old]

-----------------------------------------------------------------------------
(* HAL_PCD_IRQHandler, section by section.                                 *)

\* The enabled interrupts of the controller.
Pending(e) ==
  \/ ~e.masked /\ (e.xout \/ e.stup)
  \/ e.xin # None \/ e.bulk \in {"outDone", "inDone"}
  \/ e.wk \/ e.sp \/ e.rs \/ e.en \/ e.rxq # << >>

\* Mutant: the interrupt of the SETUP packet is not cleared.
ServeOut0_KeepsSetup(e) ==
  LET x == [e EXCEPT !.xout = FALSE]
  IN  CASE e.masked            -> e
        [] ~e.masked /\ e.stup -> USBD_LL_SetupStage(x, e.setup)
        [] OTHER               -> x

\* Endpoint 0 is never in DATA_OUT, so USBD_LL_DataOutStage does nothing for
\* it.  Its completion is served before its SETUP packet; hpcd->Setup is not
\* looked at again once that is served.
ServeOut0(e) ==
  LET x == [e EXCEPT !.xout = FALSE]
  IN  CASE e.masked           -> e
        [] ~e.masked /\ e.stup ->
             [USBD_LL_SetupStage(x, e.setup) EXCEPT !.stup = FALSE,
                                                    !.setup = NoRequest]
        [] OTHER              -> x

ServeOut(e) ==
  LET x == ServeOut0(e)
  IN  IF x.bulk = "outDone" THEN ToClass(x, "inArmed") ELSE x

ServeIn(e) ==
  LET x == IF e.xin # None THEN DataIn0([e EXCEPT !.xin = None]) ELSE e
  IN  IF x.bulk = "inDone" THEN ToClass(x, "outArmed") ELSE x

ServeWakeup(e) == IF e.wk THEN [USBD_LL_Resume(e) EXCEPT !.wk = FALSE] ELSE e

ServeSuspend(e) ==
  CASE e.sp /\ bus = "suspended" -> [USBD_LL_Suspend(e) EXCEPT !.sp = FALSE]
    [] OTHER                    -> [e EXCEPT !.sp = FALSE]

\* The endpoint interrupts are cleared and those of endpoint 0 unmasked.
ServeReset(e) ==
  IF ~e.rs THEN e
  ELSE [e EXCEPT !.rs = FALSE, !.xin = None, !.xout = FALSE, !.stup = FALSE,
                 !.masked = FALSE, !.addr = 0,
                 !.nullUse = {},
                 !.bulk = IF @ \in {"outDone", "inDone", "lost"}
                          THEN "closed" ELSE @]

ServeEnumDone(e) == IF e.en THEN [USBD_LL_Reset(e) EXCEPT !.en = FALSE] ELSE e

\* An entry of the receive FIFO: the end of a SETUP packet and of a transfer
\* raise the interrupt of their endpoint.
Pop(e) ==
  LET x == [e EXCEPT !.rxq = Tail(@)]
  IN  CASE Head(e.rxq).what = "setup"     -> [x EXCEPT !.setup = Head(e.rxq).req]
        [] Head(e.rxq).what = "setupDone" -> [x EXCEPT !.stup = TRUE]
        [] Head(e.rxq).what = "status"    -> [x EXCEPT !.xout = TRUE]
        [] OTHER                          -> [x EXCEPT !.bulk = "outDone"]

\* Mutant: the FIFO is read until it is empty.
ServeRx_All(e) ==
  CASE Len(e.rxq) > 1 -> Pop(Pop(e))
    [] Len(e.rxq) = 1 -> Pop(e)
    [] OTHER          -> e

\* One entry in a pass.
ServeRx(e) == IF e.rxq # << >> THEN Pop(e) ELSE e

Section(from, to, left) ==
  /\ at = from
  /\ at' = to
  /\ d' = left
  /\ UNCHANGED <<host, bus>>

HandleOut   == Pending(d) /\ Section("out", "in", ServeOut(d))
HandleIn    == Section("in", "wkup", ServeIn(d))
HandleSleep == Section("wkup", "rst", ServeSuspend(ServeWakeup(d)))
HandleReset == Section("rst", "rx", ServeEnumDone(ServeReset(d)))
HandleRx    == Section("rx", "out", ServeRx(d))

HAL_PCD_IRQHandler ==
  HandleOut \/ HandleIn \/ HandleSleep \/ HandleReset \/ HandleRx

-----------------------------------------------------------------------------
(* The bus and the host.                                                   *)

\* USBD_Init and USBD_Start: the variables are in .bss, so dev_old_state is 0,
\* and no endpoint interrupt is enabled before the first reset.
Init ==
  /\ d = [state |-> "DEFAULT", old |-> "NONE", config |-> 0, addr |-> 0,
          class |-> FALSE, bulk |-> "closed", nullUse |-> {},
          setup |-> NoRequest,
          ep0 |-> "IDLE", dlen |-> 0, total |-> 0, rem |-> 0,
          in |-> NoIn,
          out |-> FALSE, stallIn |-> FALSE, stallOut |-> FALSE,
          xin |-> None, xout |-> FALSE, stup |-> FALSE, masked |-> TRUE,
          wk |-> FALSE, sp |-> FALSE, rs |-> FALSE, en |-> FALSE,
          rxq |-> << >>]
  /\ at = "out"
  /\ host = [phase |-> "idle", req |-> NoRequest, got |-> 0, ok |-> TRUE,
             view |-> "attached", addr |-> 0]
  /\ bus = "on"

Received(what) == [d EXCEPT !.rxq = Append(@, [what |-> what])]

\* The handler has nothing to do: what a bus that has been idle for 3 ms, or
\* a host that has waited for seconds, can count on if the handler is Prompt.
Settled == at = "out" /\ ~Pending(d)

\* A host leaves the device 10 ms after a reset and after a resume.
Recovered == Prompt => ~d.rs /\ ~d.en /\ ~d.wk

\* The controller takes a SETUP packet whatever state its endpoint is in: it
\* ends a halt and disarms both directions.
HostSetup(r) ==
  /\ bus = "on" /\ host.phase = "idle" /\ host.view # "attached"
  /\ host.addr = d.addr /\ Recovered
  /\ d' = [d EXCEPT !.rxq = @ \o <<[what |-> "setup", req |-> r],
                                   [what |-> "setupDone"]>>,
                    !.in.on = FALSE, !.out = FALSE,
                    !.stallIn = FALSE, !.stallOut = FALSE]
  /\ host' = [host EXCEPT
       !.phase = IF r.dir = "in" /\ r.len # 0 THEN "data" ELSE "status_in",
       !.req = r]
  /\ UNCHANGED <<at, bus>>

\* The host is done with its request, however it ended.
Idle == [host EXCEPT !.phase = "idle", !.req = NoRequest,
                     !.got = 0, !.ok = TRUE]

InReady == d.in.on /\ ~d.stallIn
TakeIn  == [d EXCEPT !.in.on = FALSE, !.xin = d.in.src]

\* A packet of the data stage; a short one, or the last byte asked for, ends
\* the stage.  ok: it was the next piece of the answer to this request.
HostDataIn ==
  /\ bus = "on" /\ host.phase = "data" /\ InReady
  /\ d' = TakeIn
  /\ host' = [host EXCEPT
       !.got = @ + d.in.len,
       !.ok = @ /\ \/ d.in.src = Source(host.req) /\ d.in.off = host.got
                   \/ d.in.src = Zlp,
       !.phase = IF d.in.len < MaxPacket \/ host.got + d.in.len >= host.req.len
                 THEN "status_out" ELSE "data"]
  /\ UNCHANGED <<at, bus>>

\* What the host believes after a request without a data stage has succeeded.
View(r) ==
  CASE r.req = "SET_ADDRESS" -> IF r.val = 0 THEN "default" ELSE "addressed"
    [] r.req = "SET_CONFIGURATION" ->
         IF r.val = 0 THEN "addressed" ELSE "configured"
    [] OTHER -> host.view

HostStatusIn ==
  /\ bus = "on" /\ host.phase = "status_in" /\ InReady
  /\ d' = TakeIn
  /\ host' = [Idle EXCEPT
       !.view = View(host.req),
       !.addr = IF host.req.req = "SET_ADDRESS" THEN host.req.val ELSE @]
  /\ UNCHANGED <<at, bus>>

HostStatusOut ==
  /\ bus = "on" /\ host.phase = "status_out" /\ d.out /\ ~d.stallOut
  /\ d' = [Received("status") EXCEPT !.out = FALSE]
  /\ host' = Idle
  /\ UNCHANGED <<at, bus>>

HostStalled ==
  /\ bus = "on" /\ host.phase # "idle"
  /\ IF host.phase = "status_out" THEN d.stallOut ELSE d.stallIn
  /\ host' = Idle
  /\ UNCHANGED <<d, at, bus>>

\* Endpoint 0 has nothing to serve and nothing for the host.
Ep0Settled ==
  /\ d.xin = None /\ (d.masked \/ ~d.stup) /\ ~d.rs /\ ~d.en
  /\ \A i \in DOMAIN d.rxq : d.rxq[i].what \notin {"setup", "setupDone"}

InVain ==
  /\ bus = "on" /\ host.phase # "idle" /\ Ep0Settled
  /\ host.phase \in {"data", "status_in"} => ~d.in.on /\ ~d.stallIn
  /\ host.phase = "status_out" => ~d.out /\ ~d.stallOut

HostTimesOut ==
  /\ InVain
  /\ host' = Idle
  /\ UNCHANGED <<d, at, bus>>

\* A host stops the bulk traffic of an interface before it changes its
\* configuration or ends a halt; what it has moved may still be in the device.
StopsBulk(r) == r.req = "SET_CONFIGURATION" \/ r.to = "endpoint"

BulkRuns ==
  /\ bus = "on" /\ host.view = "configured" /\ Recovered
  /\ host.phase # "idle" => ~StopsBulk(host.req)

HostBulkOut ==
  /\ BulkRuns /\ d.bulk = "outArmed"
  /\ d' = [Received("bulk") EXCEPT !.bulk = "outFifo"]
  /\ UNCHANGED <<at, host, bus>>

HostBulkIn ==
  /\ BulkRuns /\ d.bulk = "inArmed"
  /\ d' = [d EXCEPT !.bulk = "inDone"]
  /\ UNCHANGED <<at, host, bus>>

\* Nothing moves for 3 ms.
HostSuspend ==
  /\ bus = "on" /\ host.phase = "idle" /\ (Prompt => Settled)
  /\ bus' = "suspended"
  /\ d' = [d EXCEPT !.sp = TRUE]
  /\ UNCHANGED <<at, host>>

HostResume ==
  /\ bus = "suspended" /\ host.view # "attached" /\ (Prompt => Settled)
  /\ bus' = "on"
  /\ d' = [d EXCEPT !.wk = TRUE]
  /\ UNCHANGED <<at, host>>

\* The host resets the port at any moment, but not before the device had the
\* time to read the last SETUP packet.  Out of suspend, the reset may also be
\* taken for a resume.
HostReset ==
  /\ bus # "reset"
  /\ Prompt => d.rxq = << >> /\ (d.masked \/ ~d.stup) /\ ~d.sp
  /\ \E w \in {FALSE, bus = "suspended"} :
       d' = [d EXCEPT !.rs = TRUE, !.wk = @ \/ w]
  /\ bus' = "reset"
  /\ host' = [Idle EXCEPT !.view = "default", !.addr = 0]
  /\ UNCHANGED at

HostResetEnds ==
  /\ bus = "reset" /\ (Prompt => Settled)
  /\ bus' = "on"
  /\ d' = [d EXCEPT !.en = TRUE]
  /\ UNCHANGED <<at, host>>

HostMoves == HostDataIn \/ HostStatusIn \/ HostStatusOut \/ HostStalled
               \/ HostTimesOut

Next ==
  \/ HAL_PCD_IRQHandler
  \/ HostMoves
  \/ \E r \in Requests : HostSetup(r)
  \/ HostBulkOut \/ HostBulkIn
  \/ HostSuspend \/ HostResume \/ HostReset \/ HostResetEnds

Spec == Init /\ [][Next]_vars

\* The interrupt is taken, and the host goes on with the request it has open.
FairSpec == Spec /\ WF_vars(HAL_PCD_IRQHandler) /\ WF_vars(HostMoves)

-----------------------------------------------------------------------------
(* What the theorems about control transfers assume of the host and of the *)
(* descriptors, and the instance checked by TLC satisfies.                 *)

\* Class requests go to the interface, as the class specification has it.
ClassToInterface == \A r \in Requests : r.kind = "class" => r.to = "interface"

\* Direction, length and recipient are those the USB specification gives the
\* request; the requests the device does not know may have any.
Legal(r) ==
  /\ r.req \in {"GET_CONFIGURATION", "GET_INTERFACE", "GET_MAX_LUN"} =>
       r.dir = "in" /\ r.len = 1
  /\ r.req = "GET_STATUS" => r.dir = "in" /\ r.len = 2
  /\ r.req = "GET_DESCRIPTOR" => r.dir = "in"
  /\ r.req \in {"SET_ADDRESS", "SET_CONFIGURATION", "SET_FEATURE",
                "CLEAR_FEATURE", "SET_INTERFACE", "BOT_RESET"} =>
       r.dir = "out" /\ r.len = 0
  /\ r.req \in {"SET_ADDRESS", "SET_CONFIGURATION"} => r.to = "device"
  /\ r.req = "CLEAR_FEATURE" => r.to # "interface"
  /\ r.req = "CLEAR_FEATURE" /\ r.to = "device" => r.idx = 0

HostRequests ==
  /\ ClassToInterface
  /\ \A r \in Requests : Legal(r)
  /\ \A k \in DOMAIN DescLen : DescLen[k] # 0

-----------------------------------------------------------------------------
(* Properties.                                                             *)

States   == {"DEFAULT", "ADDRESSED", "CONFIGURED", "SUSPENDED"}
Sections == {"out", "in", "wkup", "rst", "rx"}
Sources  == (Names \X Nat) \cup {Zlp, Status, None}
SetupsOf == Requests \cup {NoRequest}
Entries  == [what : {"setup"}, req : SetupsOf]
              \cup [what : {"setupDone", "status", "bulk"}]

DeviceType ==
  [state : States, old : States \cup {"NONE"}, config : Nat, addr : Nat,
   class : BOOLEAN,
   bulk : {"closed", "outArmed", "inArmed", "lost"} \cup InFlight,
   nullUse : SUBSET SetupsOf, setup : SetupsOf,
   ep0 : {"IDLE", "SETUP", "DATA_IN", "STATUS_IN", "STATUS_OUT"},
   dlen : Nat, total : Nat, rem : Nat,
   in : [on : BOOLEAN, src : Sources, off : Nat, len : Nat],
   out : BOOLEAN, stallIn : BOOLEAN, stallOut : BOOLEAN,
   xin : Sources, xout : BOOLEAN, stup : BOOLEAN, masked : BOOLEAN,
   wk : BOOLEAN, sp : BOOLEAN, rs : BOOLEAN, en : BOOLEAN,
   rxq : Seq(Entries)]

HostType ==
  [phase : {"idle", "data", "status_in", "status_out"}, req : SetupsOf,
   got : Nat, ok : BOOLEAN,
   view : {"attached", "default", "addressed", "configured"}, addr : Nat]

\* Types.  rem, the bytes left of a data stage, never goes below zero.
TypeOK ==
  /\ d \in DeviceType
  /\ at \in Sections
  /\ host \in HostType
  /\ bus \in {"on", "suspended", "reset"}

\* The state behind a suspend.
Effective == IF d.state = "SUSPENDED" THEN d.old ELSE d.state

\* The class has its data and its endpoints exactly while the device is
\* configured, whatever suspends, resumes, resets, changes of configuration
\* and refused requests came in between (usbd_core.c: USBD_LL_Reset,
\* USBD_LL_Suspend, USBD_LL_Resume; usbd_ctlreq.c: USBD_SetConfig).
ClassWhenConfigured == d.class <=> Effective = "CONFIGURED"

\* The class data is never used where there is none, except by one request:
\* CLEAR_FEATURE(remote wakeup) of a device that has only its address.
NoNullUse ==
  \A r \in d.nullUse : r.to = "device" /\ r.req = "CLEAR_FEATURE"

\* A completion that USBD_LL_DataInStage takes for a step of the data stage is
\* one of the current request.  Nothing in the code looks: it is the order of
\* the sections of HAL_PCD_IRQHandler, and one FIFO entry in a pass, that has
\* the status packet of a request served before the next SETUP packet.
OwnCompletion ==
  d.ep0 = "DATA_IN" /\ d.xin # None => d.xin = d.in.src

Answer(r) ==
  CASE r.req = "GET_DESCRIPTOR" -> DescLen[r.val]
    [] r.req = "GET_STATUS"     -> 2
    [] OTHER                    -> 1

\* What a control read has delivered when its data stage ends is the answer to
\* that request, in order, as far as the host asked for it, however many
\* packets it took; and what ends a request without data is its status.
ReadExact ==
  /\ host.phase = "status_out" =>
       host.ok /\ host.got = Min2(Answer(host.req), host.req.len)
  /\ host.phase = "status_in" /\ InReady => d.in.src = Status

\* When the device has settled, the host is right about the state it is in.
HostAgrees ==
  Settled /\ host.phase = "idle" =>
    /\ bus # "reset" => (d.state = "SUSPENDED" <=> bus = "suspended")
    /\ bus # "reset" /\ host.view # "attached" =>
         /\ Effective = CASE host.view = "default"   -> "DEFAULT"
                          [] host.view = "addressed" -> "ADDRESSED"
                          [] OTHER                   -> "CONFIGURED"
         /\ d.addr = host.addr

\* The requests to which the code has no answer, neither data nor a status nor
\* a halt, for a host that believes the device to be in the state v.
NoAnswer(v, r) ==
  \/ r.to = "device" /\ r.req = "GET_DESCRIPTOR" /\ r.len = 0
  \/ r.to = "device" /\ r.req = "SET_FEATURE" /\ r.val # REMOTE_WAKEUP
  \/ r.to = "device" /\ r.req = "CLEAR_FEATURE" /\ r.val # REMOTE_WAKEUP
       /\ v # "default"
  \/ r.to = "interface" /\ r.kind = "standard" /\ r.req # "GET_INTERFACE"
       /\ r.len # 0 /\ r.idx <= USBD_MAX_NUM_INTERFACES /\ v = "configured"
  \/ r.to = "endpoint" /\ v = "addressed"
  \/ r.to = "endpoint"
       /\ r.req \notin {"SET_FEATURE", "CLEAR_FEATURE", "GET_STATUS"}
  \/ r.to = "endpoint" /\ r.req = "CLEAR_FEATURE" /\ r.val # EP_HALT
       /\ v # "default"
  \/ r.to = "other" /\ r.dir = "out"

\* A host waits in vain only for those, or after a CLEAR_FEATURE(remote wakeup)
\* has masked the control endpoint.
AnsweredOrNamed == InVain => NoAnswer(host.view, host.req) \/ d.masked

\* A bulk completion is never lost on its way to the class: neither dropped
\* because the device is suspended or not configured any more, nor masked or
\* flushed with its endpoint.  The same request is the exception.
BulkKept == d.bulk = "lost" => d.masked

\* Every control transfer ends.
Ends == host.phase # "idle" ~> host.phase = "idle"
=============================================================================
